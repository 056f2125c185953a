SPECIFICATION Spec
CONSTANTS
  Keys <- MCKeys
  Fingerprints = {"bound", "other"}
  BoundFingerprint = "bound"
  Requests <- MCRequests
INVARIANT EveryRequestIsAnswered
CHECK_DEADLOCK FALSE
