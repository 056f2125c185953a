SPECIFICATION Spec
CONSTANTS
  Keys <- MCKeys
  Fingerprints = {"bound", "other"}
  BoundFingerprint = "bound"
  Requests <- MCRequests
INVARIANT ExecutionIsAuthorized
CHECK_DEADLOCK FALSE
