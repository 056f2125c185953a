SPECIFICATION Spec
CONSTANTS
  Keys <- MCKeys
  Fingerprints = {"bound", "other"}
  BoundFingerprint = "bound"
  Requests <- MCRequests
PROPERTY RevocationTakesEffect
CHECK_DEADLOCK FALSE
