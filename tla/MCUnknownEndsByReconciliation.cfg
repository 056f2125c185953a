SPECIFICATION Spec
CONSTANTS
  Keys <- MCKeys
  Fingerprints = {"bound", "other"}
  BoundFingerprint = "bound"
  Requests <- MCRequests
PROPERTY UnknownEndsByReconciliation
CHECK_DEADLOCK FALSE
