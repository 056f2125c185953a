SPECIFICATION Spec
CONSTANTS
  Keys <- MCKeys
  Fingerprints = {"bound", "other"}
  BoundFingerprint = "bound"
  Requests <- MCRequests
INVARIANTS
  TypeOK
  SettlementFinality
  ChargedOnlyForStagedOutput
  EvidenceIsStateClosed
  DoubtIsEvidenced
  EffectsAreRecorded
  JournalExplainsState
  IntentIsBound
  RunnerAccepts
PROPERTIES
  KeepsPromise
CHECK_DEADLOCK FALSE
