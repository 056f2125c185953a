SPECIFICATION Spec
CONSTANTS
  Last = 2
  Limit = 1
  Kinds = {"attached", "detached", "away"}
INVARIANTS
  BlameIsJust
  AdaptersAreIsolated
  SomethingComes
PROPERTIES
  TerminationReachesGroup
  EveryVectorIsReported
CHECK_DEADLOCK FALSE
