SPECIFICATION Spec
CONSTANTS
  Last = 2
  Limit = 1
  Kinds = {"attached", "detached", "away"}
INVARIANTS
  FailureEndsGroup
CHECK_DEADLOCK FALSE
