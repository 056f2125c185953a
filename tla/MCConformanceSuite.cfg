SPECIFICATION Spec
CONSTANTS
  Last = 2
  Limit = 1
  Kinds = {"attached", "detached", "away"}
INVARIANTS
  JudgedOutputIsFinal
  StragglersAreDoomed
PROPERTIES
  KeepsTurns
  SuiteEnds
CHECK_DEADLOCK FALSE
