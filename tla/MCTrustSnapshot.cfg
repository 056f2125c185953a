SPECIFICATION Spec
CONSTANTS
  c1 = c1
  c2 = c2
  Null = Null
  Consumers = {c1, c2}
  Snapshots <- MCSnapshots
  Digests <- MCDigests
  KeyNames <- MCKeyNames
  Anchor <- MCAnchor
  Bound <- MCBound
  Pinned <- MCPinned
  LastInstant = 6
INVARIANTS
  HistoryIsAChain
  ForkConsistency
  AccusationsAreProven
  NoDeadKeyVouches
  CallerBoundOnlyNarrows
CHECK_DEADLOCK FALSE
