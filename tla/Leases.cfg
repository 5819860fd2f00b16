CONSTANTS
  l1 = l1
  l2 = l2
  w1 = w1
  Leases = {l1, l2}
  Writers = {w1, w2}
  Records = {rec}
  Scope = scope
  MaxTerm = 1
  MaxTime = 1
  None = None
SPECIFICATION MCSpec
INVARIANTS
  AckedIsIndexed
PROPERTIES
  CheckedWriteIsFree  LeaseEnds
CHECK_DEADLOCK FALSE
