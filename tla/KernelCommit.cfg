CONSTANTS
  Ids = {r1, r2, r3}
  MaxOps = 6
  None = None
  Discipline = TRUE
SPECIFICATION Spec
SYMMETRY Symmetry
INVARIANTS
  LedgerIsTrue AckedIsIndexed IndexesNeverAhead CascadeReachesAll
PROPERTIES
  ImplementsStore
CHECK_DEADLOCK FALSE
