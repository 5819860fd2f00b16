CONSTANTS
  Ids = {1, 2, 3, 4}
  Scopes = {s1}
  Ranks = {1, 2}
  Events = {}
  MaxDeps = 1
  None = 0
SPECIFICATION Spec
CONSTRAINTS NamedInOrder Flat
INVARIANTS
  LineageSound LiveIsHead
CHECK_DEADLOCK FALSE
