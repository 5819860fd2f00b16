CONSTANTS
  Ids = {1, 2, 3, 4}
  Scopes = {s1}
  Ranks = {1}
  Events = {e1}
  MaxDeps = 1
  None = 0
SPECIFICATION Spec
CONSTRAINT NamedInOrder
INVARIANT ReindexLineageValid
CHECK_DEADLOCK FALSE
