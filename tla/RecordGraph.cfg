CONSTANTS
  Ids = {1, 2, 3}
  Scopes = {s1, s2}
  Ranks = {1}
  Events = {e1}
  MaxDeps = 2
  None = 0
SPECIFICATION Spec
CONSTRAINT NamedInOrder
INVARIANTS
  CausalOrder StaleHasCause FolderTree ExpandedMarkInherited
PROPERTIES
  StaleOnlyByDirectCancel
CHECK_DEADLOCK FALSE
