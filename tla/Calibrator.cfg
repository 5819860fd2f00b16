CONSTANTS
  d = d
  v = v
  w = w
  Ids <- MCIds
  HandIds <- MCHandIds
  Proposals = {r1, r2}
  Auths = {u1, u2}
  Subjects = {s}
  Contents <- MCContents
  Changes <- MCChanges
  Grants <- MCGrants
  Domains = {d}
  Resolvers = {v, w}
  Default = d
  MaxTime = 3
  None = None
SPECIFICATION MCSpec
SYMMETRY Symmetry
INVARIANTS
  ChangesAreGranted ApprovalsAreApplied PendingIsExplained  NamesAreFresh CorpusIsExplained
CHECK_DEADLOCK FALSE
