CONSTANTS
  bob = bob
  alice = alice
  call = call
  r1 = r1
  r2 = r2
  None = None
  Policies = {1, 2, 3, 4}
  Roles = {r1}
  Callers = {bob}
  Calls = {call}
  Caller <- MCCaller
  Contents <- CacheContents
  MaxWindow = 1
SPECIFICATION Spec
CONSTRAINTS InOrder OneDependency Unassisted Held FourOrTwoWindows OneCancelled FirstIsDependedOn
INVARIANTS
  CacheTransparent RetiredNeedsTwoFailures DivergenceExplained
CHECK_DEADLOCK FALSE
