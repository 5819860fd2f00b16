CONSTANTS
  bob = bob
  alice = alice
  call = call
  r1 = r1
  r2 = r2
  None = None
  Policies = {1, 2}
  Roles = {r1, r2}
  Callers = {bob, alice}
  Calls = {call}
  Caller <- MCCaller
  Contents <- DeferralContents
  MaxWindow = 0
SPECIFICATION Spec
CONSTRAINTS InOrder OneDependency
INVARIANTS
  AdmissionJustified
CHECK_DEADLOCK FALSE
