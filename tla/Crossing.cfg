CONSTANTS
  payload = payload
  Attempts = {a1, a2}
  Payloads = {payload}
  Requests <- MCRequests
  Bridges = {b1, b2}
  Works = {w1, w2}
  Auths = {u1, u2}
  Guarded = {b1}
  Stamps <- MCStamps
  MaxTime = 2
  None = None
SPECIFICATION Spec
CONSTRAINT OneSide
INVARIANTS
  AnswersAreTrue LedgerIsReal HitsAreSent GateIsExplained
CHECK_DEADLOCK FALSE
