CONSTANTS
  Ids = {1, 2, 3}
  policy = policy
  None = None
  Policies = {policy}
  PolicyOf <- MostUnderPolicy
  Counted = {1, 2}
  GraphSpecs <- Graphs
  Cycle = 2
  MaxFailures = 1
  MaxEdits = 1
SPECIFICATION FairSpec
INVARIANTS
  InOrder NeverTwice PredecessorsFirst MarkerExplained
PROPERTIES
  LeavesEnd
CHECK_DEADLOCK FALSE
