SPECIFICATION FairSpec
CONSTANTS
  lead = lead
  helper = helper
  build = build
  test = test
  NoTask = NoTask
  NoNode = NoNode
  Tasks = {lead}
  Nodes = {build, test}
  NodeOf <- MCNodeOf
  ParentOf <- MCParentOf
  Before <- MCBefore
  MaxConcurrency = 2
  MaxWorkers = 2
  MaxRuns = 2
  MaxCalls = 1
  MaxMoves = 2
  MaxStarts = 1
INVARIANTS
  TypeOK
  SettledTogether
  SuccessIsProven
  RecoveryLeavesNothing
PROPERTIES
  ImplementsJournal
  ExecutionSettles
CHECK_DEADLOCK FALSE
