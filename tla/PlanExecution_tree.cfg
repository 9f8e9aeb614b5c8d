SPECIFICATION Spec
CONSTANTS
  lead = lead
  helper = helper
  build = build
  test = test
  NoTask = NoTask
  NoNode = NoNode
  Tasks = {lead, helper}
  Nodes = {build}
  NodeOf <- MCNodeOf
  ParentOf <- MCParentOf
  Before <- MCBefore
  MaxConcurrency = 2
  MaxWorkers = 2
  MaxRuns = 2
  MaxCalls = 1
  MaxMoves = 1
  MaxStarts = 0
INVARIANTS
  CancelledNeverSucceeds
  OrphansExplained
PROPERTIES
  CompletedIsProven
CHECK_DEADLOCK FALSE
