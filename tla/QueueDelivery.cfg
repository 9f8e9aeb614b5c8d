SPECIFICATION Spec
CONSTANTS
  MaxItems = 3
  Pivots <- MCPivots
  Capacity = 2
  MaxStreams = 2
  MaxAsked = 1
INVARIANTS
  TypeOK
  NoReplay
  InputAccounted
PROPERTIES
  RewoundStaysAway
  PivotStartsOwnTurn
CHECK_DEADLOCK FALSE
