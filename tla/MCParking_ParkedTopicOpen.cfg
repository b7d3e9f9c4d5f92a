SPECIFICATION Spec
CONSTANTS
  MaxPanes = 3
  Setups <- MCPark
INVARIANTS ParkedTopicOpen
CHECK_DEADLOCK FALSE
