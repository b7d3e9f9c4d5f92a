SPECIFICATION Spec
CONSTANTS
  MaxPanes = 3
  Setups <- MCParkTwo
INVARIANTS DrainedIsReplayed
CHECK_DEADLOCK FALSE
