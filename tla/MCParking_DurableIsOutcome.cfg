SPECIFICATION Spec
CONSTANTS
  MaxPanes = 3
  Setups <- MCPark
INVARIANTS DurableIsOutcome
CHECK_DEADLOCK FALSE
