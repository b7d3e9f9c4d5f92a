SPECIFICATION Spec
CONSTANTS
  MaxPanes = 3
  Setups <- MCBareName
INVARIANTS OneSession
CHECK_DEADLOCK FALSE
