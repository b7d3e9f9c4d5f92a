SPECIFICATION Spec
CONSTANTS
  MaxPanes = 3
  Setups <- MCCrash
INVARIANTS OneSession
CHECK_DEADLOCK FALSE
