SPECIFICATION Spec
CONSTANTS
  Groups = {"work", "home"}
  Home = "work"
  Operators = {"o1"}
  MaxKey = 2
  Setups <- MCHalting
INVARIANT TombstonesArePointers
CHECK_DEADLOCK FALSE
