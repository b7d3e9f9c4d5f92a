SPECIFICATION Spec
CONSTANTS
  MaxPanes = 3
  Setups <- MCDeath
INVARIANTS ChoiceTopicOwners
CHECK_DEADLOCK FALSE
