SPECIFICATION FairSpec
CONSTANTS
  Attempts = 2
  MaxRevives = 3
  MaxBoot = 3
  Setups <- MCSetups
INVARIANTS StampTrue ChoiceTrue PairKept
PROPERTY NeverLeftDark
CHECK_DEADLOCK FALSE
