SPECIFICATION FairSpec
CONSTANTS
  MaxPanes = 4
  Setups <- MCSetups
INVARIANTS EntryHonest NewestIsReplayed NothingUnasked
PROPERTIES OwnerWakesParked
CHECK_DEADLOCK FALSE
