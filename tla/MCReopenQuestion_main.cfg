SPECIFICATION FairSpec
CONSTANTS
  Setups <- AllSetups
  MaxGen = 3
  MaxShown = 1
  MaxQueue = 1
CHECK_DEADLOCK FALSE
INVARIANTS FileIsMemory QuestionsTrue
PROPERTIES KillSwitchHolds QuestionsSettle
