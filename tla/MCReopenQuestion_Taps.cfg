SPECIFICATION Spec
CONSTANTS
  Setups <- TapSetups
  MaxGen = 2
  MaxShown = 1
  MaxQueue = 2
CHECK_DEADLOCK FALSE
INVARIANTS OldTapNeverAnswers TapIsTrue
