SPECIFICATION TypingSpec
CONSTANTS
  Threads = {t1}
  Notifies = {}
  NoOne = NoOne
  Faults = {"receipt"}
  MaxAttempts = 3
  MaxWindows = 0
  MaxModals = 0
CHECK_DEADLOCK FALSE
INVARIANTS AllCopiesBounded
