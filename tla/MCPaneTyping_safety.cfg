SPECIFICATION TypingSpec
CONSTANTS
  Threads = {t1}
  Notifies = {n1}
  NoOne = NoOne
  Faults = {"text", "receipt", "erase", "enter"}
  MaxAttempts = 3
  MaxWindows = 1
  MaxModals = 1
CHECK_DEADLOCK FALSE
INVARIANTS EnterIsMeant PayloadIntact CopiesBounded
