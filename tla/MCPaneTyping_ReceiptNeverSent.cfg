SPECIFICATION TypingSpec
CONSTANTS
  Threads = {t1}
  Notifies = {}
  NoOne = NoOne
  Faults = {}
  MaxAttempts = 2
  MaxWindows = 0
  MaxModals = 1
CHECK_DEADLOCK FALSE
INVARIANTS ReceiptNeverSent
