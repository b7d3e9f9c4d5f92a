SPECIFICATION FairSpec
CONSTANTS
  Readers = {r1}
  Notifiers = {}
  Keys = {}
  NoKey = NoKey
  Bodies = {"plain", "split"}
  MaxRecords = 2
  MaxShared = 2
  MaxBinds = 1
  MaxCrashes = 1
CHECK_DEADLOCK FALSE
PROPERTIES RecvDeliversUnread
