SPECIFICATION Spec
CONSTANTS
  Senders = {p1}
  Sends = {s1}
  Asks = {}
  Notices = {}
  Alerts = {}
  AnswersBreak = TRUE
  MaxTexts = 1
  MaxFiles = 0
  MaxMessages = 1
  MaxRuns = 2
  MaxLedgerFaults = 0
  MaxKills = 0
CHECK_DEADLOCK FALSE
INVARIANTS NeverDuplicated
