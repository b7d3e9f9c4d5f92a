SPECIFICATION Spec
CONSTANTS
  Senders = {p1}
  Sends = {s1}
  Asks = {}
  Notices = {}
  Alerts = {}
  AnswersBreak = FALSE
  MaxTexts = 2
  MaxFiles = 0
  MaxMessages = 1
  MaxRuns = 1
  MaxLedgerFaults = 0
  MaxKills = 0
CHECK_DEADLOCK FALSE
INVARIANTS LedgerIsWhatWasSent
