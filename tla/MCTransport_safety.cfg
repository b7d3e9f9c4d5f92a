SPECIFICATION Spec
CONSTANTS
  Senders = {p1, p2}
  Sends = {s1}
  Asks = {k1}
  Notices = {n1}
  Alerts = {a1}
  AnswersBreak = TRUE
  MaxTexts = 2
  MaxFiles = 2
  MaxMessages = 1
  MaxRuns = 2
  MaxLedgerFaults = 1
  MaxKills = 1
CHECK_DEADLOCK FALSE
INVARIANTS ResentOnlyIfExcused MirroredOnce LedgerHonest
PROPERTIES KeepsPromise
