SPECIFICATION Spec
CONSTANTS
  Setups <- WithheldOnly
  Readable = {TRUE, FALSE}
  Tries = 1
  MaxRuns = 2
  MaxTerm = 2
CHECK_DEADLOCK FALSE
INVARIANTS NoExitSilent
