SPECIFICATION Spec
CONSTANTS
  Setups <- AllSetups
  Readable = {TRUE, FALSE}
  Tries = 1
  MaxRuns = 2
  MaxTerm = 2
CHECK_DEADLOCK FALSE
INVARIANTS HaltedNeverResumes NeverSilentlyCheap RunsOnRecord
PROPERTIES CooldownHonoured
