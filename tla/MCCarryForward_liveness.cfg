SPECIFICATION FairSpec
CONSTANTS
  Setups <- LiveSetups
  Readable = {TRUE, FALSE}
  Tries = 2
  MaxRuns = 2
  MaxTerm = 2
CHECK_DEADLOCK FALSE
PROPERTIES RunsConclude
