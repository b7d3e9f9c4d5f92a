SPECIFICATION FairSpec
CONSTANTS
  Setups <- LiveSetups
  Readable = {TRUE, FALSE}
  Tries = 1
  MaxRuns = 2
  MaxTerm = 2
CHECK_DEADLOCK FALSE
PROPERTIES AlwaysRetried
