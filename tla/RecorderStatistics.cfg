CONSTANTS
  Second = 2
  Limit = 2
  MaxClicks = 4
  MaxChunks = 2
  MaxFailures = 1
SPECIFICATION FairSpec
CHECK_DEADLOCK FALSE
INVARIANTS
  LastAmplitudesCount
