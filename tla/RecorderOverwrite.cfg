CONSTANTS
  Second = 2
  Limit = 2
  MaxClicks = 5
  MaxChunks = 2
  MaxFailures = 0
SPECIFICATION FairSpec
CHECK_DEADLOCK FALSE
PROPERTIES
  RecordsToNewFile
