CONSTANTS
  Second = 2
  Limit = 2
  MaxClicks = 6
  MaxChunks = 2
  MaxFailures = 1
SPECIFICATION FairSpec
CHECK_DEADLOCK FALSE
INVARIANTS
  TypeOK
  StatisticsAddUp
  NeverBehind
PROPERTIES
  NeverRecordedOver
  StopReturns
