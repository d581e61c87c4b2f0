CONSTANTS
  StatusTries = 2
  RequestTries = 2
  MaxRetries = 2
  MaxCalls = 0
  MaxFailures = 4
SPECIFICATION FairSpec
CHECK_DEADLOCK FALSE
PROPERTIES
  DroppedOnlyIfRefused
