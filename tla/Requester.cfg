CONSTANTS
  StatusTries = 1
  RequestTries = 2
  MaxRetries = 2
  MaxCalls = 1
  MaxFailures = 2
SPECIFICATION FairSpec
CHECK_DEADLOCK FALSE
INVARIANTS
  TypeOK
  SuccessIsFinal
PROPERTIES
  DroppedAfterRetries
  OnwardsTold
