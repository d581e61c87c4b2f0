CONSTANTS
  Recordings <- MCRecordings
  Header = 1
  Capacity = 3
  Block = 2
  Channels = 1
  Width = 2
  Targets <- MCTargets
  MaxCalls = 3
SPECIFICATION FairSpec
CHECK_DEADLOCK FALSE
INVARIANTS
  TypeOK
  PlaysInOrder
  LossBounded
PROPERTIES
  PlaybackEnds
