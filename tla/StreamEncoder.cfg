CONSTANTS
  BufferSize = 2
  Channels = 1
  Sizes <- MCSizes
  MaxSamples = 5
  MaxFailures = 4
SPECIFICATION FairSpec
CHECK_DEADLOCK FALSE
INVARIANTS
  TypeOK
  InTransitInOrder
  StoredOrLost
  FileInOrder
  NoBufferOverrun
  GivenUpAfterRetries
PROPERTIES
  RefinesStream
  ReleaseReturns
  FlushReachesFile
