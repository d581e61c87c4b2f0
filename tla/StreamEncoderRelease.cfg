CONSTANTS
  BufferSize = 2
  Channels = 1
  Sizes <- MCSizes
  MaxSamples = 2
  MaxFailures = 0
SPECIFICATION FairSpec
CHECK_DEADLOCK FALSE
PROPERTIES
  ReleaseAlwaysReturns
