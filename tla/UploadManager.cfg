CONSTANTS
  plain = plain
  pictured = pictured
  None = None
  Boos <- MCBoos
  WithImage <- MCWithImage
  RecordedAt <- MCRecordedAt
  Size <- MCSize
  MaxChunk = 2
  MaxMessages = 2
  MaxPending = 2
  MaxFailures = 1
SPECIFICATION FairSpec
CHECK_DEADLOCK FALSE
INVARIANTS
  TypeOK
  UploadedWasReceived
  PublishedWhole
  DeletedIsPublished
PROPERTIES
  AttachmentKept
  UploadsEnd
