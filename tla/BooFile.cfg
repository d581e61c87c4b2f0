CONSTANTS
  MaxFiles = 3
  MaxNames = 2
  MaxTime = 2
  MaxSteps = 4
SPECIFICATION Spec
CHECK_DEADLOCK FALSE
INVARIANTS
  TypeOK
  LostOnlyByRace
  DeletedStaysDeleted
  FlattenedWhole
  RecordingsStay
