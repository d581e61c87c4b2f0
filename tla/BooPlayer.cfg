CONSTANTS
  remote = remote
  local = local
  odd = odd
  NoBoo = NoBoo
  RemoteBoos <- MCRemote
  LocalBoos <- MCLocal
  OddBoos <- MCOdd
  Positions <- MCPositions
  MaxCalls = 3
SPECIFICATION FairSpec
CHECK_DEADLOCK FALSE
INVARIANTS
  TypeOK
  PlayerFitsState
  SoundOnlyWhileActive
  PausedIsPrepared
  NotificationCleared
PROPERTIES
  ErrorLeftOnlyByPlay
  PlayStarts
