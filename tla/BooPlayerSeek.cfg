CONSTANTS
  remote = remote
  local = local
  odd = odd
  NoBoo = NoBoo
  RemoteBoos <- MCRemote
  LocalBoos <- MCLocal
  OddBoos <- MCOdd
  Positions <- MCPositions
  MaxCalls = 3
SPECIFICATION Spec
CHECK_DEADLOCK FALSE
INVARIANTS
  SeekOnlyWhilePlaying
