SPECIFICATION FairSpec
CONSTANTS
  MaxTurn = 2
  MaxUpdate = 1
  InRoom = 1
  OutRoom = 1
INVARIANTS
  AcpTypeOK
  DoneComplete
  FailFast
  NoStalePending
PROPERTIES
  UnusedAfterTimeout
  TurnEnds
CHECK_DEADLOCK FALSE
