SPECIFICATION Spec
CONSTANTS
  MaxTurn = 2
  MaxUpdate = 1
  InRoom = 1
  OutRoom = 1
PROPERTIES
  ReplacedAfterTimeout
CHECK_DEADLOCK FALSE
