SPECIFICATION LiveSpec
CONSTANTS
  Clients = {"c1", "c2"}
  LineEnds = {2, 3}
  MaxPiece = 4
  MaxPost = 2
INVARIANTS
  FailedWriteIsFinal
  LinesComeWhole
PROPERTIES
  ClientsTakenUp
CHECK_DEADLOCK FALSE
