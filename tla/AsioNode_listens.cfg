SPECIFICATION LiveSpec
CONSTANTS
  Clients = {"c1"}
  LineEnds = {1}
  MaxPiece = 1
  MaxPost = 1
PROPERTY DuplexNodeListens
CHECK_DEADLOCK FALSE
