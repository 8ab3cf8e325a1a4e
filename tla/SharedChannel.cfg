SPECIFICATION LiveSpec
CONSTANTS
  MaxMsg = 4
  SegmentCells = 2
  MaxRestart = 1
  Kind <- MCKind
  Size <- MCSize
  Claim <- MCClaim
  Long <- MCLong
  MayDie <- MCMayDie
INVARIANTS
  TypeOK
  DataNotOlderThanSize
  TokensInOrder
  CalmWriteReadWhole
PROPERTIES
  NeverGoesBack
  LastMessageDelivered
  ShutdownCompletes
CHECK_DEADLOCK FALSE
