SPECIFICATION LiveSpec
CONSTANTS
  none = none
  NoNumber = none
  MaxMsg = 5
  Size <- MCSize
  Claim <- MCClaim
INVARIANTS
  TypeOK
  DeliveryIsWhole
PROPERTIES
  NeverGoesBack
  WaitingReaderIsServed
CHECK_DEADLOCK FALSE
