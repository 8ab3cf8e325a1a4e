SPECIFICATION LiveSpec
CONSTANTS
  none = none
  NoNumber = none
  MaxMsg = 5
  Size <- MCSize
  Claim <- MCClaim
PROPERTY DestructorEndsThread
CHECK_DEADLOCK FALSE
