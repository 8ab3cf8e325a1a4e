SPECIFICATION SilentSpec
CONSTANTS
  MaxSend = 2
  MaxLaunch = 1
  Big <- MCBig
PROPERTY WriteTimesOut
CHECK_DEADLOCK FALSE
