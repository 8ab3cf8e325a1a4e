SPECIFICATION LiveSpec
CONSTANTS
  MaxSend = 3
  MaxLaunch = 2
  Big <- MCBig
INVARIANTS
  TypeOK
  AnswersMatch
  StopMessageIsLast
PROPERTIES
  HandledAtMostOnce
  QueueIsServed
  OwnerReturns
CHECK_DEADLOCK FALSE
