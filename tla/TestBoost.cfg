SPECIFICATION SpecBoost
CONSTANTS
  Last = 2
  Objects = {1, 2}
  N <- MCRounds
INVARIANTS
  TypeOK
  StoppedMeansQuiet
  EndedMeansFinished
PROPERTIES
  StopReturns
  BoostReturns
CHECK_DEADLOCK FALSE
