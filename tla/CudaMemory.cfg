SPECIFICATION LiveSpec
CONSTANT MaxRequest = 3
INVARIANTS
  TypeOK
  UsedInTheirLife
  DestroyedIsQuiet
PROPERTIES
  NeverGoesBack
  LastRequestAnswered
  DestructorReturns
CHECK_DEADLOCK FALSE
