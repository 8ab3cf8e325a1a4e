SPECIFICATION Spec
CONSTANT MaxCalls = 3
INVARIANTS
  ResultIsThisCalls
  ConvertReadsOwnBuffer
  UndefinedNeedsLoss
CHECK_DEADLOCK FALSE
