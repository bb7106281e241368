SPECIFICATION Spec
CONSTANTS
  Stdins <- TooLong
  FirstCapacity = 2
  InputLimit = 8
  TextSize = 2
INVARIANT SuccessReadsAll
CHECK_DEADLOCK FALSE
