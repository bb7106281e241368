SPECIFICATION Spec
CONSTANTS
  Stdins <- Fitting
  FirstCapacity = 2
  InputLimit = 8
  TextSize = 2
INVARIANT CleanExit
CHECK_DEADLOCK FALSE
