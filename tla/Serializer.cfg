SPECIFICATION Spec
CONSTANTS
  NONE = NONE
  Trees <- Samples
  Flags <- AllFlags
  Maxima = {1, 11, 50, 300}
  InitialCapacity = 2
INVARIANTS BufferFits NothingLeaks LimitIsExact OutputReadsBack
PROPERTY SerializeReturns
CHECK_DEADLOCK FALSE
