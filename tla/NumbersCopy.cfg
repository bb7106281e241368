SPECIFICATION Spec
CONSTANTS
  Bytes <- SampleBytes
  MaxLength = 5
  UnsignedMax = 31
CHECK_DEADLOCK FALSE
INVARIANT FractionsAreCopied
