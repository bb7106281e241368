SPECIFICATION Spec
CONSTANTS
  Bytes <- SampleBytes
  MaxLength = 5
  UnsignedMax = 31
INVARIANTS SyntaxIsGrammar ReadsExactly CopyKeepsNumber
PROPERTY NeverWraps
CHECK_DEADLOCK FALSE
