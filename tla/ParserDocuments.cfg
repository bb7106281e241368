SPECIFICATION DocumentSpec
CONSTANTS
  NONE = NONE
  Lexemes <- DocumentLexemes
  Calls <- DocumentCalls
  MaxBytes = 24
  MaxDepth = 3
  MaxTokens = 9
  SizeMax = 4000
  DocumentSize = 88
  TokenSize = 96
  WordSize = 8
  MinimumCapacity = 2
  UnsignedMax = 31
  Spelling <- null
INVARIANTS
  LookupAgreesWithTraversal
  DocumentDenotesInput
  CanonicalIsWhatIsWritten
  HeapWithinBound
  NothingLeaks
PROPERTY KeysetNeverGrows
