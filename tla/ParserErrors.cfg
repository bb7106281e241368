SPECIFICATION ErrorSpec
CONSTANTS
  NONE = NONE
  Lexemes <- ErrorLexemes
  Calls <- ErrorCalls
  MaxBytes = 21
  MaxDepth = 2
  MaxTokens = 4
  SizeMax = 1024
  DocumentSize = 88
  TokenSize = 96
  WordSize = 8
  MinimumCapacity = 2
  MaximumDepth = 2
INVARIANTS
  ArenaFits
  LimitMeansLimit
  SyntaxErrorIsTheFirst
  ErrorIsPlaced
  PointerTruncates
PROPERTIES
  PointerNamesValue
  CallReturns
