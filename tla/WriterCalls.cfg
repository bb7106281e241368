SPECIFICATION HistorySpec
CONSTANTS
  NONE = NONE
  Texts <- CallTexts
  ClientTexts <- CallTexts
  ClientScalars <- AllScalars
  Profiles <- UnicodeProfiles
  Document <- NoDocument
  Exclusions <- NoExclusions
  MaxBytes = 3
  MaxDepth = 2
  MaxTokens = 3
  MaximumNumberText = 4
  InitialNodes = 1
  InitialSlots = 2
INVARIANTS WriterOK NoTextLost TreeDenotesCalls
PROPERTY ImplementsContract
