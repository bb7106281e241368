SPECIFICATION FairHistorySpec
CONSTANTS
  NONE = NONE
  Texts <- CopyTexts
  ClientTexts <- OneText
  ClientScalars <- NoScalar
  Profiles <- AsciiProfile
  Document <- CopyDocument
  Exclusions <- CopyExclusions
  MaxBytes = 3
  MaxDepth = 2
  MaxTokens = 4
  MaximumNumberText = 3
  InitialNodes = 1
  InitialSlots = 2
INVARIANTS UniqueKeys FailedCopyIsSticky
PROPERTIES CopyIsFaithful CopyReturns
