SPECIFICATION Spec
CONSTANTS
  NONE = NONE
  Keys <- HashedKeys
  Hash <- HashOf
  Expected <- ExpectedKeys
  MinimumCapacity = 2
  SizeMax = 64
  WordSize = 8
  MaxElements = 5
INVARIANTS ProbeEnds TableOK
PROPERTY ImplementsKeyMap
