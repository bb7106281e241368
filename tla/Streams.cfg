SPECIFICATION Spec
CONSTANTS
  NONE = NONE
  SizeMax = 515
  MaximumDepth = 2
  Defaults <- DefaultLimits
  TokenSize = 104
  FileSizes = {0, 1, 2, 3, 4, 256, 257}
  Requests <- Asked
INVARIANTS ParsesWholeFile NothingHeld LimitsHold
