SPECIFICATION Spec
CONSTANTS
  short = short
  long = long
  whole = whole
  Paths <- ThreePaths
  PathLen <- Lengths
  Statuses <- OKOrNot
  BufSizes <- Sizes
  MaxArgs = 3
  MaxPaths = 5
INVARIANTS
  EachPathOnce
  NargInBounds
  BytesInBounds
  BatchesAreFull
CHECK_DEADLOCK FALSE
