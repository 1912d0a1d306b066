SPECIFICATION FindSpec
CONSTANTS
  top = top
  one = one
  two = two
  Paths <- Files
  PathLen <- Lengths
  BufSizes <- Room
  MaxArgs = 3
  Statuses <- Succeeds
  ExitValues <- Succeeds
  Expressions <- SomeExpressions
  Streams <- SomeStreams
INVARIANTS
  HandlerReadsEntry
  MaskRestored
  RunsForEveryFile
  FindSuccessMeansDone
CHECK_DEADLOCK FALSE
