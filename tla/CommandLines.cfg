SPECIFICATION EitherSpec
CONSTANTS
  Words <- SomeWords
  MaxWords = 3
  XWords = {w, x}
  Numbers <- SomeNumbers
  EMPTY = EMPTY
  XMaxWords = 3
  WordLen = 1
  EchoLen = 9
  ArgMax = 15
  DefaultArgs = 5
  IntMax = 15
INVARIANTS
  OneWalkMode
  PathsFit
  ReaderSettings
CHECK_DEADLOCK FALSE
