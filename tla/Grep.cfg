SPECIFICATION Spec
CONSTANTS
  NL = NL
  NUL = NUL
  Hit = Hit
  MAXBUFSIZ = 3
  LNBUFBUMP = 1
  Runs <- AllRuns
  Settings <- AllSettings
INVARIANTS
  LinesAreTheFile
  OutputExact
  LimitKept
  StatusTellsMatch
CHECK_DEADLOCK FALSE
