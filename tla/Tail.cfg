SPECIFICATION MCSpec
CONSTANTS
  MaxFiles = 3
  MaxBytes = 2
  MaxCuts = 1
  MaxMoves = 2
  NONE = NONE
INVARIANTS ShownOnce
PROPERTIES FollowsToTheEnd
