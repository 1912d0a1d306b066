SPECIFICATION Spec
CONSTANTS
  c1 = c1
  c2 = c2
  Plain = {c1, c2}
  Settings <- SomeSettings
  MaxInput = 6
SYMMETRY AnyOrder
INVARIANTS
  BufferInBounds
  ArgvInBounds
  AllWordsDelivered
  CommandsAreFull
  CommandsFollowLines
CHECK_DEADLOCK FALSE
