SPECIFICATION Spec
CONSTANTS
  Inputs = {"-", "a", "b"}
  Printed = "printf"
  MaxText = 2
  MaxSize = 2
  MaxOperands = 2
  BUFSIZ = 1
  Sizes = {0, 1, 2}
INVARIANTS CopiesInOrder
