SPECIFICATION Spec
CONSTANTS
  c1 = c1
  Plain = {c1}
  Settings <- DefaultSettings
  MaxInput = 4
  MaxProcs = 2
  pflag = FALSE
INVARIANT SuccessMeansDone
PROPERTIES
  ArgumentsHeldForExec
  Terminates
CHECK_DEADLOCK FALSE
