SPECIFICATION MCSpec
CONSTANTS
  MaxProcs = 2
  pflag = FALSE
  MaxJobs = 4
INVARIANTS
  CurprocsExact
  ExitStatusFaithful
  LastFailureReported
PROPERTIES
  ImplementsPool
CHECK_DEADLOCK FALSE
