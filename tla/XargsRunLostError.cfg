SPECIFICATION Spec
CONSTANTS
  MaxProcs = 2
  pflag = FALSE
  MaxJobs = 2
INVARIANT ExecFailureReported
CHECK_DEADLOCK FALSE
