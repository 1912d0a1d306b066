----------------------------- MODULE MCXargsRun -----------------------------
(***************************************************************************)
(* XargsRun for TLC, twice in one run: with several processes, as the      *)
(* configuration says, or (serial) with -p and so one process at a time.   *)
(***************************************************************************)
EXTENDS XargsRun

VARIABLE serial

Serial == INSTANCE XargsRun WITH MaxProcs <- 1, pflag <- TRUE

MCInit == Init /\ serial \in BOOLEAN

MCNext ==
  /\ \/ serial /\ Serial!Next
     \/ ~serial /\ Next
  /\ UNCHANGED serial

MCSpec == MCInit /\ [][MCNext]_<<vars, serial>>
=============================================================================
