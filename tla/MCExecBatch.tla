---------------------------- MODULE MCExecBatch ----------------------------
(***************************************************************************)
(* ExecBatch for TLC: a short and a long path, and one that needs all of   *)
(* an empty buffer of 8 bytes, so that flushes follow each other.          *)
(***************************************************************************)
EXTENDS ExecBatch

CONSTANTS short, long, whole

ThreePaths == {short, long, whole}
Lengths == [path \in ThreePaths |->
              CASE path = short -> 1 [] path = long -> 3 [] path = whole -> 8]

(* A path longer than what the utility's words leave. *)
TooLong == [path \in ThreePaths |->
              CASE path = short -> 1 [] path = long -> 3 [] path = whole -> 9]
Sizes == {2, 8}
OKOrNot == {0, 1, -1}
=============================================================================
