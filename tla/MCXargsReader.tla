-------------------------- MODULE MCXargsReader ---------------------------
(***************************************************************************)
(* XargsArguments for TLC.  BatchSettings are about the limits (-n, -s,    *)
(* -J), with buffers of a few bytes so that full buffers, overflow and     *)
(* overlapping copies happen within MaxInput characters.  LineSettings are *)
(* about the ends of lines and of the input (-L, -I, -0, -E).              *)
(***************************************************************************)
EXTENDS XargsArguments

CONSTANTS c1, c2

(* What main() leaves when its first option sets none of these. *)
NoOption(nline, argc) ==
  [zflag |-> FALSE, xflag |-> FALSE, Iflag |-> FALSE, Lflag |-> 0,
   nargs |-> 5000, nline |-> nline, eofstr |-> <<>>,
   argc |-> argc, jfound |-> FALSE, jrest |-> 0]

BatchSettings ==
  {NoOption(4, 1), NoOption(6, 2),
   [NoOption(5, 1) EXCEPT !.nargs = 1],
   [NoOption(9, 2) EXCEPT !.nargs = 2],
   [NoOption(5, 3) EXCEPT !.jfound = TRUE, !.jrest = 2, !.nargs = 5000]}

(* main() turns xflag on for -I and -L, unless -L says 0. *)
Lines(n, nline) == [NoOption(nline, 1) EXCEPT !.Lflag = n, !.xflag = TRUE]

LineSettings ==
  {Lines(1, 5), Lines(2, 9), Lines(-1, 9),
   [Lines(1, 9) EXCEPT !.Iflag = TRUE, !.argc = 2],
   [NoOption(5, 1) EXCEPT !.zflag = TRUE],
   [NoOption(9, 1) EXCEPT !.eofstr = <<c1, c2>>],
   [NoOption(9, 1) EXCEPT !.eofstr = <<c2, c1>>]}

SomeSettings == BatchSettings \cup LineSettings

(* Only -E tells two ordinary characters apart, and it is given with both  *)
(* orders of them: what holds of a state holds with the two exchanged.     *)
AnyOrder == Permutations({c1, c2})

(* xargs with no utility runs echo: main() then counts no utility word. *)
NoUtility == {NoOption(9, 0), [NoOption(9, 0) EXCEPT !.nargs = 1]}
=============================================================================
