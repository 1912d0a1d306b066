------------------------------- MODULE MCXargs -------------------------------
(***************************************************************************)
(* Xargs for TLC: -P or -p with a buffer of three bytes in the place of     *)
(* ARG_MAX, so that a word fills it and the next word overflows it.        *)
(***************************************************************************)
EXTENDS Xargs

CONSTANT c1

DefaultSetting ==
  [zflag |-> FALSE, xflag |-> FALSE, Iflag |-> FALSE, Lflag |-> 0,
   nargs |-> 5000, nline |-> 3, eofstr |-> <<>>,
   argc |-> 1, jfound |-> FALSE, jrest |-> 0]

DefaultSettings == {DefaultSetting}
=============================================================================
