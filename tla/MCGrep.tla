------------------------------- MODULE MCGrep -------------------------------
(***************************************************************************)
(* Grep for TLC.  ContextRuns are about what is printed near matches: one  *)
(* file of up to eight lines, most of them empty, or two short ones, with  *)
(* -L, without which nothing is printed.  InputRuns are about reading:     *)
(* lines longer than the buffer, NULs, and the decompressors.  MainRuns    *)
(* are about the names, -m, and the exit status.                           *)
(***************************************************************************)
EXTENDS Grep

Plain ==
  [A |-> 0, B |-> 0, m |-> NoLimit, c |-> FALSE, l |-> FALSE, L |-> FALSE,
   q |-> FALSE, v |-> FALSE, z |-> FALSE, finclude |-> FALSE,
   bin |-> "BIN", file |-> "STDIO", dirs |-> "READ"]

Texts(bytes, n) == UNION {[1 .. i -> bytes] : i \in 0 .. n}
File(data) == [kind |-> "file", data |-> data, packed |-> FALSE, matches |-> {}]
Empty == File(<<>>)
Operate(o, files) == [opt |-> o, operands |-> files, stdin |-> Empty]

Near(a, b) == [Plain EXCEPT !.L = TRUE, !.A = a, !.B = b]

OneFile == {<<File(d)>> : d \in [1 .. 7 -> {Hit, NL}]}
TwoFiles == {<<File(d), File(e)>> : d \in Texts({Hit, NL}, 3), e \in [1 .. 2 -> {Hit, NL}]}

ContextRuns ==
  {Operate(Near(a, b), f) : a \in 0 .. 2, b \in 0 .. 2, f \in OneFile \cup TwoFiles}
  \cup {Operate([Near(1, 1) EXCEPT !.m = m], f) : m \in 1 .. 2, f \in TwoFiles}

InputRuns ==
  {Operate(o, <<[File(d) EXCEPT !.packed = p]>>) :
     o \in {[Plain EXCEPT !.L = TRUE], [Plain EXCEPT !.z = TRUE],
            [Plain EXCEPT !.bin = "SKIP"], [Near(1, 1) EXCEPT !.bin = "TEXT"],
            [Plain EXCEPT !.file = "BZIP"], [Plain EXCEPT !.file = "GZIP"]},
     d \in Texts({Hit, NL, NUL}, 4), p \in BOOLEAN}
  \cup {Operate([Plain EXCEPT !.file = f], <<File(d)>>) :
          f \in {"STDIO", "BZIP"}, d \in [1 .. 7 -> {Hit, NL}]}

Names ==
  {File(<<Hit>>), File(<<NL, Hit, NL, Hit>>), [File(<<NL>>) EXCEPT !.matches = {"incl"}],
   [File(<<Hit, NL>>) EXCEPT !.matches = {"excl"}],
   [Empty EXCEPT !.kind = "directory"], [Empty EXCEPT !.kind = "missing"],
   [Empty EXCEPT !.kind = "denied"]}

MainSettings ==
  {[Plain EXCEPT !.m = m] : m \in 0 .. 2}
  \cup {[Plain EXCEPT !.dirs = d, !.finclude = f] : d \in {"READ", "SKIP", "RECURSE"}, f \in BOOLEAN}
  \cup {[Plain EXCEPT !.l = TRUE], [Plain EXCEPT !.q = TRUE],
        [Plain EXCEPT !.c = TRUE, !.v = TRUE], [Plain EXCEPT !.L = TRUE, !.q = TRUE]}

MainRuns ==
  {Operate(o, n) : o \in MainSettings, n \in UNION {[1 .. i -> Names] : i \in 1 .. 3}}
  \cup {[opt |-> o, operands |-> <<>>, stdin |-> f] :
          o \in MainSettings, f \in {File(<<Hit>>), File(<<NL, Hit, NL, Hit>>), Empty}}

AllRuns == ContextRuns \cup InputRuns \cup MainRuns
AllSettings == {r.opt : r \in AllRuns}
=============================================================================
