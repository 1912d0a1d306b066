---------------------------- MODULE GrepContext ----------------------------
(***************************************************************************)
(* Which lines grep prints (src/grep/util.c, queue.c): procline() from its *)
(* "Dealing with the context" on, and the queue of the last lines.  A line *)
(* is known by its place among the lines that procline() has been given.   *)
(***************************************************************************)
EXTENDS GrepInput

VARIABLES
  seen,          \* history: for each line its file, and whether it matched
  queue,         \* lines that wait for a match behind them
  tail,          \* lines still to print behind the last match
  since_printed,
  first,         \* nothing of this file was printed
  first_global,  \* nothing was printed
  out            \* what was printed: lines, "--" and the rest

contextVars == <<seen, queue, tail, since_printed, first, first_global, out>>

ContextInit ==
  /\ seen = <<>> /\ queue = <<>> /\ tail = 0
  /\ since_printed = 0
  /\ first = FALSE /\ first_global = TRUE
  /\ out = <<>>

Line(i) == [what |-> "line", of |-> i]
Separator == [what |-> "--", of |-> 0]
Lines(s) == [i \in DOMAIN s |-> Line(s[i])]

-----------------------------------------------------------------------------
(* enqueue(): the oldest line goes when there are more than Bflag. *)
Enqueue(i) ==
  IF Len(queue) + 1 > opt.B THEN Tail(Append(queue, i)) ELSE Append(queue, i)

(* The condition for printing says Lflag where ~Lflag must be meant. *)
Prints == ~opt.c /\ ~opt.q /\ ~opt.l /\ opt.L

(* Variant: only within a file. *)
GroupEndsInFile == (opt.A > 0 \/ opt.B > 0) /\ ~first /\ since_printed > opt.B

GroupEnds ==
  /\ opt.A > 0 \/ opt.B > 0
  /\ ~first_global
  /\ first \/ since_printed > opt.B

Printed == first' = FALSE /\ first_global' = FALSE /\ since_printed' = 0

PrintMatch(i) ==
  /\ Prints
  /\ out' = out \o (IF GroupEnds THEN <<Separator>> ELSE <<>>)
                \o Lines(Append(IF opt.B > 0 THEN queue ELSE <<>>, i))
  /\ queue' = IF opt.B > 0 THEN <<>> ELSE queue
  /\ tail' = opt.A
  /\ Printed

PrintTail(i) ==
  /\ Prints /\ tail > 0
  /\ out' = Append(out, Line(i))
  /\ tail' = tail - 1
  /\ UNCHANGED queue
  /\ Printed

Keep(i) ==
  /\ queue' = IF opt.B > 0 THEN Enqueue(i) ELSE queue
  /\ since_printed' = since_printed + 1
  /\ UNCHANGED <<tail, first, first_global, out>>

(* A match in a binary file, unless it is to be taken for text. *)
BinaryMatch == UNCHANGED <<queue, tail, since_printed, first, first_global, out>>

(* The end of procline(), given whether the line is selected. *)
ProcLine(fileno, hit, nottext) ==
  LET i == Len(seen) + 1
      hidden == hit /\ nottext /\ opt.bin = "BIN"
  IN  /\ seen' = Append(seen, [file |-> fileno, hit |-> hit, hidden |-> hidden])
      /\ \/ hidden /\ BinaryMatch
         \/ ~hidden /\ hit /\ PrintMatch(i)
         \/ ~hidden /\ ~hit /\ PrintTail(i)
         \/ ~hidden /\ (~Prints \/ (~hit /\ tail = 0)) /\ Keep(i)

(* What procfile() resets, and what it does in the end. *)
StartFile ==
  /\ tail' = 0 /\ first' = TRUE
  /\ UNCHANGED <<seen, queue, since_printed, first_global, out>>

EndFile(said) ==
  /\ queue' = IF opt.B > 0 THEN <<>> ELSE queue
  /\ out' = out \o said
  /\ UNCHANGED <<seen, tail, since_printed, first, first_global>>

-----------------------------------------------------------------------------
(* The lines to print, of those that procline() was given: the selected    *)
(* ones, and of their file the B lines before and the A lines behind; "--" *)
(* between two that are not neighbours, if there is context at all.        *)
Selected == {i \in DOMAIN seen : seen[i].hit /\ ~seen[i].hidden}

Wanted ==
  {i \in DOMAIN seen :
     /\ Prints
     /\ \E j \in Selected : /\ seen[j].file = seen[i].file
                            /\ j - opt.B <= i /\ i <= j + opt.A}

Neighbours(i, j) == j = i + 1 /\ seen[i].file = seen[j].file

(* What is to be printed at line i, when the lines of the set are wanted.  *)
Gap(i, wanted) ==
  /\ opt.A > 0 \/ opt.B > 0
  /\ \E j \in wanted : j < i
  /\ ~\E j \in wanted : Neighbours(j, i)

Due(i, wanted) ==
  IF i \notin wanted THEN <<>>
  ELSE IF Gap(i, wanted) THEN <<Separator, Line(i)>> ELSE <<Line(i)>>

Reference ==
  LET wanted == Wanted
  IN  FlattenSeq([i \in DOMAIN seen |-> Due(i, wanted)])

(* Of what was printed, the lines and the marks between them. *)
LinesOf(s) ==
  FlattenSeq([n \in DOMAIN s |-> IF s[n].what \in {"line", "--"} THEN <<s[n]>> ELSE <<>>])

(* Each line near a match is printed once, in order, and none else: with   *)
(* contexts that meet or overlap, a queue that outlives printed lines, and *)
(* several files (util.c:336 to 358, queue.c:41).                          *)
OutputExact == LinesOf(out) = Reference

-----------------------------------------------------------------------------
(* A statement of the source that the code does not keep. *)

(* "The matching lines are passed to printline() to display the            *)
(* appropriate output" (util.c:253), without -c, -l and -q.                *)
MatchesArePrinted ==
  ~opt.c /\ ~opt.q /\ ~opt.l => \A i \in Selected : Line(i) \in ToSet(out)
=============================================================================
