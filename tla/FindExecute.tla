---------------------------- MODULE FindExecute ----------------------------
(***************************************************************************)
(* find_execute() and find_traverse() (src/find/find.c) with the plan that *)
(* find_formplan() made: the loop of FindLoop, with what the plan decides, *)
(* the primaries that an evaluation and find_traverse() come to.           *)
(***************************************************************************)
EXTENDS FindMeaning, FindLoop

Execs == {i \in DOMAIN tokens : tokens[i] = "exec"}
Exits == {i \in DOMAIN tokens : tokens[i] = "exit"}

FindInit == Init /\ LoopInit(DOMAIN tokens)

FormPlan ==
  /\ Next
  /\ UNCHANGED loopVars

(***************************************************************************)
(* An exec is always true, and so are -exit and -print.  Only an -exit of  *)
(* the plan's own list ends find.                                          *)
(***************************************************************************)
TopExits(trace) ==
  {i \in Exits : Contains(trace, i) /\ \E k \in DOMAIN plan : plan[k].at = i}

Evaluate ==
  \E true \in Truths, status \in [Execs -> Statuses], value \in ExitValues :
    LET trace == EvalList(plan, true).trace
    IN  /\ Execs \cup Exits \cup {AtEnd} \subseteq true
        /\ EvaluateWith({i \in Execs : Contains(trace, i)}, status,
                        TopExits(trace) # {}, value, true)

(* Variant: only the plan's own list. *)
TraversedTop(list) == {list[i].at : i \in DOMAIN list}

(* The places that find_traverse() reaches: it does not go into a "!". *)
RECURSIVE Traversed(_)
Traversed(list) ==
  UNION {{list[i].at} \cup
         IF list[i].type \in {"expr", "-o"}
         THEN Traversed(list[i].p0) \cup Traversed(list[i].p1) ELSE {}
         : i \in DOMAIN list}

Traverse ==
  \E status \in [Execs -> Statuses] : TraverseWith(Execs \cap Traversed(plan), status)

FindNext ==
  \/ FormPlan
  \/ /\ pc = "formed"
     /\ \/ Open
        \/ FtsReadStarts \/ FtsReadReturns \/ FtsReadFailed
        \/ Skip \/ Warn \/ GoOn \/ LetIn \/ Evaluate
        \/ Leave \/ Traverse
     /\ UNCHANGED vars

FindSpec == FindInit /\ [][FindNext]_<<vars, loopVars>>

-----------------------------------------------------------------------------
(* Every variable keeps its type. *)
FindTypeOK ==
  /\ TypeOK
  /\ LoopTypeOK
  /\ DOMAIN eps = DOMAIN tokens
  /\ seen \in Seq([path : Paths, true : SUBSET (DOMAIN tokens \cup {AtEnd})])

(* The files for which the user's expression comes to the i-th primary. *)
Wanted(i) ==
  LET ks == SelectSeq([k \in DOMAIN seen |-> k],
                      LAMBDA k : Contains(Means(Asked, seen[k].true).trace, i))
  IN  [j \in DOMAIN ks |-> seen[ks[j]].path]

(* A "!" reaches the i-th token: it is in the operand of an odd run. *)
NegatedToken(i) ==
  LET ts == Items(tokens)
      k == CHOOSE n \in DOMAIN ts : ts[n].at = i
  IN  \E n \in 1 .. k : StartsOddRun(ts, n) /\ k <= n - 1 + Min(Ends(From(ts, n)))

(* At the end every file for which the expression came to an exec has been *)
(* given to a command, however deep in parentheses the exec is; below a    *)
(* "!" that does not hold.                                                 *)
RunsForEveryFile ==
  step = "exit" /\ Sensible /\ ~Alternates =>
    \A i \in Execs : ~NegatedToken(i) => eps[i].sent = Wanted(i)

(* Exit status 0 without -exit: each file of the hierarchy was evaluated   *)
(* exactly once, and each command of an exec (not below a "!") succeeded.  *)
FindSuccessMeansDone ==
  step = "exit" /\ rval = 0 /\ cval = 1 /\ Sensible =>
    /\ \A k \in DOMAIN stream :
         Cardinality({j \in DOMAIN seen : seen[j].path = stream[k].path}) = 1
    /\ \A i \in Execs : ~NegatedToken(i) =>
         \A c \in DOMAIN eps[i].ran : eps[i].ran[c].status = 0

-----------------------------------------------------------------------------
(* A statement of the source that the code does not keep. *)

(* "traverse the plan tree and execute func() on all plans ... such as     *)
(* state cleanup" (find.c:236): at the end no exec has a path left.        *)
AllPlansCleanedUp ==
  step = "exit" => \A i \in Execs : eps[i].args = <<>>
=============================================================================
