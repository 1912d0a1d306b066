---------------------------- MODULE FindMeaning ----------------------------
(***************************************************************************)
(* What a plan of find evaluates, and what its expression means.           *)
(*                                                                         *)
(* Both are given, for a file, the set of the primaries that are true of   *)
(* it, and tell whether the whole is true and which primaries were         *)
(* evaluated, in order: that is what find does to the file.                *)
(***************************************************************************)
EXTENDS FindPlan, FiniteSets

-----------------------------------------------------------------------------
(* The plan: f_expr(), f_not(), f_or() and the same loop in find_execute().*)
Result(state, trace) == [state |-> state, trace |-> trace]

RECURSIVE EvalNode(_, _)

EvalList(list, true) ==
  LET Next1(r, n) == LET s == EvalNode(n, true)
                     IN  Result(s.state, r.trace \o s.trace)
  IN  FoldLeft(LAMBDA r, i : IF i = 1 \/ r.state THEN Next1(r, list[i]) ELSE r,
               Result(FALSE, <<>>), [i \in DOMAIN list |-> i])

EvalNode(n, true) ==
  LET first == EvalList(n.p0, true)
      second == EvalList(n.p1, true)
  IN  CASE n.type = "expr" -> first
        [] n.type = "!"    -> Result(~first.state, first.trace)
        [] n.type = "-o" /\ first.state  -> first
        [] n.type = "-o" /\ ~first.state ->
             Result(second.state, first.trace \o second.trace)
        [] OTHER -> Result(n.at \in true, <<n.at>>)

-----------------------------------------------------------------------------
(***************************************************************************)
(* The reference: the expression is read from its tokens, with no list and *)
(* no squish.  "-o" binds least, then the sequence, then "!".              *)
(***************************************************************************)
Items(ts) == SelectSeq([i \in DOMAIN ts |-> [type |-> ts[i], at |-> i]],
                       LAMBDA t : t.type # "-a")
Item(type, at) == [type |-> type, at |-> at]

Depth(ts, i) == Cardinality({j \in 1 .. i : ts[j].type = "("})
                - Cardinality({j \in 1 .. i : ts[j].type = ")"})
Ors(ts) == {i \in DOMAIN ts : ts[i].type = "-o" /\ Depth(ts, i) = 0}

(* Where the first operand may end: "!"s, then a primary or parentheses. *)
Ends(ts) == {n \in DOMAIN ts : ts[n].type # "!" /\ Depth(ts, n) = 0}
From(ts, i) == SubSeq(ts, i, Len(ts))

RECURSIVE WellFormed(_)
WellFormed(ts) ==
  \/ /\ Ors(ts) # {}
     /\ WellFormed(SubSeq(ts, 1, Min(Ors(ts)) - 1))
     /\ WellFormed(From(ts, Min(Ors(ts)) + 1))
  \/ /\ Ors(ts) = {} /\ Ends(ts) # {}
     /\ LET n == Min(Ends(ts))
        IN  /\ \/ ts[1].type = "!" /\ WellFormed(SubSeq(ts, 2, n))
               \/ ts[1].type = "(" /\ WellFormed(SubSeq(ts, 2, n - 1))
               \/ n = 1 /\ ts[1].type \in Primary
            /\ n = Len(ts) \/ WellFormed(From(ts, n + 1))

RECURSIVE Means(_, _)
Means(ts, true) ==
  LET Also(r, more) == LET s == Means(more, true)
                       IN  Result(s.state, r.trace \o s.trace)
      k == Min(Ors(ts))
      left == Means(SubSeq(ts, 1, k - 1), true)
      n == Min(Ends(ts))
      inside == IF ts[1].type = "!" THEN Means(SubSeq(ts, 2, n), true)
                                    ELSE Means(SubSeq(ts, 2, n - 1), true)
      operand == CASE ts[1].type = "!" -> Result(~inside.state, inside.trace)
                   [] ts[1].type = "(" -> inside
                   [] OTHER            -> Result(ts[1].at \in true, <<ts[1].at>>)
  IN  CASE Ors(ts) # {} -> IF left.state THEN left ELSE Also(left, From(ts, k + 1))
        [] Ors(ts) = {} -> IF operand.state /\ n < Len(ts)
                           THEN Also(operand, From(ts, n + 1)) ELSE operand

(* The user's expression, with the print that is implied without an action. *)
Asked ==
  LET ts == Items(tokens)
      print == Item("act", AtEnd)
  IN  CASE \E i \in DOMAIN ts : ts[i].type \in Action -> ts
        [] ts = <<>> -> <<print>>
        [] OTHER -> <<Item("(", 0)>> \o ts \o <<Item(")", 0), print>>

Sensible == Items(tokens) = <<>> \/ WellFormed(Items(tokens))
Alternates == \E i \in DOMAIN tokens : tokens[i] = "-o"

(* An odd run of "!" starts here. *)
StartsOddRun(ts, i) ==
  /\ ts[i].type = "!" /\ (i = 1 \/ ts[i - 1].type # "!")
  /\ \E n \in DOMAIN From(ts, i) :
       n % 2 = 0 /\ \A j \in 1 .. n : From(ts, i)[j].type = "!" <=> j < n

(* An "-o" that a "!" keeps or_squish() from: somewhere in its operand. *)
AlternatesUnderNot ==
  LET ts == Items(tokens)
  IN  \E i \in DOMAIN ts :
        /\ StartsOddRun(ts, i)
        /\ \E j \in i .. i - 1 + Min(Ends(From(ts, i))) : ts[j].type = "-o"

(* The sets of primaries that may be true of a file. *)
Truths == SUBSET ({i \in DOMAIN tokens : tokens[i] \in Primary} \cup {AtEnd})

-----------------------------------------------------------------------------
(* Every variable keeps its type: the squishes leave only primaries and    *)
(* operators, which hold their operands (except "-o" below a "!").         *)
RECURSIVE NodeOK(_)
NodeOK(n) ==
  /\ n.type \in Token \cup {"expr"}
  /\ n.at \in 0 .. AtEnd
  /\ pc = "formed" =>
       /\ n.type \in Primary \cup {"expr", "!", "-o"}
       /\ n.type \in {"expr", "!"} => n.p0 # <<>>
  /\ \A i \in DOMAIN n.p0 : NodeOK(n.p0[i])
  /\ \A i \in DOMAIN n.p1 : NodeOK(n.p1[i])

TypeOK ==
  /\ tokens \in Expressions
  /\ \A i \in DOMAIN plan : NodeOK(plan[i])
  /\ pc \in {"create", "paren", "not", "or", "formed", "error"}

(***************************************************************************)
(* find does to a file what the expression asks: the same primaries in the *)
(* same order, with the same result.  With "-o" it never does anything     *)
(* else, but may stop early, as the right operand is lost (operator.c:223).*)
(* It does not hold where a "!" keeps or_squish() from an "-o".            *)
(***************************************************************************)
PlanFollowsExpression ==
  pc = "formed" /\ Sensible /\ ~AlternatesUnderNot =>
    \A true \in Truths :
      LET run == EvalList(plan, true)
          asked == Means(Asked, true)
      IN  /\ IsPrefix(run.trace, asked.trace)
          /\ run.state => asked.state
          /\ ~Alternates => run = asked

(* No expression that makes sense is refused, whatever stands next to what *)
(* (operator.c:59, 70, 113, 164, 167, 219).                                *)
SensibleAccepted == Sensible => pc # "error"

-----------------------------------------------------------------------------
(* Statements of the source that the code does not keep. *)

(* "Alternation of primaries; the OR operatior.  The second expression is  *)
(* not eveluted if the first expression is true" (function.c:1927): and it *)
(* is evaluated if the first is false.                                     *)
OrEvaluatesSecond ==
  pc = "formed" /\ Sensible /\ ~AlternatesUnderNot =>
    \A true \in Truths : EvalList(plan, true) = Means(Asked, true)

(* "Negation of a primary; the unary NOT operator" (function.c:1902), where *)
(* the operand is an "-o" in parentheses and everything is true.           *)
NotNegates ==
  pc = "formed" /\ Sensible /\ AlternatesUnderNot =>
    LET all == UNION Truths
    IN  EvalList(plan, all).state = Means(Asked, all).state

(* "-o: no expression after -o" (operator.c:224) and "): no beginning '('" *)
(* (operator.c:113): what makes no sense is refused.                       *)
OnlySensibleAccepted == pc = "formed" => Sensible
=============================================================================
