------------------------------ MODULE FindPlan ------------------------------
(***************************************************************************)
(* How find turns its expression into a plan (find_formplan() in           *)
(* src/find/find.c, src/find/operator.c) and what the plan then evaluates  *)
(* (f_expr(), f_not(), f_or() in src/find/function.c).                     *)
(*                                                                         *)
(* A list of plan nodes is a sequence, and NULL the empty one.  The nodes  *)
(* that the code unlinks, moves and relinks are values that are built      *)
(* anew.  A primary is known by its place on the command line; it is a     *)
(* "test", "exec" for -exec ... {} +, "exit", or another "act" that writes *)
(* or runs something.                                                      *)
(***************************************************************************)
EXTENDS Integers, SequencesExt

CONSTANT Expressions        \* the expressions, as sequences of tokens

Action == {"act", "exec", "exit"}       \* those that set isoutput
Primary == {"test"} \cup Action
Token == Primary \cup {"(", ")", "!", "-o", "-a"}

ASSUME ExpressionsAssumption == Expressions \subseteq Seq(Token)

VARIABLES
  tokens,     \* the expression on the command line
  plan,       \* the list of nodes
  pc          \* "create", "paren", "not", "or", "formed" or "error"

vars == <<tokens, plan, pc>>

-----------------------------------------------------------------------------
(* A node: its type, its place on the command line, and p_data. *)
Node(type, at) == [type |-> type, at |-> at, p0 |-> <<>>, p1 |-> <<>>]
Is(type, list) == {i \in DOMAIN list : list[i].type = type}

(* The implied nodes stand before and behind everything. *)
AtEnd == Len(tokens) + 1

(* find_create() gives no node for -a.  Without an action the expression   *)
(* is bracketed and -print is added.                                       *)
Created ==
  LET nodes == SelectSeq([i \in DOMAIN tokens |-> Node(tokens[i], i)],
                         LAMBDA n : n.type # "-a")
      print == Node("act", AtEnd)
  IN  CASE \E i \in DOMAIN nodes : nodes[i].type \in Action -> nodes
        [] nodes = <<>>          -> <<print>>
        [] OTHER -> <<Node("(", 0)>> \o nodes \o <<Node(")", 0), print>>

(***************************************************************************)
(* paren_squish(): yankexpr() recurs at each "("; open holds the lists of  *)
(* these calls, the innermost last, each with the node of its "(".  It is  *)
(* empty once an error was met.                                            *)
(***************************************************************************)
Outermost == [paren |-> Node("(", 0), list |-> <<>>]

Deeper(open, n) == Append(open, [paren |-> n, list |-> <<>>])
Collect(open, n) == [open EXCEPT ![Len(open)].list = Append(@, n)]

(* Variant: off by one in what is open. *)
CloseParenOuter(open) ==
  LET inner == Last(open)
  IN  IF Len(open) <= 2 \/ inner.list = <<>> THEN <<>>
      ELSE Collect(Front(open), [inner.paren EXCEPT !.type = "expr", !.p0 = inner.list])

CloseParen(open) ==
  LET inner == Last(open)
  IN  IF Len(open) = 1 \/ inner.list = <<>> THEN <<>>
      ELSE Collect(Front(open), [inner.paren EXCEPT !.type = "expr", !.p0 = inner.list])

Yanked(list) ==
  FoldLeft(LAMBDA open, n : CASE open = <<>>   -> <<>>
                              [] n.type = "("  -> Deeper(open, n)
                              [] n.type = ")"  -> CloseParen(open)
                              [] OTHER         -> Collect(open, n),
           <<Outermost>>, list)

(* The lists of a plan: the plan itself and those of its parentheses, but  *)
(* not what a "!" has already taken.                                       *)
RECURSIVE Lists(_)
Lists(list) == {list} \cup UNION {Lists(list[i].p0) : i \in Is("expr", list)}

(***************************************************************************)
(* not_squish(): a run of "!" takes the next node; an even number of them  *)
(* is none.                                                                *)
(***************************************************************************)
NotFails(list) ==
  \E l \in Lists(list) : \E i \in Is("!", l) :
    i = Len(l) \/ l[i + 1].type = "-o"

NotsBefore(list, i) ==
  i - 1 - Max({0} \cup {j \in 1 .. i - 1 : list[j].type # "!"})

(* Variant: every run of "!" counts as one. *)
NegatedIfAny(list, i) == NotsBefore(list, i) > 0
Negated(list, i) == NotsBefore(list, i) % 2 = 1

RECURSIVE NotSquish(_)
NotSquish(list) ==
  LET Inside(n) == IF n.type = "expr" THEN [n EXCEPT !.p0 = NotSquish(@)] ELSE n
      Taken(i) == IF Negated(list, i)
                  THEN [list[i - NotsBefore(list, i)] EXCEPT !.p0 = <<Inside(list[i])>>]
                  ELSE Inside(list[i])
      kept == SelectSeq([i \in DOMAIN list |-> i], LAMBDA i : list[i].type # "!")
  IN  [k \in DOMAIN kept |-> Taken(kept[k])]

(***************************************************************************)
(* or_squish(): what stands before the first "-o" becomes its first        *)
(* operand.  What follows it is squished too, and then NULL is assigned to *)
(* the second operand (= for ==).  Below a "!" nothing is squished.        *)
(***************************************************************************)
SecondOperand(list) == <<>>

OrFails(list) ==
  \E l \in Lists(list) : \E i \in Is("-o", l) :
    i = 1 \/ l[i - 1].type = "-o"

RECURSIVE OrSquish(_)
OrSquish(list) ==
  LET inner == [i \in DOMAIN list |->
                  IF list[i].type = "expr" THEN [list[i] EXCEPT !.p0 = OrSquish(@)]
                                           ELSE list[i]]
      ors == Is("-o", list)
      k == Min(ors)
  IN  IF ors = {} THEN inner
      ELSE <<[list[k] EXCEPT !.p0 = SubSeq(inner, 1, k - 1),
                             !.p1 = SecondOperand(OrSquish(SubSeq(list, k + 1, Len(list))))]>>

-----------------------------------------------------------------------------
Init ==
  /\ tokens \in Expressions
  /\ plan = <<>>
  /\ pc = "create"

Step(from, to, list, fails) ==
  /\ pc = from
  /\ pc' = IF fails THEN "error" ELSE to
  /\ plan' = IF fails THEN plan ELSE list
  /\ UNCHANGED tokens

CreateNodes == Step("create", "paren", Created, FALSE)

SquishParens ==
  LET open == Yanked(plan)
  IN  Step("paren", "not", open[1].list, Len(open) # 1)

SquishNots == Step("not", "or", NotSquish(plan), NotFails(plan))
SquishOrs == Step("or", "formed", OrSquish(plan), OrFails(plan))

Next == CreateNodes \/ SquishParens \/ SquishNots \/ SquishOrs

Spec == Init /\ [][Next]_vars
=============================================================================
