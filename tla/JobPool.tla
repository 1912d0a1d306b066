------------------------------ MODULE JobPool ------------------------------
(***************************************************************************)
(* What the user of xargs relies on when its commands run in parallel: a   *)
(* pool that starts jobs one after another, never has more than Limit of   *)
(* them at once, starts none after a job has ended fatally, and whose      *)
(* verdict tells how the jobs ended.  XargsRun implements it.              *)
(***************************************************************************)
EXTENDS Naturals, FiniteSets

CONSTANTS Limit, MaxJobs

VARIABLES
  outcome,    \* of each started job: "open" until it is known
  verdict     \* "none" while the pool is in use

vars == <<outcome, verdict>>

Ended == {"good", "bad", "fatal"}
Jobs == DOMAIN outcome
Open == {j \in Jobs : outcome[j] = "open"}

Init == outcome = [j \in {} |-> "open"] /\ verdict = "none"

Start ==
  \E j \in (1 .. MaxJobs) \ Jobs :
    /\ verdict = "none"
    /\ Cardinality(Open) < Limit
    /\ \A i \in Jobs : outcome[i] # "fatal"
    /\ outcome' = [i \in Jobs \cup {j} |-> IF i = j THEN "open" ELSE outcome[i]]
    /\ UNCHANGED verdict

(* A fatal end stops the pool; another may too. *)
Finish ==
  \E j \in Open, o \in Ended :
    /\ verdict = "none"
    /\ outcome' = [outcome EXCEPT ![j] = o]
    /\ verdict' \in (IF o = "fatal" THEN {"stopped"} ELSE {"none", "stopped"})

(* The pool may be given up at any time, and then says so. *)
GiveUp ==
  /\ verdict = "none"
  /\ verdict' = "stopped"
  /\ UNCHANGED outcome

Conclude ==
  /\ verdict = "none"
  /\ Open = {}
  /\ verdict' = IF \A j \in Jobs : outcome[j] = "good" THEN "success" ELSE "failure"
  /\ UNCHANGED outcome

Next == Start \/ Finish \/ GiveUp \/ Conclude

Spec == Init /\ [][Next]_vars
=============================================================================
