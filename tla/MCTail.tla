------------------------------- MODULE MCTail -------------------------------
(***************************************************************************)
(* tail -f and -F for TLC, with what happened to the name at the two       *)
(* moments forward() does not look: between stat() and freopen(), and      *)
(* between freopen() and the registration of the events.                   *)
(***************************************************************************)
EXTENDS TailFollow

VARIABLES
  raced,     \* freopen() has opened another file than stat() saw
  missed     \* the open file was renamed before its events were asked for

mcvars == <<tailVars, raced, missed>>

MCInit == TailInit /\ raced = FALSE /\ missed = FALSE

MCNext ==
  /\ TailNext
  /\ raced' = (raced \/ (pc = "freopen" /\ name # statbuf))
  /\ missed' = (missed \/ (name = fp /\ name' # fp /\ action = "ADD_EVENTS"))

(* tail goes on while it can: sleep() returns, and kevent() when there is *)
(* something to report.  Errors and the others are not bound to happen.   *)
MCSpec == MCInit /\ [][MCNext]_mcvars /\ WF_mcvars(Forward /\ MCNext)

-----------------------------------------------------------------------------
(* Of each file a piece is shown once, in its order, without a gap unless  *)
(* the file was truncated, and of a file that took the name later from its *)
(* beginning.  freopen() starts at the front, so one reopening too many    *)
(* shows a file twice: sbp, stat() and the events must agree on which file *)
(* is open (forward.c:139 to 143, 183, 198 to 210).  Not so when the name  *)
(* changes between stat() and freopen().                                   *)
ShownOnce ==
  ~raced =>
    \A i, j \in DOMAIN shown :
      LET a == shown[i]
          b == shown[j]
      IN  /\ i < j => /\ a.file <= b.file
                      /\ a.file = b.file => a.cut <= b.cut
                      /\ a.file = b.file /\ a.cut = b.cut => b.k - a.k = j - i
          /\ j = i + 1 /\ a.file # b.file /\ b.cut = 0 => b.k = 1

(* Waiting for events that nobody asked for. *)
Stalled == pc = "switch" /\ action = "USE_KQUEUE" /\ armed = {}

CaughtUp ==
  /\ pos >= sizes[fp]
  /\ Follows /\ name # NONE => fp = name

(* In the end tail has shown the file to its end, with -F the file that    *)
(* has the name then, unless an error ended it, it waits for events it     *)
(* never asked for, or it asked too late (forward.c:152, 154 to 215).      *)
FollowsToTheEnd ==
  follow # 0 => <>[](pc = "out" \/ Stalled \/ missed \/ CaughtUp)

-----------------------------------------------------------------------------
(* Statements of the source that the code does not keep. *)

(* "wait untile it reappears" (forward.c:180): with -F too, in the end the *)
(* file that has the name is shown to its end.                             *)
FollowsTheName == follow # 0 => <>[](pc = "out" \/ CaughtUp)

(* What was written to a file before tail left it is shown. *)
NothingLost ==
  \A f \in 1 .. fp - 1 :
    sizes[f] > 0 /\ cuts[f] = 0 =>
      \E i \in DOMAIN shown : shown[i] = [file |-> f, cut |-> 0, k |-> sizes[f]]

(* "file shrank, reposition to end" (forward.c:183). *)
ShrinkingIsSeen == [](follow # 0 => <>(pc = "out" \/ Stalled \/ pos <= sizes[fp]))

(* A byte is shown once, whatever happens to the name. *)
NeverTwice == \A i, j \in DOMAIN shown : shown[i] = shown[j] => i = j
=============================================================================
