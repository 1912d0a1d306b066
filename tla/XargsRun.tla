------------------------------ MODULE XargsRun ------------------------------
(***************************************************************************)
(* How xargs runs its commands (src/xargs/xargs.c): run(), waitchildren()  *)
(* and prompt(), with the kernel's table of the children as far as the     *)
(* code sees it.  The reader is reduced to what it asks for: a command, or *)
(* the end of the input, or an error.                                      *)
(*                                                                         *)
(* vfork() suspends the parent until the child has called execvp() or has  *)
(* left; the child runs in the parent's memory, which is how childerr      *)
(* reaches the parent.  A child that has left is "leaving" until the       *)
(* kernel makes it a zombie: the parent may run before that.               *)
(***************************************************************************)
EXTENDS Integers, Sequences, FiniteSets

CONSTANTS
  MaxProcs,    \* -P
  pflag,       \* -p: ask before each command
  MaxJobs      \* bound: commands that the reader asks for

(* main() takes one option, so -p and -P do not come together. *)
ASSUME ProcsAssumption ==
  /\ MaxProcs \in Nat \ {0}
  /\ pflag \in BOOLEAN /\ (pflag => MaxProcs = 1)
ASSUME JobsAssumption == MaxJobs \in Nat

VARIABLES
  asked,       \* the commands the reader has asked for
  kids,        \* the children, in the order of their vfork()
  childerr,    \* errno of a failed execvp(), 0 if none
  curprocs,    \* what the program believes to be running
  rval,        \* the exit status so far: 0 or 123
  code,        \* the status xargs ended with
  pc           \* "read", "vfork", "wait" (waitall = 0), "drain" or "exit"

vars == <<asked, kids, childerr, curprocs, rval, code, pc>>

(* How a process ends: exit status 0, 1 to 254 or 255, or by a signal. *)
Status == {"zero", "nonzero", "255", "signal"}
Kid == [state : {"setup", "running", "leaving", "zombie", "reaped"},
        status : Status, exec : {"pending", "done", "failed"}]
ENOENT == 2
Errno == {ENOENT, 13}          \* 13 stands for every other error

Init ==
  /\ asked = 0
  /\ kids = <<>>
  /\ childerr = 0 /\ curprocs = 0
  /\ rval = 0 /\ code = 0
  /\ pc = "read"

-----------------------------------------------------------------------------
Unreaped == {k \in DOMAIN kids : kids[k].state # "reaped"}
Zombies == {k \in DOMAIN kids : kids[k].state = "zombie"}

Exit(status) == pc' = "exit" /\ code' = status

(***************************************************************************)
(* run(): prompt() may say no, vfork() may fail; otherwise childerr is     *)
(* reset and the parent waits for the child to let go of its memory.       *)
(***************************************************************************)
Ask ==
  /\ pc = "read" /\ asked < MaxJobs
  /\ asked' = asked + 1

Declined ==
  /\ pflag /\ Ask
  /\ UNCHANGED <<kids, childerr, curprocs, rval, code, pc>>

VforkFails ==
  /\ Ask
  /\ childerr' = 0
  /\ Exit(1)
  /\ UNCHANGED <<kids, curprocs, rval>>

Vfork ==
  /\ Ask
  /\ childerr' = 0
  /\ kids' = Append(kids, [state |-> "setup", status |-> "zero", exec |-> "pending"])
  /\ pc' = "vfork"
  /\ UNCHANGED <<curprocs, rval, code>>

(* Variants that the properties must tell from the code: a child that is   *)
(* not counted, and a parent that does not wait for execvp().              *)
VforkReturnsUncounted ==
  /\ pc = "vfork"
  /\ kids[Len(kids)].state # "setup"
  /\ pc' = "wait"
  /\ UNCHANGED <<asked, kids, childerr, curprocs, rval, code>>

VforkReturnsAtOnce ==
  /\ pc = "vfork"
  /\ curprocs' = curprocs + 1
  /\ pc' = "wait"
  /\ UNCHANGED <<asked, kids, childerr, rval, code>>

(* Back in the parent, which goes on to waitchildren(name, 0). *)
VforkReturns ==
  /\ pc = "vfork"
  /\ kids[Len(kids)].state # "setup"
  /\ curprocs' = curprocs + 1
  /\ pc' = "wait"
  /\ UNCHANGED <<asked, kids, childerr, rval, code>>

-----------------------------------------------------------------------------
(* The child in the parent's memory: standard input is redirected, which   *)
(* may fail (status 1), then execvp() is called, which may fail too.       *)
Executes(k) ==
  /\ kids[k].state = "setup"
  /\ kids' = [kids EXCEPT ![k].state = "running", ![k].exec = "done"]
  /\ UNCHANGED <<asked, childerr, curprocs, rval, code, pc>>

SetupFails(k) ==
  /\ kids[k].state = "setup"
  /\ kids' = [kids EXCEPT ![k].state = "leaving", ![k].status = "nonzero"]
  /\ UNCHANGED <<asked, childerr, curprocs, rval, code, pc>>

(* Variant: the errno stays in the child, as after fork(). *)
ExecFailsUnseen(k) ==
  /\ kids[k].state = "setup"
  /\ kids' = [kids EXCEPT ![k].state = "leaving", ![k].status = "nonzero",
                          ![k].exec = "failed"]
  /\ UNCHANGED <<asked, childerr, curprocs, rval, code, pc>>

ExecFails(k) ==
  /\ kids[k].state = "setup"
  /\ \E e \in Errno : childerr' = e
  /\ kids' = [kids EXCEPT ![k].state = "leaving", ![k].status = "nonzero",
                          ![k].exec = "failed"]
  /\ UNCHANGED <<asked, curprocs, rval, code, pc>>

(* The utility ends, and the kernel keeps its status until it is waited for. *)
Ends(k) ==
  /\ kids[k].state = "running"
  /\ \E s \in Status :
       kids' = [kids EXCEPT ![k].state = "zombie", ![k].status = s]
  /\ UNCHANGED <<asked, childerr, curprocs, rval, code, pc>>

BecomesZombie(k) ==
  /\ kids[k].state = "leaving"
  /\ kids' = [kids EXCEPT ![k].state = "zombie"]
  /\ UNCHANGED <<asked, childerr, curprocs, rval, code, pc>>

Child(k) ==
  Executes(k) \/ SetupFails(k) \/ ExecFails(k) \/ Ends(k) \/ BecomesZombie(k)

-----------------------------------------------------------------------------
(* "If we couldn't invoke the utility, exit": with 127 or 126. *)
ExecStatus == IF childerr = ENOENT THEN 127 ELSE 126

(* What the status that waitpid() returned means for xargs. *)
Report(status) ==
  \/ childerr # 0 /\ Exit(ExecStatus) /\ UNCHANGED rval
  \/ childerr = 0 /\ status = "255" /\ Exit(124) /\ UNCHANGED rval
  \/ childerr = 0 /\ status = "signal" /\ Exit(125) /\ UNCHANGED rval
  \/ childerr = 0 /\ status = "nonzero" /\ rval' = 123 /\ UNCHANGED <<code, pc>>
  \/ childerr = 0 /\ status = "zero" /\ UNCHANGED <<rval, code, pc>>

(***************************************************************************)
(* waitchildren(): each turn of its loop is one waitpid(-1), which returns *)
(* any zombie there is.  With none it returns 0 at once while more         *)
(* processes are allowed (WNOHANG), and blocks otherwise; without children *)
(* it fails with ECHILD.                                                   *)
(***************************************************************************)
Reap(k) ==
  /\ pc \in {"wait", "drain"}
  /\ k \in Zombies
  /\ kids' = [kids EXCEPT ![k].state = "reaped"]
  /\ curprocs' = curprocs - 1
  /\ Report(kids[k].status)
  /\ UNCHANGED <<asked, childerr>>

(* Back to the reader. *)
NoneReady ==
  /\ pc = "wait" /\ curprocs < MaxProcs
  /\ Zombies = {} /\ Unreaped # {}
  /\ pc' = "read"
  /\ UNCHANGED <<asked, kids, childerr, curprocs, rval, code>>

(* Variants: the failures are forgotten; ECHILD is taken for "not yet". *)
NoChildrenForgets ==
  /\ Unreaped = {}
  /\ \/ pc = "wait" /\ pc' = "read" /\ UNCHANGED code
     \/ pc = "drain" /\ Exit(0)
  /\ UNCHANGED <<asked, kids, childerr, curprocs, rval>>

NoChildrenRetries ==
  /\ Unreaped = {} /\ pc = "drain" /\ Exit(rval)
  /\ UNCHANGED <<asked, kids, childerr, curprocs, rval>>

NoChildren ==
  /\ Unreaped = {}
  /\ \/ pc = "wait" /\ pc' = "read" /\ UNCHANGED code
     \/ pc = "drain" /\ Exit(rval)
  /\ UNCHANGED <<asked, kids, childerr, curprocs, rval>>

-----------------------------------------------------------------------------
(* Variant: xargs does not wait for its last commands. *)
EndOfInputNoWait ==
  /\ pc = "read" /\ Exit(rval)
  /\ UNCHANGED <<asked, kids, childerr, curprocs, rval>>

(* parse_input() has met the end of the input: waitchildren(name, 1). *)
EndOfInput ==
  /\ pc = "read"
  /\ pc' = "drain"
  /\ UNCHANGED <<asked, kids, childerr, curprocs, rval, code>>

(* An error in the input: errx(1), whatever still runs. *)
InputError ==
  /\ pc = "read"
  /\ Exit(1)
  /\ UNCHANGED <<asked, kids, childerr, curprocs, rval>>

Parent ==
  \/ Declined \/ VforkFails \/ Vfork \/ VforkReturns
  \/ \E k \in DOMAIN kids : Reap(k)
  \/ NoneReady \/ NoChildren
  \/ EndOfInput \/ InputError

Next == Parent \/ \E k \in DOMAIN kids : Child(k)

(***************************************************************************)
(* The parent and the children are processes that the kernel schedules.    *)
(* That the input ends (after MaxJobs commands at most) and that every     *)
(* utility ends are assumptions about the world outside.                   *)
(***************************************************************************)
SafeSpec == Init /\ [][Next]_vars

Fairness ==
  /\ WF_vars(Parent)
  /\ \A k \in 1 .. MaxJobs : WF_vars(k \in DOMAIN kids /\ Child(k))

Spec == SafeSpec /\ Fairness

-----------------------------------------------------------------------------
(* Every variable keeps its type. *)
TypeOK ==
  /\ asked \in 0 .. MaxJobs
  /\ kids \in Seq(Kid) /\ Len(kids) <= asked
  /\ childerr \in {0} \cup Errno
  /\ curprocs \in Int
  /\ rval \in {0, 123}
  /\ code \in {0, 1, 123, 124, 125, 126, 127}
  /\ pc \in {"read", "vfork", "wait", "drain", "exit"}

(* -P: the children that are not waited for are never more than maxprocs,  *)
(* although run() itself checks nothing: the bound is kept by the          *)
(* waitchildren() that ends the run() before (xargs.c:565, 574).           *)
AtMostMaxProcs == Cardinality(Unreaped) <= MaxProcs

(* curprocs, by which waitchildren() decides whether to block, is the      *)
(* number of children, except while vfork() has not returned.              *)
CurprocsExact ==
  curprocs = Cardinality(Unreaped) - (IF pc = "vfork" THEN 1 ELSE 0)

(* Once everything is waited for the exit status tells the truth: 0 only   *)
(* if each command ended with 0; 123 only if all were waited for, one      *)
(* failed and none ended with 255 or by a signal; 126 and 127 only if      *)
(* execvp() failed.                                                        *)
ExitStatusFaithful ==
  pc = "exit" =>
    /\ code = 0 => \A k \in DOMAIN kids : kids[k] = [state |-> "reaped", status |-> "zero", exec |-> "done"]
    /\ code = 123 =>
         /\ Unreaped = {}
         /\ \A k \in DOMAIN kids : kids[k].status \in {"zero", "nonzero"}
         /\ \E k \in DOMAIN kids : kids[k].status = "nonzero"
    /\ code \in {126, 127} => \E k \in DOMAIN kids : kids[k].exec = "failed"

FatalReaped ==
  \E k \in DOMAIN kids : /\ kids[k].state = "reaped"
                         /\ kids[k].status \in {"255", "signal"}

(* "According to POSIX, we have to exit if the utility exits with a 255    *)
(* status, or is interrupted by a signal" (xargs.c:582): once such a child *)
(* has been waited for, no command is started.                             *)
NoStartAfterFatal == [][FatalReaped => Len(kids') = Len(kids)]_vars

(* "If we couldn't invoke the utility, exit" (xargs.c:576): a child whose  *)
(* execvp() failed has xargs exit with 126 or 127 when it is waited for.   *)
ExecFailureReported ==
  (\E k \in DOMAIN kids : kids[k].exec = "failed" /\ kids[k].state = "reaped")
    => pc = "exit" /\ code \in {126, 127}

(* With several processes that fails, because run() resets childerr for    *)
(* the next command.  What does hold, whatever -P says: the failure of the *)
(* last command that was started is reported when its child is waited for, *)
(* in whatever order the children end and are waited for.                  *)
LastKid == kids[Len(kids)]

LastFailureReported ==
  kids # <<>> /\ LastKid.exec = "failed" /\ LastKid.state = "reaped"
    => pc = "exit" /\ code \in {126, 127}

(* xargs ends, if its input and its utilities end: no waitpid() blocks for *)
(* ever, and no child is left that nobody waits for.                       *)
Terminates == <>(pc = "exit")

-----------------------------------------------------------------------------
(* The pool that the jobs run in: a job is open until it is waited for. *)
OutcomeOf(kid) ==
  IF kid.state # "reaped" THEN "open"
  ELSE CASE kid.status = "zero" -> "good"
         [] kid.status = "nonzero" -> "bad"
         [] OTHER                  -> "fatal"

PoolOutcome == [k \in DOMAIN kids |-> OutcomeOf(kids[k])]
PoolVerdict ==
  CASE pc # "exit"                   -> "none"
    [] pc = "exit" /\ code = 0       -> "success"
    [] pc = "exit" /\ code = 123     -> "failure"
    [] pc = "exit" /\ code \notin {0, 123} -> "stopped"

Pool == INSTANCE JobPool WITH
  Limit <- MaxProcs, outcome <- PoolOutcome, verdict <- PoolVerdict

(* XargsRun implements JobPool. *)
ImplementsPool == Pool!Spec
=============================================================================
