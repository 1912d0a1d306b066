--------------------------- MODULE XargsRun_proofs ---------------------------
(***************************************************************************)
(* The pool of children that run() and waitchildren() keep, for every -P   *)
(* and any number of commands, and that it implements JobPool.             *)
(***************************************************************************)
EXTENDS XargsRun, TLAPS, SequenceTheorems, FiniteSetTheorems

(***************************************************************************)
(* The inductive invariant.  run() starts a child without a check; that it *)
(* may is what waitchildren() left behind: curprocs < MaxProcs whenever    *)
(* the reader has control.                                                 *)
(***************************************************************************)
RoomLeft == pc = "read" => curprocs < MaxProcs

(* The child that has not let go of the parent's memory is the last one,   *)
(* and the parent is in vfork(); a child that failed before execvp() ends  *)
(* with status 1.                                                          *)
KidsInv ==
  \A k \in DOMAIN kids :
    /\ kids[k].state = "setup" =>
         pc = "vfork" /\ k = Len(kids) /\ kids[k].exec = "pending"
    /\ kids[k].state = "leaving" => kids[k].status = "nonzero"
    /\ kids[k].state = "running" => kids[k].exec = "done"
    /\ kids[k].state \in {"zombie", "reaped"} /\ kids[k].status # "nonzero"
         => kids[k].exec = "done"

(* rval remembers the failures, and a fatal end has ended the program.     *)
RvalInv ==
  pc # "exit" =>
    /\ rval = 123 => \E k \in DOMAIN kids : kids[k].state = "reaped" /\ kids[k].status = "nonzero"
    /\ rval = 0 => \A k \in DOMAIN kids : kids[k].state = "reaped" => kids[k].status = "zero"
    /\ \A k \in DOMAIN kids : kids[k].state = "reaped" => kids[k].status \in {"zero", "nonzero"}
    /\ code = 0

ErrnoInv == childerr # 0 => \E k \in DOMAIN kids : kids[k].exec = "failed"

RunInv ==
  /\ TypeOK /\ CurprocsExact /\ AtMostMaxProcs /\ RoomLeft
  /\ KidsInv /\ RvalInv /\ ErrnoInv /\ ExitStatusFaithful

-----------------------------------------------------------------------------
(* What the numbers of the children are, once one more is started.         *)
LEMMA KidsFacts ==
  ASSUME TypeOK
  PROVE  /\ Len(kids) \in Nat /\ DOMAIN kids = 1 .. Len(kids)
         /\ \A k \in DOMAIN kids : kids[k] \in Kid
         /\ IsFiniteSet(Unreaped) /\ Cardinality(Unreaped) \in Nat
<1>1. Len(kids) \in Nat /\ DOMAIN kids = 1 .. Len(kids)
  BY LenProperties DEF TypeOK
<1>2. \A k \in DOMAIN kids : kids[k] \in Kid
  BY <1>1, ElementOfSeq DEF TypeOK
<1>3. IsFiniteSet(1 .. Len(kids)) /\ Unreaped \in SUBSET (1 .. Len(kids))
  BY <1>1, FS_Interval DEF Unreaped
<1>4. IsFiniteSet(Unreaped)
  BY <1>3, FS_Subset
<1> QED
  BY <1>1, <1>2, <1>4, FS_CardinalityType

(* A step that changes one child. *)
LEMMA KidChange ==
  ASSUME TypeOK, NEW k \in DOMAIN kids, NEW e \in Kid, kids' = [kids EXCEPT ![k] = e]
  PROVE  /\ kids' \in Seq(Kid) /\ Len(kids') = Len(kids)
         /\ DOMAIN kids' = DOMAIN kids
         /\ kids'[k] = e
         /\ \A j \in DOMAIN kids : j # k => kids'[j] = kids[j]
<1>1. DOMAIN kids = 1 .. Len(kids)
  BY KidsFacts
<1>2. kids' \in Seq(Kid) /\ Len(kids') = Len(kids)
  BY <1>1, ExceptSeq DEF TypeOK
<1>3. DOMAIN kids' = DOMAIN kids
  OBVIOUS
<1> QED
  BY <1>1, <1>2, <1>3, ExceptSeq DEF TypeOK

(* What a step of a child does to it. *)
ChildStep(k) ==
  \E e \in Kid :
    /\ kids' = [kids EXCEPT ![k] = e]
    /\ UNCHANGED <<asked, curprocs, rval, code, pc>>
    /\ kids[k].state # "reaped"
    /\ \/ /\ kids[k].state = "setup" /\ e.state = "running" /\ e.exec = "done"
          /\ UNCHANGED childerr
       \/ /\ kids[k].state = "setup" /\ e.state = "leaving" /\ e.status = "nonzero"
          /\ e.exec = kids[k].exec /\ UNCHANGED childerr
       \/ /\ kids[k].state = "setup" /\ e.state = "leaving" /\ e.status = "nonzero"
          /\ e.exec = "failed" /\ childerr' \in Errno
       \/ /\ kids[k].state = "running" /\ e.state = "zombie"
          /\ e.exec = kids[k].exec /\ UNCHANGED childerr
       \/ /\ kids[k].state = "leaving" /\ e.state = "zombie"
          /\ e.status = kids[k].status
          /\ e.exec = kids[k].exec /\ UNCHANGED childerr

(* What a step of a child may change.                                      *)
LEMMA ChildSteps ==
  ASSUME TypeOK, NEW k \in DOMAIN kids, Child(k)
  PROVE  ChildStep(k)
<1>0. kids[k] \in Kid
  BY KidsFacts
<1>1. CASE Executes(k)
  <2> DEFINE e == [kids[k] EXCEPT !.state = "running", !.exec = "done"]
  <2>1. e \in Kid /\ e.state = "running" /\ e.exec = "done"
    BY <1>0 DEF Kid
  <2>2. kids' = [kids EXCEPT ![k] = e]
    BY <1>1 DEF Executes
  <2> QED
    BY <1>1, <2>1, <2>2 DEF Executes, ChildStep
<1>2. CASE SetupFails(k)
  <2> DEFINE e == [kids[k] EXCEPT !.state = "leaving", !.status = "nonzero"]
  <2>1. e \in Kid /\ e.state = "leaving" /\ e.status = "nonzero" /\ e.exec = kids[k].exec
    BY <1>0 DEF Kid, Status
  <2>2. kids' = [kids EXCEPT ![k] = e]
    BY <1>2 DEF SetupFails
  <2> QED
    BY <1>2, <2>1, <2>2 DEF SetupFails, ChildStep
<1>3. CASE ExecFails(k)
  <2> DEFINE e == [kids[k] EXCEPT !.state = "leaving", !.status = "nonzero", !.exec = "failed"]
  <2>1. e \in Kid /\ e.state = "leaving" /\ e.status = "nonzero" /\ e.exec = "failed"
    BY <1>0 DEF Kid, Status
  <2>2. kids' = [kids EXCEPT ![k] = e]
    BY <1>3 DEF ExecFails
  <2> QED
    BY <1>3, <2>1, <2>2 DEF ExecFails, ChildStep
<1>4. CASE Ends(k)
  <2>1. PICK s \in Status :
          kids' = [kids EXCEPT ![k].state = "zombie", ![k].status = s]
    BY <1>4 DEF Ends
  <2> DEFINE e == [kids[k] EXCEPT !.state = "zombie", !.status = s]
  <2>2. e \in Kid /\ e.state = "zombie" /\ e.exec = kids[k].exec
    BY <1>0 DEF Kid
  <2>3. kids' = [kids EXCEPT ![k] = e]
    BY <2>1
  <2> QED
    BY <1>4, <2>2, <2>3 DEF Ends, ChildStep
<1>5. CASE BecomesZombie(k)
  <2> DEFINE e == [kids[k] EXCEPT !.state = "zombie"]
  <2>1. e \in Kid /\ e.state = "zombie" /\ e.exec = kids[k].exec /\ e.status = kids[k].status
    BY <1>0 DEF Kid
  <2>2. kids' = [kids EXCEPT ![k] = e]
    BY <1>5 DEF BecomesZombie
  <2> QED
    BY <1>5, <2>1, <2>2 DEF BecomesZombie, ChildStep
<1> QED
  BY <1>1, <1>2, <1>3, <1>4, <1>5 DEF Child

(* A step of a child keeps the invariant.                                  *)
LEMMA ChildInv ==
  ASSUME RunInv, NEW k \in DOMAIN kids, Child(k)
  PROVE  RunInv'
<1>1. ChildStep(k) /\ TypeOK
  BY ChildSteps DEF RunInv
<1>2. PICK e \in Kid :
    /\ kids' = [kids EXCEPT ![k] = e]
    /\ UNCHANGED <<asked, curprocs, rval, code, pc>>
    /\ kids[k].state # "reaped"
    /\ \/ /\ kids[k].state = "setup" /\ e.state = "running" /\ e.exec = "done"
          /\ UNCHANGED childerr
       \/ /\ kids[k].state = "setup" /\ e.state = "leaving" /\ e.status = "nonzero"
          /\ e.exec = kids[k].exec /\ UNCHANGED childerr
       \/ /\ kids[k].state = "setup" /\ e.state = "leaving" /\ e.status = "nonzero"
          /\ e.exec = "failed" /\ childerr' \in Errno
       \/ /\ kids[k].state = "running" /\ e.state = "zombie"
          /\ e.exec = kids[k].exec /\ UNCHANGED childerr
       \/ /\ kids[k].state = "leaving" /\ e.state = "zombie"
          /\ e.status = kids[k].status
          /\ e.exec = kids[k].exec /\ UNCHANGED childerr
  BY <1>1 DEF ChildStep
<1>3. /\ kids' \in Seq(Kid) /\ Len(kids') = Len(kids)
      /\ DOMAIN kids' = DOMAIN kids
      /\ kids'[k] = e
      /\ \A j \in DOMAIN kids : j # k => kids'[j] = kids[j]
  BY <1>1, <1>2, KidChange
<1>4. Unreaped' = Unreaped
  BY <1>2, <1>3 DEF Unreaped
<1>5. TypeOK'
  BY <1>1, <1>2, <1>3 DEF TypeOK
<1>6. CurprocsExact' /\ AtMostMaxProcs' /\ RoomLeft'
  BY <1>2, <1>4 DEF RunInv, CurprocsExact, AtMostMaxProcs, RoomLeft
<1>7. KidsInv'
  BY <1>2, <1>3 DEF RunInv, KidsInv
<1>8. RvalInv'
  BY <1>2, <1>3 DEF RunInv, RvalInv
<1>9. ErrnoInv'
  BY <1>2, <1>3 DEF RunInv, ErrnoInv, KidsInv
<1>10. ExitStatusFaithful'
  <2> SUFFICES ASSUME pc' = "exit" PROVE ExitStatusFaithful'
    BY DEF ExitStatusFaithful
  <2>1. k \in Unreaped /\ kids[k].state # "setup"
    BY <1>2 DEF Unreaped, RunInv, KidsInv
  <2>2. code # 0 /\ code # 123
    BY <1>2, <2>1 DEF RunInv, ExitStatusFaithful
  <2> QED
    BY <1>2, <1>3, <2>1, <2>2 DEF RunInv, ExitStatusFaithful
<1> QED
  BY <1>5, <1>6, <1>7, <1>8, <1>9, <1>10 DEF RunInv

(* run() starts a child. *)
LEMMA VforkInv ==
  ASSUME RunInv, Vfork
  PROVE  /\ RunInv'
         /\ Len(kids') = Len(kids) + 1 /\ DOMAIN kids' = 1 .. Len(kids) + 1
         /\ kids'[Len(kids) + 1].state = "setup"
         /\ \A j \in DOMAIN kids : kids'[j] = kids[j]
<1> DEFINE e == [state |-> "setup", status |-> "zero", exec |-> "pending"]
           n == Len(kids) + 1
<1>1. /\ pc = "read" /\ asked < MaxJobs /\ asked' = asked + 1
      /\ childerr' = 0 /\ kids' = Append(kids, e) /\ pc' = "vfork"
      /\ UNCHANGED <<curprocs, rval, code>>
  BY DEF Vfork, Ask
<1>2. /\ TypeOK /\ Len(kids) \in Nat /\ DOMAIN kids = 1 .. Len(kids)
      /\ IsFiniteSet(Unreaped) /\ Cardinality(Unreaped) \in Nat
  BY KidsFacts DEF RunInv
<1>3. e \in Kid
  BY DEF Kid, Status
<1>4. /\ kids' \in Seq(Kid) /\ Len(kids') = n /\ DOMAIN kids' = 1 .. n
      /\ kids'[n] = e /\ \A j \in 1 .. Len(kids) : kids'[j] = kids[j]
  BY <1>1, <1>2, <1>3 DEF TypeOK
<1>5. Unreaped' = Unreaped \cup {n} /\ n \notin Unreaped
  BY <1>2, <1>4 DEF Unreaped
<1>6. Cardinality(Unreaped') = Cardinality(Unreaped) + 1
  BY <1>2, <1>5, FS_AddElement
<1>7. TypeOK'
  BY <1>1, <1>2, <1>4, JobsAssumption DEF TypeOK
<1>8. CurprocsExact' /\ AtMostMaxProcs' /\ RoomLeft'
  <2>1. curprocs < MaxProcs /\ curprocs = Cardinality(Unreaped)
    BY <1>1, <1>2 DEF RunInv, RoomLeft, CurprocsExact
  <2> QED
    BY <1>1, <1>2, <1>6, <2>1, ProcsAssumption DEF CurprocsExact, AtMostMaxProcs, RoomLeft
<1>9. KidsInv'
  BY <1>1, <1>2, <1>4 DEF RunInv, KidsInv
<1>10. RvalInv'
  BY <1>1, <1>2, <1>4 DEF RunInv, RvalInv
<1>11. ErrnoInv' /\ ExitStatusFaithful'
  BY <1>1 DEF ErrnoInv, ExitStatusFaithful
<1> QED
  BY <1>2, <1>4, <1>7, <1>8, <1>9, <1>10, <1>11 DEF RunInv

(* What waitchildren() does with a status. *)
LEMMA ReapInv ==
  ASSUME RunInv, NEW k \in DOMAIN kids, Reap(k)
  PROVE  /\ RunInv'
         /\ DOMAIN kids' = DOMAIN kids /\ Len(kids') = Len(kids)
         /\ k \in Unreaped /\ kids'[k].state = "reaped"
         /\ kids'[k].status = kids[k].status
         /\ \A j \in DOMAIN kids : j # k => kids'[j] = kids[j]
<1> DEFINE e == [kids[k] EXCEPT !.state = "reaped"]
<1>1. /\ pc \in {"wait", "drain"} /\ kids[k].state = "zombie"
      /\ kids' = [kids EXCEPT ![k] = e]
      /\ curprocs' = curprocs - 1
      /\ UNCHANGED <<asked, childerr>>
  BY DEF Reap, Zombies
<1>2. /\ TypeOK /\ Len(kids) \in Nat /\ DOMAIN kids = 1 .. Len(kids)
      /\ kids[k] \in Kid
      /\ IsFiniteSet(Unreaped) /\ Cardinality(Unreaped) \in Nat
  BY KidsFacts DEF RunInv
<1>3. e \in Kid /\ e.state = "reaped" /\ e.status = kids[k].status /\ e.exec = kids[k].exec
  BY <1>2 DEF Kid
<1> HIDE DEF e
<1>4. /\ kids' \in Seq(Kid) /\ Len(kids') = Len(kids)
      /\ DOMAIN kids' = DOMAIN kids
      /\ kids'[k] = e
      /\ \A j \in DOMAIN kids : j # k => kids'[j] = kids[j]
  BY <1>1, <1>2, <1>3, KidChange
<1>5. Unreaped' = Unreaped \ {k} /\ k \in Unreaped
  BY <1>1, <1>3, <1>4 DEF Unreaped
<1>6. Cardinality(Unreaped') = Cardinality(Unreaped) - 1
  BY <1>2, <1>5, FS_RemoveElement
<1>7. \/ /\ childerr # 0 /\ pc' = "exit" /\ code' \in {126, 127} /\ UNCHANGED rval
      \/ /\ kids[k].status \in {"255", "signal"} /\ pc' = "exit"
         /\ code' \in {124, 125} /\ UNCHANGED rval
      \/ /\ kids[k].status = "nonzero" /\ rval' = 123 /\ UNCHANGED <<code, pc>>
      \/ /\ kids[k].status = "zero" /\ UNCHANGED <<rval, code, pc>>
  BY DEF Reap, Report, ExecStatus, Exit
<1>8. TypeOK'
  BY <1>1, <1>2, <1>4, <1>7 DEF TypeOK
<1>9. CurprocsExact' /\ AtMostMaxProcs' /\ RoomLeft'
  BY <1>1, <1>2, <1>6, <1>7, ProcsAssumption
  DEF RunInv, CurprocsExact, AtMostMaxProcs, RoomLeft
<1>10. KidsInv'
  BY <1>1, <1>3, <1>4 DEF RunInv, KidsInv
<1>11. RvalInv'
  BY <1>1, <1>3, <1>4, <1>7 DEF RunInv, RvalInv
<1>12. ErrnoInv'
  BY <1>1, <1>3, <1>4 DEF RunInv, ErrnoInv
<1>13. ExitStatusFaithful'
  BY <1>1, <1>3, <1>4, <1>7, <1>12 DEF ErrnoInv, ExitStatusFaithful
<1> QED
  BY <1>3, <1>4, <1>5, <1>8, <1>9, <1>10, <1>11, <1>12, <1>13 DEF RunInv

(* The steps of the parent that leave the children alone. *)
LEMMA ParentOnlyInv ==
  ASSUME RunInv, UNCHANGED kids,
         Declined \/ VforkFails \/ VforkReturns \/ NoneReady \/ NoChildren
           \/ EndOfInput \/ InputError
  PROVE  RunInv'
<1>0. /\ TypeOK /\ Len(kids) \in Nat /\ DOMAIN kids = 1 .. Len(kids)
      /\ IsFiniteSet(Unreaped) /\ Cardinality(Unreaped) \in Nat
      /\ Unreaped' = Unreaped
  BY KidsFacts DEF RunInv, Unreaped
<1> USE DEF RunInv, TypeOK, CurprocsExact, AtMostMaxProcs, RoomLeft, KidsInv,
            RvalInv, ErrnoInv, ExitStatusFaithful
<1>1. CASE Declined
  BY <1>0, <1>1, JobsAssumption DEF Declined, Ask
<1>2. CASE VforkFails
  BY <1>0, <1>2, JobsAssumption DEF VforkFails, Ask, Exit
<1>3. CASE VforkReturns
  BY <1>0, <1>3 DEF VforkReturns
<1>4. CASE NoneReady
  BY <1>0, <1>4 DEF NoneReady
<1>5. CASE NoChildren
  <2>1. Unreaped = {} /\ Cardinality(Unreaped) = 0
    BY <1>5, FS_EmptySet DEF NoChildren
  <2>2. CASE pc = "wait" /\ pc' = "read" /\ UNCHANGED code
    <3>1. /\ asked' = asked /\ childerr' = childerr /\ curprocs' = curprocs
          /\ rval' = rval /\ code' = code
      BY <1>5, <2>2, Zenon DEF NoChildren
    <3>2. curprocs = 0
      BY <2>1, <2>2
    <3>3. curprocs = 0 /\ curprocs' = 0
      BY <3>1, <3>2
    <3>4. 0 < MaxProcs
      BY ProcsAssumption
    <3>5. TypeOK'
      BY <1>0, <2>2, <3>1
    <3>6. Cardinality(Unreaped') = 0
      BY <1>0, <2>1, Zenon
    <3>7. CurprocsExact' /\ AtMostMaxProcs' /\ RoomLeft'
      BY <2>2, <3>3, <3>4, <3>6, ProcsAssumption
    <3>8. KidsInv' /\ RvalInv' /\ ErrnoInv' /\ ExitStatusFaithful'
      BY <1>0, <2>2, <3>1
    <3> QED
      BY <3>5, <3>8, <3>7
  <2>3. CASE pc = "drain" /\ Exit(rval)
    <3>1. \A k \in DOMAIN kids : kids[k].state = "reaped"
      BY <2>1 DEF Unreaped
    <3>2. \A k \in DOMAIN kids : kids[k] \in Kid
      BY <1>0, KidsFacts
    <3>3. rval = 0 =>
            \A k \in DOMAIN kids :
              kids[k] = [state |-> "reaped", status |-> "zero", exec |-> "done"]
      BY <2>3, <3>1, <3>2 DEF Kid
    <3>4. ExitStatusFaithful'
      BY <1>0, <1>5, <2>1, <2>3, <3>1, <3>3 DEF NoChildren, Exit
    <3>5. TypeOK' /\ CurprocsExact' /\ AtMostMaxProcs' /\ RoomLeft'
      BY <1>0, <1>5, <2>3 DEF NoChildren, Exit
    <3>6. KidsInv' /\ RvalInv' /\ ErrnoInv'
      BY <1>0, <1>5, <2>3 DEF NoChildren, Exit
    <3> QED
      BY <3>4, <3>5, <3>6
  <2> QED
    BY <1>5, <2>2, <2>3 DEF NoChildren
<1>6. CASE EndOfInput
  BY <1>0, <1>6 DEF EndOfInput
<1>7. CASE InputError
  BY <1>0, <1>7 DEF InputError, Exit
<1> QED
  BY <1>1, <1>2, <1>3, <1>4, <1>5, <1>6, <1>7

(* The disjuncts of Next, as the proofs below split on them. *)
LEMMA Steps ==
  ASSUME [Next]_vars
  PROVE  \/ \E k \in DOMAIN kids : Child(k) \/ Reap(k)
         \/ Vfork
         \/ UNCHANGED kids /\ (Declined \/ VforkFails \/ VforkReturns \/ NoneReady
              \/ NoChildren \/ EndOfInput \/ InputError)
         \/ UNCHANGED vars
BY DEF Next, Parent, Declined, VforkFails, VforkReturns, NoneReady, NoChildren,
       EndOfInput, InputError

(* The invariant holds before the first command.                           *)
LEMMA InitRunInv == Init => RunInv
<1> SUFFICES ASSUME Init PROVE RunInv
  OBVIOUS
<1>1. Len(kids) = 0 /\ DOMAIN kids = {} /\ Unreaped = {} /\ Cardinality(Unreaped) = 0
  BY FS_EmptySet DEF Init, Unreaped
<1>2. kids \in Seq(Kid)
  BY DEF Init
<1> QED
  BY <1>1, <1>2, ProcsAssumption, JobsAssumption
  DEF Init, RunInv, TypeOK, CurprocsExact, AtMostMaxProcs, RoomLeft, KidsInv,
      RvalInv, ErrnoInv, ExitStatusFaithful

(* Every step, of xargs or of a child, keeps the invariant.                *)
LEMMA NextRunInv == RunInv /\ [Next]_vars => RunInv'
<1> SUFFICES ASSUME RunInv, [Next]_vars PROVE RunInv'
  OBVIOUS
<1>1. CASE UNCHANGED vars
  BY <1>1 DEF vars, RunInv, TypeOK, CurprocsExact, AtMostMaxProcs, RoomLeft, KidsInv,
              RvalInv, ErrnoInv, ExitStatusFaithful, Unreaped
<1> QED
  BY <1>1, Steps, ChildInv, ReapInv, VforkInv, ParentOnlyInv

-----------------------------------------------------------------------------
(* The invariant of the running of commands holds always, for every number *)
(* of jobs.                                                                *)
LEMMA RunInvariance == Spec => []RunInv
<1>1. Init => RunInv
  BY InitRunInv
<1>2. RunInv /\ [Next]_vars => RunInv'
  BY NextRunInv
<1> QED
  BY <1>1, <1>2, PTL DEF Spec, SafeSpec

(* Every variable of run() and waitchildren() keeps its type. *)
THEOREM RunTypeCorrect == Spec => []TypeOK
<1>1. RunInv => TypeOK
  BY DEF RunInv
<1> QED
  BY <1>1, RunInvariance, PTL

(* However many commands there are and in whatever order their processes   *)
(* end, never more than maxprocs are there at once.                        *)
THEOREM PoolBounded == Spec => []AtMostMaxProcs
<1>1. RunInv => AtMostMaxProcs
  BY DEF RunInv
<1> QED
  BY <1>1, RunInvariance, PTL

(* curprocs counts the children that are not waited for.                   *)
THEOREM CurprocsCorrect == Spec => []CurprocsExact
<1>1. RunInv => CurprocsExact
  BY DEF RunInv
<1> QED
  BY <1>1, RunInvariance, PTL

(* The exit status of xargs tells how its commands ended.                  *)
THEOREM StatusFaithful == Spec => []ExitStatusFaithful
<1>1. RunInv => ExitStatusFaithful
  BY DEF RunInv
<1> QED
  BY <1>1, RunInvariance, PTL

(* Once a child has ended with 255 or by a signal and has been waited for, *)
(* no step starts another command.                                         *)
THEOREM FatalIsFinal == Spec => NoStartAfterFatal
<1>1. RunInv /\ [Next]_vars => [FatalReaped => Len(kids') = Len(kids)]_vars
  <2> SUFFICES ASSUME RunInv, [Next]_vars, FatalReaped PROVE Len(kids') = Len(kids)
    OBVIOUS
  <2>1. pc = "exit"
    BY DEF RunInv, RvalInv, FatalReaped
  <2>2. ~Vfork
    BY <2>1 DEF Vfork, Ask
  <2>3. ASSUME NEW k \in DOMAIN kids, Child(k) PROVE Len(kids') = Len(kids)
    BY <2>3, ChildSteps, KidChange DEF ChildStep, RunInv
  <2>4. ASSUME NEW k \in DOMAIN kids, Reap(k) PROVE Len(kids') = Len(kids)
    BY <2>4, ReapInv
  <2> QED
    BY <2>2, <2>3, <2>4, Steps DEF vars
<1> QED
  BY <1>1, RunInvariance, PTL DEF Spec, SafeSpec, NoStartAfterFatal

-----------------------------------------------------------------------------
(***************************************************************************)
(* With one process at a time a failed execvp() is always reported: its    *)
(* errno is in childerr until the child is waited for, because no other    *)
(* run() comes between.  With more this is what fails.                     *)
(***************************************************************************)
SerialInv ==
  \A k \in DOMAIN kids : kids[k].exec = "failed" =>
    \/ kids[k].state # "reaped" /\ childerr # 0
    \/ pc = "exit" /\ code \in {126, 127}

(* With one job at a time no step hides a command that could not be run.   *)
LEMMA SerialStep ==
  ASSUME MaxProcs = 1, RunInv, SerialInv, [Next]_vars
  PROVE  SerialInv'
<1>0. /\ TypeOK /\ DOMAIN kids = 1 .. Len(kids) /\ Len(kids) \in Nat
      /\ IsFiniteSet(Unreaped) /\ Cardinality(Unreaped) \in Nat
  BY KidsFacts DEF RunInv
<1>1. pc = "read" => \A k \in DOMAIN kids : kids[k].exec # "failed"
  <2> SUFFICES ASSUME pc = "read", NEW k \in DOMAIN kids PROVE kids[k].exec # "failed"
    OBVIOUS
  <2>1. Cardinality(Unreaped) = 0
    BY <1>0 DEF RunInv, RoomLeft, CurprocsExact
  <2>2. Unreaped = {}
    BY <1>0, <2>1, FS_EmptySet
  <2> QED
    BY <2>2 DEF SerialInv, Unreaped
<1>2. ASSUME NEW k \in DOMAIN kids, Child(k) PROVE SerialInv'
  <2>1. PICK e \in Kid : /\ kids' = [kids EXCEPT ![k] = e]
                         /\ UNCHANGED <<code, pc>>
                         /\ kids[k].state # "reaped" /\ e.state # "reaped"
                         /\ \/ e.exec = "done" /\ UNCHANGED childerr
                            \/ e.exec = kids[k].exec /\ UNCHANGED childerr
                            \/ childerr' \in Errno
    BY <1>0, <1>2, ChildSteps DEF ChildStep
  <2>2. DOMAIN kids' = DOMAIN kids /\ kids'[k] = e
        /\ \A j \in DOMAIN kids : j # k => kids'[j] = kids[j]
    BY <1>0, <2>1, KidChange
  <2> QED
    BY <2>1, <2>2 DEF SerialInv, Errno, ENOENT
<1>3. ASSUME NEW k \in DOMAIN kids, Reap(k) PROVE SerialInv'
  <2>1. /\ DOMAIN kids' = DOMAIN kids /\ kids'[k].exec = kids[k].exec
        /\ kids[k].state = "zombie"
        /\ \A j \in DOMAIN kids : j # k => kids'[j] = kids[j]
    BY <1>3, <1>0, ReapInv DEF Reap, Zombies
  <2>2. pc # "exit" /\ UNCHANGED childerr
        /\ (childerr # 0 => pc' = "exit" /\ code' \in {126, 127})
    BY <1>3 DEF Reap, Report, ExecStatus, Exit
  <2> QED
    BY <2>1, <2>2 DEF SerialInv
<1>4. CASE Vfork
  <2>1. pc = "read" /\ kids'[Len(kids) + 1].exec = "pending"
        /\ DOMAIN kids' = 1 .. Len(kids) + 1
        /\ \A j \in DOMAIN kids : kids'[j] = kids[j]
    BY <1>0, <1>4, VforkInv DEF Vfork, Ask, TypeOK
  <2> QED
    BY <1>0, <1>1, <2>1 DEF SerialInv
<1>5. CASE UNCHANGED kids /\ (Declined \/ VforkFails \/ VforkReturns \/ NoneReady
             \/ NoChildren \/ EndOfInput \/ InputError)
  <2>1. CASE pc = "read"
    BY <1>1, <1>5, <2>1 DEF SerialInv
  <2>2. CASE pc # "read"
    <3>1. UNCHANGED <<kids, childerr>> /\ pc # "exit"
      BY <1>5, <2>2 DEF Declined, VforkFails, Ask, VforkReturns, NoneReady,
                        NoChildren, EndOfInput, InputError
    <3> QED
      BY <3>1 DEF SerialInv
  <2> QED
    BY <2>1, <2>2
<1>6. CASE UNCHANGED vars
  BY <1>6 DEF SerialInv, vars
<1> QED
  BY <1>2, <1>3, <1>4, <1>5, <1>6, Steps

(* With more processes the same holds of the command that was started last: *)
(* childerr is not reset before another is, and while it is set the first   *)
(* child to be waited for, whichever it is, ends xargs.                     *)
LastInv ==
  kids # <<>> /\ LastKid.exec = "failed" =>
    \/ LastKid.state # "reaped" /\ (childerr # 0 \/ pc = "exit")
    \/ pc = "exit" /\ code \in {126, 127}

(* No step loses the failure of the last command but by starting another. *)
LEMMA LastStep == RunInv /\ LastInv /\ [Next]_vars => LastInv'
<1> SUFFICES ASSUME RunInv, LastInv, [Next]_vars PROVE LastInv'
  OBVIOUS
<1>0. /\ TypeOK /\ DOMAIN kids = 1 .. Len(kids) /\ Len(kids) \in Nat
      /\ (kids # <<>> => Len(kids) \in DOMAIN kids)
  <2>1. TypeOK /\ DOMAIN kids = 1 .. Len(kids) /\ Len(kids) \in Nat
    BY KidsFacts DEF RunInv
  <2>2. kids # <<>> => Len(kids) > 0
    BY <2>1 DEF TypeOK
  <2> QED
    BY <2>1, <2>2
<1>1. ASSUME NEW k \in DOMAIN kids, Child(k) PROVE LastInv'
  <2>1. PICK e \in Kid : /\ kids' = [kids EXCEPT ![k] = e]
                         /\ UNCHANGED <<code, pc>>
                         /\ kids[k].state # "reaped" /\ e.state # "reaped"
                         /\ \/ e.exec = "done" /\ UNCHANGED childerr
                            \/ e.exec = kids[k].exec /\ UNCHANGED childerr
                            \/ childerr' \in Errno
    BY <1>0, <1>1, ChildSteps DEF ChildStep
  <2>2. DOMAIN kids' = DOMAIN kids /\ Len(kids') = Len(kids) /\ kids'[k] = e
        /\ \A j \in DOMAIN kids : j # k => kids'[j] = kids[j]
    BY <1>0, <2>1, KidChange
  <2>3. kids # <<>> /\ LastKid' = IF Len(kids) = k THEN e ELSE LastKid
    BY <1>0, <2>2 DEF LastKid
  <2>4. childerr' # 0 \/ UNCHANGED childerr
    BY <2>1 DEF Errno, ENOENT
  <2>5. k = Len(kids) => LastKid = kids[k]
    BY DEF LastKid
  <2> QED
    BY <2>1, <2>3, <2>4, <2>5 DEF LastInv, Errno, ENOENT
<1>2. ASSUME NEW k \in DOMAIN kids, Reap(k) PROVE LastInv'
  <2>1. /\ DOMAIN kids' = DOMAIN kids /\ kids'[k].exec = kids[k].exec
        /\ kids[k].state = "zombie" /\ Len(kids') = Len(kids)
        /\ \A j \in DOMAIN kids : j # k => kids'[j] = kids[j]
    BY <1>2, <1>0, ReapInv DEF Reap, Zombies
  <2>2. pc # "exit" /\ UNCHANGED childerr
        /\ (childerr # 0 => pc' = "exit" /\ code' \in {126, 127})
    BY <1>2 DEF Reap, Report, ExecStatus, Exit
  <2>3. kids # <<>> /\ LastKid'.exec = LastKid.exec
        /\ (Len(kids) = k => LastKid.state # "reaped")
        /\ (Len(kids) # k => LastKid' = LastKid)
    BY <1>0, <2>1 DEF LastKid
  <2> QED
    BY <2>2, <2>3 DEF LastInv
<1>3. CASE Vfork
  <2>1. Len(kids') = Len(kids) + 1 /\ kids'[Len(kids) + 1].exec = "pending"
    BY <1>0, <1>3, VforkInv DEF Vfork, TypeOK
  <2> QED
    BY <2>1 DEF LastInv, LastKid
<1>4. CASE UNCHANGED kids /\ (Declined \/ VforkFails \/ VforkReturns \/ NoneReady
             \/ NoChildren \/ EndOfInput \/ InputError)
  <2>1. UNCHANGED LastKid /\ pc # "exit"
    BY <1>4 DEF LastKid, Declined, VforkFails, Ask, VforkReturns, NoneReady,
                NoChildren, EndOfInput, InputError
  <2>2. UNCHANGED childerr \/ pc' = "exit"
    BY <1>4 DEF Declined, VforkFails, Ask, VforkReturns, NoneReady,
                NoChildren, EndOfInput, InputError, Exit
  <2> QED
    BY <1>4, <2>1, <2>2 DEF LastInv
<1>5. CASE UNCHANGED vars
  BY <1>5 DEF LastInv, LastKid, vars
<1> QED
  BY <1>1, <1>2, <1>3, <1>4, <1>5, Steps

(* Whatever -P says, that the command started last could not be executed   *)
(* is what xargs reports once it has waited for it (xargs.c:576).          *)
THEOREM LastExecFailureReported == Spec => []LastFailureReported
<1>1. Init => LastInv
  BY DEF Init, LastInv
<1>2. LastInv => LastFailureReported
  BY DEF LastInv, LastFailureReported
<1> QED
  BY <1>1, <1>2, LastStep, RunInvariance, PTL DEF Spec, SafeSpec

(* With -P 1, which is also the default, a utility that cannot be executed *)
(* makes xargs exit with 126 or 127 (xargs.c:576).                         *)
THEOREM SerialExecFailureReported ==
  ASSUME MaxProcs = 1
  PROVE  Spec => []ExecFailureReported
<1>1. Init => SerialInv
  BY DEF Init, SerialInv
<1>2. RunInv /\ SerialInv /\ [Next]_vars => SerialInv'
  BY SerialStep
<1>3. SerialInv => ExecFailureReported
  BY DEF SerialInv, ExecFailureReported
<1> QED
  BY <1>1, <1>2, <1>3, RunInvariance, PTL DEF Spec, SafeSpec

-----------------------------------------------------------------------------
(***************************************************************************)
(* The refinement of JobPool.  A child is an open job from vfork() until   *)
(* it is waited for; what the children do in between the pool never sees.  *)
(***************************************************************************)
LEMMA PoolOpen == Pool!Jobs = DOMAIN kids /\ Pool!Open = Unreaped
<1>1. Pool!Jobs = DOMAIN kids
  BY DEF Pool!Jobs, PoolOutcome
<1>2. \A k \in DOMAIN kids : PoolOutcome[k] = "open" <=> kids[k].state # "reaped"
  BY DEF PoolOutcome, OutcomeOf
<1> QED
  BY <1>1, <1>2 DEF Pool!Open, Unreaped

(* A step of a child within its command is none of the pool.               *)
LEMMA ChildStutters ==
  ASSUME RunInv, NEW k \in DOMAIN kids, Child(k)
  PROVE  UNCHANGED Pool!vars
<1>1. PICK e \in Kid : /\ kids' = [kids EXCEPT ![k] = e]
                       /\ UNCHANGED <<pc, code>>
                       /\ kids[k].state # "reaped" /\ e.state # "reaped"
  BY ChildSteps DEF ChildStep, RunInv
<1>2. /\ DOMAIN kids' = DOMAIN kids /\ kids'[k] = e
      /\ \A j \in DOMAIN kids : j # k => kids'[j] = kids[j]
  BY <1>1, KidChange DEF RunInv
<1>3. \A j \in DOMAIN kids : OutcomeOf(kids'[j]) = OutcomeOf(kids[j])
  BY <1>1, <1>2 DEF OutcomeOf
<1>4. PoolOutcome' = PoolOutcome
  BY <1>2, <1>3 DEF PoolOutcome
<1>5. PoolVerdict' = PoolVerdict
  BY <1>1 DEF PoolVerdict
<1> QED
  BY <1>4, <1>5 DEF Pool!vars

(* A command that is run is a job more in the pool.                        *)
LEMMA VforkStarts ==
  ASSUME RunInv, Vfork
  PROVE  Pool!Start
<1> DEFINE n == Len(kids) + 1
<1>1. /\ TypeOK /\ Len(kids) \in Nat /\ DOMAIN kids = 1 .. Len(kids)
      /\ Len(kids) <= asked /\ asked < MaxJobs /\ asked \in Nat /\ MaxJobs \in Nat
  BY KidsFacts, JobsAssumption DEF RunInv, TypeOK, Vfork, Ask
<1>2. /\ DOMAIN kids' = DOMAIN kids \cup {n} /\ n \notin DOMAIN kids
      /\ kids'[n].state = "setup" /\ \A j \in DOMAIN kids : kids'[j] = kids[j]
  BY <1>1, VforkInv
<1>3. n \in (1 .. MaxJobs) \ Pool!Jobs
  BY <1>1, <1>2, PoolOpen
<1>4. pc = "read" /\ pc' = "vfork"
  BY DEF Vfork, Ask
<1>5. PoolVerdict = "none" /\ UNCHANGED PoolVerdict
  BY <1>4 DEF PoolVerdict
<1>6. Pool!Cardinality(Pool!Open) < MaxProcs
  <2>1. Cardinality(Unreaped) < MaxProcs
    BY <1>4, ProcsAssumption, KidsFacts DEF RunInv, RoomLeft, CurprocsExact
  <2>2. Pool!Cardinality(Pool!Open) = Cardinality(Unreaped)
    BY PoolOpen DEF Pool!Cardinality, Cardinality
  <2> QED
    BY <2>1, <2>2
<1>7. \A i \in Pool!Jobs : PoolOutcome[i] # "fatal"
  <2>1. \A k \in DOMAIN kids : OutcomeOf(kids[k]) # "fatal"
    BY <1>4 DEF RunInv, RvalInv, OutcomeOf
  <2> QED
    BY <2>1, PoolOpen DEF PoolOutcome
<1>8. PoolOutcome' = [i \in Pool!Jobs \cup {n} |-> IF i = n THEN "open" ELSE PoolOutcome[i]]
  BY <1>2, PoolOpen DEF PoolOutcome, OutcomeOf
<1> QED
  BY <1>3, <1>5, <1>6, <1>7, <1>8 DEF Pool!Start

(* A child that is waited for is a job that has finished.                  *)
LEMMA ReapFinishes ==
  ASSUME RunInv, NEW k \in DOMAIN kids, Reap(k)
  PROVE  Pool!Finish
<1>1. /\ DOMAIN kids' = DOMAIN kids /\ k \in Unreaped
      /\ kids'[k].state = "reaped" /\ kids'[k].status = kids[k].status
      /\ \A j \in DOMAIN kids : j # k => kids'[j] = kids[j]
      /\ kids[k].status \in Status
  BY ReapInv, KidsFacts DEF RunInv, Kid
<1>2. /\ pc \in {"wait", "drain"}
      /\ \/ pc' = "exit" /\ code' \in {124, 125, 126, 127}
         \/ pc' = pc /\ kids[k].status \in {"zero", "nonzero"}
  BY DEF Reap, Report, ExecStatus, Exit
<1> DEFINE o == OutcomeOf(kids'[k])
<1>3. o \in Pool!Ended /\ (o = "fatal" => kids[k].status \in {"255", "signal"})
  BY <1>1 DEF OutcomeOf, Pool!Ended, Status
<1>4. PoolOutcome' = [PoolOutcome EXCEPT ![k] = o]
  BY <1>1 DEF PoolOutcome
<1>5. PoolVerdict = "none"
  BY <1>2 DEF PoolVerdict
<1>6. PoolVerdict' \in (IF o = "fatal" THEN {"stopped"} ELSE {"none", "stopped"})
  BY <1>2, <1>3 DEF PoolVerdict
<1> HIDE DEF o
<1> QED
  BY <1>1, <1>3, <1>4, <1>5, <1>6, PoolOpen DEF Pool!Finish

(* The other steps of xargs can only conclude what the pool has come to.   *)
LEMMA ParentOnlyConcludes ==
  ASSUME RunInv, UNCHANGED kids,
         Declined \/ VforkFails \/ VforkReturns \/ NoneReady \/ NoChildren
           \/ EndOfInput \/ InputError
  PROVE  [Pool!Next]_(Pool!vars)
<1>1. UNCHANGED PoolOutcome
  BY DEF PoolOutcome
<1>2. CASE pc # "exit" /\ pc' # "exit"
  <2>1. UNCHANGED PoolVerdict
    BY <1>2 DEF PoolVerdict
  <2> QED
    BY <1>1, <2>1 DEF Pool!vars
<1>3. CASE VforkFails \/ InputError
  <2>1. pc # "exit" /\ pc' = "exit" /\ code' = 1
    BY <1>3 DEF VforkFails, InputError, Ask, Exit
  <2>2. PoolVerdict = "none" /\ PoolVerdict' = "stopped"
    BY <2>1 DEF PoolVerdict
  <2> QED
    BY <1>1, <2>2 DEF Pool!GiveUp, Pool!Next
<1>4. CASE NoChildren /\ pc' = "exit"
  <2>1. Unreaped = {} /\ pc = "drain" /\ code' = rval
    BY <1>4 DEF NoChildren, Exit
  <2>2. Pool!Open = {} /\ PoolVerdict = "none"
    BY <2>1, PoolOpen DEF PoolVerdict
  <2>3. rval \in {0, 123} /\ \A k \in DOMAIN kids : kids[k].state = "reaped"
    BY <2>1 DEF RunInv, TypeOK, Unreaped
  <2>4. rval = 0 <=> \A k \in DOMAIN kids : kids[k].status = "zero"
    BY <2>1, <2>3 DEF RunInv, RvalInv
  <2>5. \A k \in DOMAIN kids : PoolOutcome[k] = "good" <=> kids[k].status = "zero"
    BY <2>1, <2>3 DEF PoolOutcome, OutcomeOf, RunInv, RvalInv
  <2>6. PoolVerdict' = IF \A j \in Pool!Jobs : PoolOutcome[j] = "good"
                       THEN "success" ELSE "failure"
    BY <1>4, <2>1, <2>3, <2>4, <2>5, PoolOpen DEF PoolVerdict
  <2> QED
    BY <1>1, <2>2, <2>6 DEF Pool!Conclude, Pool!Next
<1>5. \/ pc # "exit" /\ pc' # "exit"
      \/ VforkFails \/ InputError
      \/ NoChildren /\ pc' = "exit"
  BY DEF Declined, Ask, VforkReturns, NoneReady, NoChildren, EndOfInput
<1> QED
  BY <1>2, <1>3, <1>4, <1>5

(* Every step is one of the pool or none.                                  *)
LEMMA PoolStep == RunInv /\ [Next]_vars => [Pool!Next]_(Pool!vars)
<1> SUFFICES ASSUME RunInv, [Next]_vars PROVE [Pool!Next]_(Pool!vars)
  OBVIOUS
<1>1. CASE UNCHANGED vars
  BY <1>1 DEF vars, Pool!vars, PoolOutcome, PoolVerdict
<1>2. ASSUME NEW k \in DOMAIN kids, Child(k) PROVE [Pool!Next]_(Pool!vars)
  BY <1>2, ChildStutters
<1>3. ASSUME NEW k \in DOMAIN kids, Reap(k) PROVE [Pool!Next]_(Pool!vars)
  BY <1>3, ReapFinishes DEF Pool!Next
<1>4. CASE Vfork
  BY <1>4, VforkStarts DEF Pool!Next
<1> QED
  BY <1>1, <1>2, <1>3, <1>4, ParentOnlyConcludes, Steps

(* xargs -P runs its commands as the pool promises.                        *)
THEOREM RefinesPool == Spec => ImplementsPool
<1>1. Init => Pool!Init
  BY DEF Init, Pool!Init, PoolOutcome, PoolVerdict
<1>2. RunInv /\ [Next]_vars => [Pool!Next]_(Pool!vars)
  BY PoolStep
<1> QED
  BY <1>1, <1>2, RunInvariance, PTL DEF Spec, SafeSpec, ImplementsPool, Pool!Spec
=============================================================================
