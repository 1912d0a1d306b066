-------------------------- MODULE ExecBatch_proofs --------------------------
(***************************************************************************)
(* What ExecBatch keeps for every set of paths, every buffer and any       *)
(* number of paths, and what find's loop (FindLoop), which has any number  *)
(* of such execs, keeps for every hierarchy and every plan.                *)
(***************************************************************************)
EXTENDS ExecBatch, FindLoop, SequenceFacts, TLAPS

(* An exec whose status is the last that was not 0. *)
Preserved(e) ==
  /\ e.rval = 0 => \A k \in DOMAIN e.ran : e.ran[k].status = 0
  /\ e.rval # 0 => \E k \in DOMAIN e.ran :
                     /\ e.ran[k].status = e.rval
                     /\ \A j \in k + 1 .. Len(e.ran) : e.ran[j].status = 0

Good(e) == e \in Batch /\ Preserved(e)

(* The fields of an exec after its command was run. *)
LEMMA RunExecFields ==
  ASSUME NEW e \in Batch, NEW status
  PROVE  /\ RunExec(e, status).size = e.size
         /\ RunExec(e, status).args = <<>>
         /\ RunExec(e, status).p = 0
         /\ RunExec(e, status).rval = IF status # 0 THEN status ELSE e.rval
         /\ RunExec(e, status).sent = e.sent \o e.args
         /\ RunExec(e, status).ran = Append(e.ran, [n |-> Len(e.args), status |-> status])
BY DEF RunExec, Batch

(* After its command was run an exec is good. *)
LEMMA RunExecGood ==
  ASSUME NEW e, Good(e), NEW status \in Statuses
  PROVE  Good(RunExec(e, status))
<1>0. PICK f : f = RunExec(e, status)
  OBVIOUS
<1> DEFINE c == [n |-> Len(e.args), status |-> status]
<1>1. e \in Batch /\ status \in -1 .. 255
  BY StatusAssumption DEF Good
<1>2. /\ f.size = e.size /\ f.args = <<>> /\ f.p = 0
      /\ f.rval = IF status # 0 THEN status ELSE e.rval
      /\ f.sent = e.sent \o e.args
      /\ f.ran = Append(e.ran, c)
  BY <1>0, <1>1, RunExecFields
<1>3. e.args \in Seq(Paths) /\ e.sent \in Seq(Paths)
      /\ e.ran \in Seq([n : Nat, status : -1 .. 255]) /\ e.size \in BufSizes
      /\ e.rval \in -1 .. 255
  BY <1>1 DEF Batch
<1>4. c \in [n : Nat, status : -1 .. 255] /\ c.status = status
  BY <1>1, <1>3
<1>5. f \in Batch
  <2>1. e.sent \o e.args \in Seq(Paths)
    BY <1>3
  <2>2. Append(e.ran, c) \in Seq([n : Nat, status : -1 .. 255])
    BY <1>3, <1>4
  <2>3. (IF status # 0 THEN status ELSE e.rval) \in -1 .. 255
    BY <1>1, <1>3
  <2> DEFINE value == IF status # 0 THEN status ELSE e.rval
             sent == e.sent \o e.args
             ran == Append(e.ran, c)
  <2>4. f = [size |-> e.size, args |-> <<>>, p |-> 0, rval |-> value,
             sent |-> sent, ran |-> ran]
    BY <1>0, <1>1 DEF RunExec, Batch
  <2>5. <<>> \in Seq(Paths) /\ 0 \in Nat
    OBVIOUS
  <2>6. sent \in Seq(Paths) /\ value \in -1 .. 255
        /\ ran \in Seq([n : Nat, status : -1 .. 255])
    BY <2>1, <2>2, <2>3
  <2> HIDE DEF sent, value, ran
  <2> QED
    BY <1>3, <2>4, <2>5, <2>6 DEF Batch
<1>6. /\ Len(f.ran) = Len(e.ran) + 1 /\ Len(e.ran) \in Nat
      /\ f.ran[Len(e.ran) + 1] = c
      /\ \A k \in 1 .. Len(e.ran) : f.ran[k] = e.ran[k]
      /\ DOMAIN f.ran = 1 .. Len(e.ran) + 1 /\ DOMAIN e.ran = 1 .. Len(e.ran)
  BY <1>2, <1>3, <1>4
<1>7. Preserved(f)
  <2>1. CASE status # 0
    <3>1. f.rval = status /\ f.ran[Len(e.ran) + 1].status = f.rval
      BY <1>2, <1>4, <1>6, <2>1
    <3> QED
      BY <1>6, <2>1, <3>1 DEF Preserved
  <2>2. CASE status = 0 /\ e.rval = 0
    BY <1>2, <1>4, <1>6, <2>2 DEF Good, Preserved
  <2>3. CASE status = 0 /\ e.rval # 0
    <3>1. PICK k \in DOMAIN e.ran :
            /\ e.ran[k].status = e.rval
            /\ \A j \in k + 1 .. Len(e.ran) : e.ran[j].status = 0
      BY <2>3 DEF Good, Preserved
    <3>2. \A j \in k + 1 .. Len(f.ran) : f.ran[j].status = 0
      BY <1>4, <1>6, <2>3, <3>1
    <3>3. k \in DOMAIN f.ran /\ f.ran[k] = e.ran[k] /\ f.rval = e.rval
      BY <1>2, <1>6, <2>3, <3>1
    <3> QED
      BY <2>3, <3>1, <3>2, <3>3 DEF Preserved
  <2> QED
    BY <2>1, <2>2, <2>3
<1> QED
  BY <1>0, <1>5, <1>7 DEF Good

(* The fields of an exec that has taken one path more. *)
LEMMA CopiedFields ==
  ASSUME NEW e, Good(e), NEW path \in Paths, NEW f, f = Copied(e, path)
  PROVE  /\ Good(f)
         /\ f.size = e.size /\ f.sent = e.sent /\ f.ran = e.ran
         /\ f.args = Append(e.args, path)
         /\ f.p = e.p + PathLen[path] + 1
         /\ PathLen[path] \in Nat
<1>1. e \in Batch /\ PathLen[path] \in Nat
  BY PathAssumption DEF Good
<1>2. /\ f.size = e.size /\ f.sent = e.sent /\ f.rval = e.rval /\ f.ran = e.ran
      /\ f.args = Append(e.args, path) /\ f.p = e.p + PathLen[path] + 1
  BY <1>1 DEF Copied, Batch
<1>3. Append(e.args, path) \in Seq(Paths) /\ e.p + PathLen[path] + 1 \in Nat
  BY <1>1 DEF Batch
<1>4. f \in Batch
  BY <1>1, <1>3 DEF Copied, Batch
<1> QED
  BY <1>1, <1>2, <1>4 DEF Good, Preserved

-----------------------------------------------------------------------------
(* The inductive invariant: all the properties together. *)
IInv ==
  /\ TypeOK /\ EachPathOnce /\ NargInBounds /\ BytesInBounds /\ StatusPreserved

(* The record of a -exec ... + is as the functions of ExecBuffer need it.  *)
LEMMA InvGood == ASSUME IInv PROVE Good(ep)
BY DEF IInv, TypeOK, StatusPreserved, Good, Preserved

(* The invariant of the buffer holds when the plan is made.                *)
LEMMA InitInv == Init => IInv
<1> SUFFICES ASSUME Init PROVE IInv
  OBVIOUS
<1>1. PICK size \in BufSizes : ep = NewBatch(size)
  BY DEF Init
<1>2. /\ ep.args = <<>> /\ ep.p = 0 /\ ep.rval = 0 /\ ep.sent = <<>>
      /\ ep.ran = <<>> /\ ep.size = size /\ ep \in Batch
  BY <1>1 DEF NewBatch, Batch
<1>3. size \in Nat \ {0} /\ MaxArgs \in Nat \ {0, 1} /\ MaxPaths \in Nat
  BY BufferAssumption, MaxPathsAssumption
<1>4. given = <<>> /\ pc = "collect"
  BY DEF Init
<1>5. TypeOK /\ EachPathOnce /\ NargInBounds /\ BytesInBounds
  BY <1>2, <1>3, <1>4 DEF TypeOK, EachPathOnce, NargInBounds, SlotsKept, BytesInBounds
<1>6. StatusPreserved
  BY <1>2 DEF StatusPreserved
<1> QED
  BY <1>5, <1>6 DEF IInv

(* What is sent and what waits, after one path more or after a command. *)
LEMMA SentMoves ==
  ASSUME NEW sent \in Seq(Paths), NEW args \in Seq(Paths), NEW path \in Paths
  PROVE  /\ sent \o Append(args, path) = Append(sent \o args, path)
         /\ (sent \o args) \o <<>> = sent \o args
         /\ (sent \o args) \o Append(<<>>, path) = Append(sent \o args, path)
         /\ (sent \o Append(args, path)) \o <<>> = Append(sent \o args, path)
OBVIOUS

(* The command of an exec that has no more paths than slots. *)
LEMMA RunExecSlots ==
  ASSUME NEW e, Good(e), NEW status \in Statuses, Len(e.args) <= MaxArgs,
         \A k \in DOMAIN e.ran : e.ran[k].n <= MaxArgs
  PROVE  SlotsKept(RunExec(e, status))
<1>0. PICK f : f = RunExec(e, status)
  OBVIOUS
<1> DEFINE c == [n |-> Len(e.args), status |-> status]
<1>1. e \in Batch /\ status \in -1 .. 255 /\ MaxArgs \in Nat \ {0, 1}
  BY StatusAssumption, BufferAssumption DEF Good
<1>2. f.args = <<>> /\ f.ran = Append(e.ran, c)
  BY <1>0, <1>1, RunExecFields
<1>3. e.ran \in Seq([n : Nat, status : -1 .. 255]) /\ e.args \in Seq(Paths)
  BY <1>1 DEF Batch
<1>4. c \in [n : Nat, status : -1 .. 255] /\ c.n = Len(e.args)
  BY <1>1, <1>3
<1> HIDE DEF c
<1>5. ASSUME NEW k \in DOMAIN f.ran PROVE f.ran[k].n <= MaxArgs
  <2>1. /\ DOMAIN f.ran = 1 .. Len(e.ran) + 1 /\ DOMAIN e.ran = 1 .. Len(e.ran)
        /\ Len(e.ran) \in Nat /\ f.ran[Len(e.ran) + 1] = c
        /\ \A j \in 1 .. Len(e.ran) : f.ran[j] = e.ran[j]
    BY <1>2, <1>3, <1>4
  <2>2. CASE k = Len(e.ran) + 1
    BY <1>4, <2>1, <2>2
  <2>3. CASE k # Len(e.ran) + 1
    <3>1. k \in DOMAIN e.ran /\ f.ran[k] = e.ran[k]
      BY <2>1, <2>3
    <3> QED
      BY <3>1
  <2> QED
    BY <2>2, <2>3
<1>6. Len(f.args) < MaxArgs
  BY <1>1, <1>2
<1> QED
  BY <1>0, <1>5, <1>6 DEF SlotsKept

(***************************************************************************)
(* One path more: with room it is copied, and the command is run if these  *)
(* are ep_maxargs; without, the command is run and the path starts anew.   *)
(***************************************************************************)
LEMMA CollectKeeps ==
  ASSUME NEW e, Good(e), SlotsKept(e),
         NEW path \in Paths, NEW status \in Statuses
  PROVE  /\ Good(CollectPath(e, path, status))
         /\ CollectPath(e, path, status).sent \o CollectPath(e, path, status).args
              = Append(e.sent \o e.args, path)
         /\ SlotsKept(CollectPath(e, path, status))
         /\ CollectPath(e, path, status).size = e.size
         /\ PathLen[path] <= e.size
              => CollectPath(e, path, status).p <= CollectPath(e, path, status).size + 1
<1>0. PICK f : f = CollectPath(e, path, status)
  OBVIOUS
<1> SUFFICES
      /\ Good(f) /\ f.sent \o f.args = Append(e.sent \o e.args, path)
      /\ SlotsKept(f) /\ f.size = e.size
      /\ PathLen[path] <= e.size => f.p <= f.size + 1
  BY <1>0
<1>1. PICK more : more = Copied(e, path)
  OBVIOUS
<1>2. /\ Good(more) /\ more \in Batch /\ more.size = e.size /\ more.sent = e.sent
      /\ more.args = Append(e.args, path) /\ more.p = e.p + PathLen[path] + 1
      /\ PathLen[path] \in Nat /\ more.ran = e.ran
  BY <1>1, CopiedFields DEF Good
<1>8. Len(e.args) < MaxArgs /\ \A k \in DOMAIN e.ran : e.ran[k].n <= MaxArgs
  BY DEF SlotsKept
<1>3. /\ e.args \in Seq(Paths) /\ e.sent \in Seq(Paths) /\ e.p \in Nat
      /\ e.size \in Nat \ {0} /\ MaxArgs \in Nat \ {0, 1} /\ e \in Batch
  BY BufferAssumption DEF Good, Batch
<1>4. /\ Len(Append(e.args, path)) = Len(e.args) + 1 /\ Len(e.args) \in Nat
      /\ Len(Append(<<>>, path)) = 1 /\ Len(<<>>) = 0
  BY <1>3
<1>5. CASE Fits(e, path) /\ Len(more.args) = MaxArgs
  <2>1. f = RunExec(more, status)
    BY <1>0, <1>1, <1>5 DEF CollectPath
  <2>2. Good(f)
    BY <1>2, <2>1, RunExecGood
  <2>3. f.size = more.size /\ f.args = <<>> /\ f.p = 0 /\ f.sent = more.sent \o more.args
    BY <1>2, <2>1, RunExecFields
  <2>4. (e.sent \o Append(e.args, path)) \o <<>> = Append(e.sent \o e.args, path)
    BY <1>3, SentMoves
  <2>5. f.sent \o f.args = Append(e.sent \o e.args, path)
    BY <1>2, <2>3, <2>4, Zenon
  <2>6. f.size = e.size /\ f.p <= f.size + 1
    BY <1>2, <1>3, <1>4, <2>3
  <2>7. SlotsKept(f)
    BY <1>2, <1>3, <1>5, <1>8, <2>1, RunExecSlots
  <2> QED
    BY <2>2, <2>5, <2>6, <2>7
<1>6. CASE Fits(e, path) /\ Len(more.args) # MaxArgs
  <2>1. f = more
    BY <1>0, <1>1, <1>6 DEF CollectPath
  <2>2. f.p <= f.size + 1
    BY <1>2, <1>3, <1>6, <2>1 DEF Fits, Ebp
  <2>3. e.sent \o Append(e.args, path) = Append(e.sent \o e.args, path)
    BY <1>3, SentMoves
  <2>4. f.sent \o f.args = Append(e.sent \o e.args, path)
    BY <1>2, <2>1, <2>3, Zenon
  <2>5. SlotsKept(f)
    BY <1>2, <1>3, <1>4, <1>6, <1>8, <2>1 DEF SlotsKept
  <2> QED
    BY <1>2, <2>1, <2>2, <2>4, <2>5
<1>7. CASE ~Fits(e, path)
  <2>1. PICK flushed : flushed = RunExec(e, status)
    OBVIOUS
  <2>2. f = Copied(flushed, path)
    BY <1>0, <1>7, <2>1 DEF CollectPath
  <2>3. Good(flushed)
    BY <2>1, RunExecGood
  <2>4. /\ flushed.size = e.size /\ flushed.args = <<>> /\ flushed.p = 0
        /\ flushed.sent = e.sent \o e.args
    BY <1>3, <2>1, RunExecFields
  <2>5. /\ Good(f) /\ f.size = flushed.size /\ f.sent = flushed.sent
        /\ f.args = Append(flushed.args, path)
        /\ f.p = flushed.p + PathLen[path] + 1
    BY <2>2, <2>3, CopiedFields
  <2>6. (e.sent \o e.args) \o Append(<<>>, path) = Append(e.sent \o e.args, path)
    BY <1>3, SentMoves
  <2>7. f.sent \o f.args = Append(e.sent \o e.args, path)
    BY <2>4, <2>5, <2>6, Zenon
  <2>8. PathLen[path] <= e.size => f.p <= f.size + 1
    BY <1>2, <1>3, <1>4, <2>4, <2>5
  <2>9. SlotsKept(f)
    <3>1. SlotsKept(flushed)
      BY <1>3, <1>8, <2>1, RunExecSlots
    <3>2. f.ran = flushed.ran
      BY <2>2, <2>3, CopiedFields
    <3> QED
      BY <1>3, <1>4, <2>4, <2>5, <3>1, <3>2 DEF SlotsKept
  <2> QED
    BY <2>4, <2>5, <2>7, <2>8, <2>9
<1> QED
  BY <1>5, <1>6, <1>7

-----------------------------------------------------------------------------
(* Every step keeps the invariant of the buffer.                           *)
LEMMA StepInv == IInv /\ [Next]_vars => IInv'
<1> SUFFICES ASSUME IInv, [Next]_vars PROVE IInv'
  OBVIOUS
<1>1. /\ Good(ep) /\ ep \in Batch /\ given \in Seq(Paths) /\ Len(given) <= MaxPaths
      /\ pc \in {"collect", "done", "error"}
  BY InvGood DEF IInv, TypeOK
<1>2. /\ given = ep.sent \o ep.args /\ SlotsKept(ep)
      /\ PathsFit => ep.p <= ep.size + 1
      /\ pc = "done" => ep.args = <<>>
  BY DEF IInv, EachPathOnce, NargInBounds, BytesInBounds
<1>3. /\ ep.args \in Seq(Paths) /\ ep.sent \in Seq(Paths) /\ ep.p \in Nat
      /\ ep.size \in Nat \ {0} /\ MaxArgs \in Nat \ {0, 1} /\ MaxPaths \in Nat
  BY <1>1, BufferAssumption, MaxPathsAssumption DEF Batch
(* A command is run: what waited is sent. *)
<1>4. ASSUME NEW status \in Statuses, ep' = RunExec(ep, status), UNCHANGED given,
             pc' \in {"done", "error"}
      PROVE  IInv'
  <2>1. Good(ep') /\ ep'.size = ep.size /\ ep'.args = <<>> /\ ep'.p = 0
        /\ ep'.sent = ep.sent \o ep.args
    BY <1>1, <1>4, RunExecGood, RunExecFields
  <2>2. given' = ep'.sent \o ep'.args
    <3>1. (ep.sent \o ep.args) \o <<>> = ep.sent \o ep.args
      BY <1>3
    <3> QED
      BY <1>2, <1>4, <2>1, <3>1
  <2>3. TypeOK' /\ StatusPreserved'
    BY <1>1, <1>4, <2>1 DEF TypeOK, StatusPreserved, Good, Preserved
  <2>4. NargInBounds'
    <3>1. SlotsKept(RunExec(ep, status))
      BY <1>1, <1>2, <1>3, RunExecSlots DEF SlotsKept
    <3> QED
      BY <1>4, <3>1 DEF NargInBounds, SlotsKept
  <2> QED
    BY <1>3, <2>1, <2>2, <2>3, <2>4 DEF IInv, EachPathOnce, BytesInBounds, PathsFit
<1>5. CASE Evaluate
  <2>1. PICK path \in Paths, status \in Statuses :
          /\ pc = "collect" /\ Len(given) < MaxPaths
          /\ given' = Append(given, path)
          /\ ep' = CollectPath(ep, path, status)
          /\ pc' = pc
    BY <1>5 DEF Evaluate
  <2>2. /\ Good(ep') /\ ep'.sent \o ep'.args = Append(ep.sent \o ep.args, path)
        /\ SlotsKept(ep)' /\ ep'.size = ep.size
        /\ PathLen[path] <= ep.size => ep'.p <= ep'.size + 1
    BY <1>1, <1>2, <2>1, CollectKeeps DEF SlotsKept
  <2>3. EachPathOnce' /\ NargInBounds'
    BY <1>2, <2>1, <2>2 DEF EachPathOnce, NargInBounds
  <2>4. BytesInBounds'
    BY <2>2 DEF BytesInBounds, PathsFit
  <2>5. TypeOK'
    BY <1>1, <1>3, <2>1, <2>2 DEF TypeOK, Good
  <2>6. StatusPreserved'
    BY <2>2 DEF StatusPreserved, Good, Preserved
  <2> QED
    BY <2>3, <2>4, <2>5, <2>6 DEF IInv
<1>6. CASE EvaluateFails
  BY <1>4, <1>6 DEF EvaluateFails
<1>7. CASE VforkFails
  BY <1>1, <1>2, <1>7 DEF VforkFails, IInv, TypeOK, EachPathOnce, NargInBounds,
     SlotsKept, BytesInBounds, PathsFit, StatusPreserved
<1>8. CASE Finish
  <2>1. PICK status \in Statuses :
          pc = "collect" /\ ep' = CleanUp(ep, status) /\ pc' = "done" /\ given' = given
    BY <1>8 DEF Finish
  <2>2. CASE ep.args # <<>>
    BY <1>4, <2>1, <2>2 DEF CleanUp
  <2>3. CASE ep.args = <<>>
    <3>1. ep' = ep
      BY <2>1, <2>3 DEF CleanUp
    <3> QED
      BY <2>1, <2>3, <3>1 DEF IInv, TypeOK, EachPathOnce, NargInBounds, SlotsKept, BytesInBounds,
         PathsFit, StatusPreserved
  <2> QED
    BY <2>2, <2>3
<1>9. CASE UNCHANGED vars
  BY <1>9 DEF vars, IInv, TypeOK, EachPathOnce, NargInBounds, SlotsKept, BytesInBounds,
     PathsFit, StatusPreserved
<1> QED
  BY <1>5, <1>6, <1>7, <1>8, <1>9 DEF Next

(* All of it holds in every state. *)
THEOREM BatchInv == Spec => []IInv
<1>1. IInv /\ [Next]_vars => IInv'
  BY StepInv
<1> QED
  BY InitInv, <1>1, PTL DEF Spec

(* The state of an exec keeps its type, for every path and status. *)
THEOREM BatchTypeCorrect == Spec => []TypeOK
<1>1. IInv => TypeOK
  BY DEF IInv
<1> QED
  BY BatchInv, <1>1, PTL

(* Each path for which the primary is evaluated is given to one command or *)
(* waits for the next, in order; none waits when find is done.             *)
THEOREM PathsDelivered == Spec => []EachPathOnce
<1>1. IInv => EachPathOnce
  BY DEF IInv
<1> QED
  BY BatchInv, <1>1, PTL

(* Each path is stored in one of the ep_maxargs slots, also while its      *)
(* command is run, and one of them is free for the next (function.c:564,   *)
(* 567, 578). *)
THEOREM NargBounded == Spec => []NargInBounds
<1>1. IInv => NargInBounds
  BY DEF IInv
<1> QED
  BY BatchInv, <1>1, PTL

(* If each path fits an empty buffer, none is stored outside it.           *)
THEOREM BytesBounded == Spec => []BytesInBounds
<1>1. IInv => BytesInBounds
  BY DEF IInv
<1> QED
  BY BatchInv, <1>1, PTL

(* ep_rval is the status of the last command that failed (function.c:665). *)
THEOREM StatusKept == Spec => []StatusPreserved
<1>1. IInv => StatusPreserved
  BY DEF IInv
<1> QED
  BY BatchInv, <1>1, PTL

-----------------------------------------------------------------------------
(***************************************************************************)
(* That commands are full.  BatchesAreFull is not inductive: it needs that *)
(* ep_p counts the bytes of the paths that wait, that the commands share   *)
(* out what was sent, and, as long as find collects, that a command that   *)
(* is not full has been followed by the path it had no room for.           *)
(***************************************************************************)
Upto(e, k) == Total([j \in 1 .. k |-> e.ran[j].n])
Mine(e, k) == SubSeq(e.sent, Upto(e, k - 1) + 1, Upto(e, k))
NoRoom(e, k, paths) ==
  /\ Upto(e, k) + 1 <= Len(paths)
  /\ Bytes(Mine(e, k)) + PathLen[paths[Upto(e, k) + 1]] >= Ebp(e)
Full(e, k, paths) == Len(Mine(e, k)) = MaxArgs \/ NoRoom(e, k, paths)

Shared(e) ==
  /\ \A k \in 0 .. Len(e.ran) : Upto(e, k) \in Nat /\ Upto(e, k) <= Len(e.sent)
  /\ Upto(e, Len(e.ran)) = Len(e.sent)
  /\ e.p = Bytes(e.args)

FullInv ==
  /\ Shared(ep)
  /\ pc = "collect" => \A k \in DOMAIN ep.ran : Full(ep, k, given)
  /\ BatchesAreFull

(* The bytes of no path, and of one path more. *)
LEMMA BytesEmpty == Bytes(<<>>) = 0
<1>1. [j \in DOMAIN <<>> |-> PathLen[<<>>[j]] + 1] = <<>>
  OBVIOUS
<1> QED
  BY <1>1, TotalEmpty DEF Bytes

(* A name more is as many bytes more as it takes.                          *)
LEMMA BytesAppend ==
  ASSUME NEW paths \in Seq(Paths), NEW path \in Paths
  PROVE  /\ Bytes(paths) \in Nat
         /\ Bytes(Append(paths, path)) = Bytes(paths) + PathLen[path] + 1
<1> DEFINE more == Append(paths, path)
           n == Len(paths)
           old == [j \in DOMAIN paths |-> PathLen[paths[j]] + 1]
           t == [j \in DOMAIN more |-> PathLen[more[j]] + 1]
           e == PathLen[path] + 1
<1>1. /\ n \in Nat /\ DOMAIN paths = 1 .. n /\ DOMAIN more = 1 .. n + 1
      /\ more[n + 1] = path /\ \A j \in 1 .. n : more[j] = paths[j] /\ paths[j] \in Paths
  OBVIOUS
<1>2. \A p \in Paths : PathLen[p] \in Nat
  BY PathAssumption
<1> HIDE DEF n, more
<1>3. old \in Seq(Nat) /\ Len(old) = n /\ e \in Nat
  BY <1>1, <1>2
<1>4. t \in Seq(Nat) /\ Len(t) = n + 1
  BY <1>1, <1>2
<1>5. t[n + 1] = e /\ \A j \in 1 .. n : t[j] = old[j]
  BY <1>1
<1> HIDE DEF old, t, e
<1>6. t = Append(old, e)
  BY <1>1, <1>3, <1>4, <1>5
<1>7. Total(old) \in Nat /\ Total(t) = Total(old) + e
  BY <1>3, <1>6, TotalAppend
<1>8. Bytes(paths) = Total(old) /\ Bytes(more) = Total(t) /\ e = PathLen[path] + 1
  BY DEF Bytes, old, t, e
<1>9. PathLen[path] \in Nat
  BY <1>2
<1> QED
  BY <1>7, <1>8, <1>9 DEF more

(* A command that is run takes its share from what is sent then, and the   *)
(* commands before it keep theirs.                                         *)
LEMMA RunExecShares ==
  ASSUME NEW e \in Batch, Shared(e), NEW status \in Statuses,
         NEW f, f = RunExec(e, status)
  PROVE  /\ Shared(f) /\ Len(e.ran) \in Nat /\ Len(f.ran) = Len(e.ran) + 1
         /\ f.size = e.size
         /\ \A k \in 1 .. Len(e.ran) : Upto(f, k) = Upto(e, k) /\ Mine(f, k) = Mine(e, k)
         /\ Upto(f, Len(e.ran) + 1) = Len(e.sent) + Len(e.args)
         /\ Mine(f, Len(e.ran) + 1) = e.args
<1> DEFINE n == Len(e.ran)
           c == [n |-> Len(e.args), status |-> status]
<1>0. f.size = e.size
  BY RunExecFields
<1>1. /\ f.args = <<>> /\ f.p = 0 /\ f.sent = e.sent \o e.args
      /\ f.ran = Append(e.ran, c)
  BY RunExecFields
<1>2. /\ e.args \in Seq(Paths) /\ e.sent \in Seq(Paths)
      /\ e.ran \in Seq([n : Nat, status : -1 .. 255]) /\ n \in Nat
      /\ Len(e.args) \in Nat /\ Len(e.sent) \in Nat
  BY DEF Batch
<1>3. n \in Nat /\ Len(e.args) \in Nat /\ Len(e.sent) \in Nat
  BY <1>2
<1> HIDE DEF c, n
<1>4. /\ Len(f.ran) = n + 1 /\ f.ran[n + 1].n = Len(e.args)
      /\ \A j \in 1 .. n : f.ran[j].n = e.ran[j].n /\ e.ran[j].n \in Nat
  <2>1. c \in [n : Nat, status : -1 .. 255] /\ c.n = Len(e.args)
    BY <1>3, StatusAssumption DEF c
  <2>2. f.ran[n + 1] = c /\ Len(f.ran) = n + 1 /\ \A j \in 1 .. n : f.ran[j] = e.ran[j]
    BY <1>1, <1>2, <2>1, AppendProperties DEF n
  <2>3. \A j \in 1 .. n : e.ran[j] \in [n : Nat, status : -1 .. 255]
    BY <1>2, ElementOfSeq DEF n
  <2> QED
    BY <2>1, <2>2, <2>3
<1>5. \A k \in 0 .. n : Upto(f, k) = Upto(e, k)
  <2> TAKE k \in 0 .. n
  <2>1. \A j \in 1 .. k : f.ran[j].n = e.ran[j].n
    BY <1>3, <1>4
  <2>2. [j \in 1 .. k |-> f.ran[j].n] = [j \in 1 .. k |-> e.ran[j].n]
    BY <2>1
  <2> QED
    BY <2>2 DEF Upto
<1>6. Upto(f, n + 1) = Upto(e, n) + Len(e.args)
  <2> DEFINE before == [j \in 1 .. n |-> e.ran[j].n]
             t == [j \in 1 .. n + 1 |-> f.ran[j].n]
  <2>1. before \in Seq(Nat) /\ Len(before) = n
    <3>1. \A j \in 1 .. n : e.ran[j].n \in Nat
      BY <1>4
    <3> QED
      BY <1>3, <3>1
  <2>2. t \in Seq(Nat) /\ Len(t) = n + 1
    <3>1. \A j \in 1 .. n + 1 : j \in 1 .. n \/ j = n + 1
      BY <1>3
    <3>2. \A j \in 1 .. n + 1 : f.ran[j].n \in Nat
      BY <1>3, <1>4, <3>1
    <3> QED
      BY <1>3, <3>2
  <2>3. t[n + 1] = Len(e.args) /\ \A j \in 1 .. n : t[j] = before[j]
    BY <1>3, <1>4
  <2> HIDE DEF before, t
  <2>4. t = Append(before, Len(e.args))
    BY <1>3, <2>1, <2>2, <2>3
  <2>5. Total(t) = Total(before) + Len(e.args)
    BY <1>3, <2>1, <2>4, TotalAppend
  <2> QED
    BY <2>5 DEF Upto, before, t
<1>7. /\ Upto(e, n) = Len(e.sent)
      /\ \A k \in 0 .. n : Upto(e, k) \in Nat /\ Upto(e, k) <= Len(e.sent)
  BY DEF Shared, n
<1>8. Len(f.sent) = Len(e.sent) + Len(e.args)
  BY <1>1, <1>2
<1>9. Shared(f)
  <2> DEFINE u == Len(e.sent)
             v == Len(e.args)
  <2>0. u \in Nat /\ v \in Nat /\ Len(f.sent) = u + v
    BY <1>3, <1>8
  <2>1. ASSUME NEW k \in 0 .. n + 1 PROVE Upto(f, k) \in Nat /\ Upto(f, k) <= Len(f.sent)
    <3>1. CASE k \in 0 .. n
      <4>1. Upto(f, k) = Upto(e, k) /\ Upto(e, k) \in Nat /\ Upto(e, k) <= u
        BY <1>5, <1>7, <3>1
      <4> HIDE DEF u, v
      <4> QED
        BY <2>0, <4>1
    <3>2. CASE k = n + 1
      <4>1. Upto(f, k) = u + v
        BY <1>6, <1>7, <3>2
      <4> HIDE DEF u, v
      <4> QED
        BY <2>0, <4>1
    <3> QED
      BY <1>3, <3>1, <3>2
  <2>2. Upto(f, n + 1) = Len(f.sent) /\ f.p = Bytes(f.args)
    BY <1>1, <1>6, <1>7, <1>8, BytesEmpty
  <2> QED
    BY <1>4, <2>1, <2>2 DEF Shared
<1>10. \A k \in 1 .. n : Mine(f, k) = Mine(e, k)
  <2> TAKE k \in 1 .. n
  <2>1. k - 1 \in 0 .. n /\ k \in 0 .. n
    BY <1>3
  <2> DEFINE a == Upto(e, k - 1) + 1
             b == Upto(e, k)
  <2>2. a \in Nat \ {0} /\ b \in Nat /\ b <= Len(e.sent)
    BY <1>7, <2>1
  <2>3. Upto(f, k - 1) + 1 = a /\ Upto(f, k) = b
    BY <1>5, <2>1
  <2> HIDE DEF a, b
  <2>4. SubSeq(e.sent \o e.args, a, b) = SubSeq(e.sent, a, b)
    <3>1. e.sent \in Seq(Paths) /\ e.args \in Seq(Paths)
      BY <1>2
    <3> DEFINE x == e.sent
               y == e.args
    <3> HIDE DEF x, y
    <3>2. x \in Seq(Paths) /\ y \in Seq(Paths) /\ b <= Len(x)
      BY <2>2, <3>1 DEF x, y
    <3>3. SubSeq(x \o y, a, b) = SubSeq(x, a, b)
      BY <2>2, <3>2, ConcatParts
    <3> QED
      BY <3>3 DEF x, y
  <2> QED
    BY <1>1, <2>3, <2>4 DEF Mine, a, b
<1>11. Mine(f, n + 1) = e.args
  <2>1. (n + 1) - 1 = n /\ n \in 0 .. n
    BY <1>3
  <2>2. Mine(f, n + 1) = SubSeq(e.sent \o e.args, Len(e.sent) + 1, Len(e.sent) + Len(e.args))
    BY <1>1, <1>5, <1>6, <1>7, <2>1 DEF Mine
  <2>3. SubSeq(e.sent \o e.args, Len(e.sent) + 1, Len(e.sent) + Len(e.args)) = e.args
    BY <1>2, ConcatParts, Zenon
  <2> QED
    BY <2>2, <2>3
<1>12. Upto(f, n + 1) = Len(e.sent) + Len(e.args)
  BY <1>6, <1>7
<1>13. \A k \in 1 .. n : Upto(f, k) = Upto(e, k)
  BY <1>3, <1>5
<1> QED
  BY <1>0, <1>3, <1>4, <1>9, <1>10, <1>11, <1>12, <1>13 DEF n

(* A path that is copied changes no share. *)
LEMMA CopiedShares ==
  ASSUME NEW e, Good(e), Shared(e), NEW path \in Paths, NEW f, f = Copied(e, path)
  PROVE  /\ Shared(f) /\ f.ran = e.ran
         /\ \A k : Upto(f, k) = Upto(e, k) /\ Mine(f, k) = Mine(e, k)
<1>1. f.ran = e.ran /\ e.args \in Seq(Paths)
  BY DEF Copied, Good, Batch
<1>2. /\ f.sent = e.sent /\ f.args = Append(e.args, path)
      /\ f.p = e.p + PathLen[path] + 1 /\ PathLen[path] \in Nat
  BY CopiedFields
<1>3. \A k : Upto(f, k) = Upto(e, k)
  BY <1>1 DEF Upto
<1>4. \A k : Mine(f, k) = Mine(e, k)
  BY <1>2, <1>3 DEF Mine
<1>5. f.p = Bytes(f.args)
  BY <1>1, <1>2, BytesAppend DEF Shared
<1> QED
  BY <1>1, <1>2, <1>3, <1>4, <1>5 DEF Shared

(* A command that is full stays so when another path follows. *)
LEMMA FullStays ==
  ASSUME NEW e, NEW f, NEW k, NEW paths \in Seq(Paths), NEW path \in Paths,
         Full(e, k, paths), Upto(e, k) \in Nat,
         f.size = e.size, Upto(f, k) = Upto(e, k), Mine(f, k) = Mine(e, k)
  PROVE  Full(f, k, Append(paths, path))
<1> DEFINE next == Upto(e, k) + 1
<1>1. CASE Len(Mine(e, k)) = MaxArgs
  BY <1>1 DEF Full
<1>2. CASE NoRoom(e, k, paths)
  <2>1. next \in 1 .. Len(paths) /\ Len(paths) \in Nat
    BY <1>2 DEF NoRoom
  <2>2. Append(paths, path)[next] = paths[next] /\ next <= Len(Append(paths, path))
    BY <2>1
  <2> QED
    BY <1>2, <2>2 DEF Full, NoRoom, Ebp
<1> QED
  BY <1>1, <1>2 DEF Full

(* One path more: a command that is run for it is full. *)
Counts(e, paths) == Len(paths) = Len(e.sent) + Len(e.args)

(* A name that is collected leaves the commands full and the batch as it   *)
(* should be.                                                              *)
LEMMA CollectFull ==
  ASSUME NEW e, Good(e), Shared(e), NEW path \in Paths, NEW status \in Statuses,
         NEW paths \in Seq(Paths), Counts(e, paths),
         \A k \in 1 .. Len(e.ran) : Full(e, k, paths),
         NEW f, f = CollectPath(e, path, status)
  PROVE  Shared(f) /\ \A k \in 1 .. Len(f.ran) : Full(f, k, Append(paths, path))
<1> DEFINE n == Len(e.ran)
           all == Append(paths, path)
<1>1. PICK more : more = Copied(e, path)
  OBVIOUS
<1>2. /\ Good(more) /\ more \in Batch /\ more.size = e.size /\ more.sent = e.sent
      /\ more.args = Append(e.args, path) /\ more.p = e.p + PathLen[path] + 1
      /\ PathLen[path] \in Nat
  BY <1>1, CopiedFields DEF Good
<1>3. /\ Shared(more) /\ more.ran = e.ran
      /\ \A k : Upto(more, k) = Upto(e, k) /\ Mine(more, k) = Mine(e, k)
  BY <1>1, CopiedShares
<1>4. /\ e \in Batch /\ e.args \in Seq(Paths) /\ e.sent \in Seq(Paths) /\ n \in Nat
      /\ Len(e.sent) \in Nat /\ Len(e.args) \in Nat
  BY DEF Good, Batch
<1>5. all[Len(paths) + 1] = path /\ Len(all) = Len(paths) + 1 /\ Len(paths) \in Nat
  OBVIOUS
<1>6. \A k \in 1 .. n : Upto(e, k) \in Nat
  BY <1>4 DEF Shared
<1> HIDE DEF n, all
(* The commands before this call. *)
<1>7. ASSUME NEW k \in 1 .. n, NEW g, g.size = e.size,
             Upto(g, k) = Upto(e, k), Mine(g, k) = Mine(e, k)
      PROVE  Full(g, k, all)
  BY <1>4, <1>6, <1>7, FullStays DEF n, all
<1>8. CASE Fits(e, path) /\ Len(more.args) = MaxArgs
  <2>1. f = RunExec(more, status)
    BY <1>1, <1>8 DEF CollectPath
  <2>0. n = Len(more.ran)
    BY <1>3 DEF n
  <2>2. /\ Shared(f) /\ Len(f.ran) = n + 1 /\ Mine(f, n + 1) = more.args
        /\ f.size = more.size
        /\ \A k \in 1 .. n : Upto(f, k) = Upto(more, k) /\ Mine(f, k) = Mine(more, k)
    <3>1. /\ Shared(f) /\ Len(f.ran) = Len(more.ran) + 1
          /\ Mine(f, Len(more.ran) + 1) = more.args /\ f.size = more.size
          /\ \A k \in 1 .. Len(more.ran) : Upto(f, k) = Upto(more, k) /\ Mine(f, k) = Mine(more, k)
      BY <1>2, <1>3, <2>1, RunExecShares
    <3> QED
      BY <2>0, <3>1
  <2>3. f.size = e.size /\ \A k \in 1 .. n : Upto(f, k) = Upto(e, k) /\ Mine(f, k) = Mine(e, k)
    BY <1>2, <1>3, <2>2
  <2>4. Full(f, n + 1, all)
    BY <1>8, <2>2 DEF Full
  <2>5. \A k \in 1 .. n : Full(f, k, all)
    BY <1>7, <2>3
  <2> QED
    BY <1>4, <2>2, <2>4, <2>5 DEF n, all
<1>9. CASE Fits(e, path) /\ Len(more.args) # MaxArgs
  <2>1. f = more
    BY <1>1, <1>9 DEF CollectPath
  <2>2. \A k \in 1 .. n : Full(f, k, all)
    BY <1>2, <1>3, <1>7, <2>1
  <2> QED
    BY <1>3, <2>1, <2>2 DEF n, all
<1>10. CASE ~Fits(e, path)
  <2>1. PICK flushed : flushed = RunExec(e, status)
    OBVIOUS
  <2>2. f = Copied(flushed, path)
    BY <1>1, <1>10, <2>1 DEF CollectPath
  <2>3. /\ Good(flushed) /\ flushed.size = e.size
    BY <1>4, <2>1, RunExecGood, RunExecFields
  <2>4. /\ Shared(flushed) /\ Len(flushed.ran) = n + 1
        /\ Mine(flushed, n + 1) = e.args /\ Upto(flushed, n + 1) = Len(paths)
        /\ \A k \in 1 .. n : Upto(flushed, k) = Upto(e, k) /\ Mine(flushed, k) = Mine(e, k)
    BY <1>4, <2>1, RunExecShares DEF n, Counts
  <2>5. /\ Shared(f) /\ f.ran = flushed.ran
        /\ \A k : Upto(f, k) = Upto(flushed, k) /\ Mine(f, k) = Mine(flushed, k)
    BY <2>2, <2>3, <2>4, CopiedShares
  <2>6. f.size = e.size
    BY <2>2, <2>3, CopiedFields
  <2>7. Full(f, n + 1, all)
    <3>1. e.p + PathLen[path] >= Ebp(e)
      <4>1. e.p \in Nat /\ e.size \in Nat
        BY <1>4, BufferAssumption DEF Batch
      <4>2. Ebp(e) \in Int
        BY <4>1 DEF Ebp
      <4>3. PathLen[path] \in Nat /\ ~(e.p + PathLen[path] < Ebp(e))
        BY <1>2, <1>10 DEF Fits
      <4> QED
        BY <4>1, <4>2, <4>3
    <3>2. Bytes(Mine(f, n + 1)) = e.p /\ Upto(f, n + 1) = Len(paths)
      BY <2>4, <2>5 DEF Shared
    <3>3. Ebp(f) = Ebp(e)
      BY <2>6 DEF Ebp
    <3>4. Upto(f, n + 1) + 1 <= Len(all) /\ all[Upto(f, n + 1) + 1] = path
      BY <1>5, <3>2
    <3> QED
      BY <3>1, <3>2, <3>3, <3>4 DEF Full, NoRoom
  <2>8. \A k \in 1 .. n : Full(f, k, all)
    BY <1>7, <2>4, <2>5, <2>6
  <2>9. \A k \in 1 .. n + 1 : Full(f, k, all)
    BY <1>4, <2>7, <2>8
  <2> QED
    BY <2>4, <2>5, <2>9 DEF all
<1> QED
  BY <1>8, <1>9, <1>10

-----------------------------------------------------------------------------
(* Commands that are full are as full as the property asks. *)
LEMMA FullSuffices ==
  ASSUME \A k \in DOMAIN ep.ran : Full(ep, k, given)
  PROVE  BatchesAreFull
BY DEF Full, NoRoom, Mine, Upto, BatchesAreFull, SentBefore

(* Before the first name no command has run and none is due.               *)
LEMMA InitFull == Init => FullInv
<1> SUFFICES ASSUME Init PROVE FullInv
  OBVIOUS
<1>1. ep.args = <<>> /\ ep.p = 0 /\ ep.sent = <<>> /\ ep.ran = <<>>
  BY DEF Init, NewBatch
<1>2. DOMAIN ep.ran = {} /\ Len(ep.ran) = 0 /\ Len(ep.sent) = 0
  BY <1>1
<1>3. Upto(ep, 0) = 0
  <2>1. [j \in 1 .. 0 |-> ep.ran[j].n] = <<>>
    OBVIOUS
  <2> QED
    BY <2>1, TotalEmpty DEF Upto
<1>4. Shared(ep)
  BY <1>1, <1>2, <1>3, BytesEmpty DEF Shared
<1> QED
  BY <1>2, <1>4, FullSuffices DEF FullInv

(* Every step keeps the commands full: one case for each action.           *)
LEMMA StepFull == IInv /\ FullInv /\ [Next]_vars => FullInv'
<1> SUFFICES ASSUME IInv, FullInv, [Next]_vars PROVE FullInv'
  OBVIOUS
<1>1. /\ Good(ep) /\ ep \in Batch /\ Shared(ep) /\ given = ep.sent \o ep.args
      /\ pc \in {"collect", "done", "error"} /\ given \in Seq(Paths)
  BY InvGood DEF IInv, TypeOK, EachPathOnce, FullInv
<1>2. DOMAIN ep.ran = 1 .. Len(ep.ran)
  BY <1>1 DEF Batch
<1>8. ep.args \in Seq(Paths) /\ ep.sent \in Seq(Paths)
  BY <1>1 DEF Batch
(* The last command is run, for a path that is then refused or at the end. *)
<1>3. ASSUME pc = "collect", NEW status \in Statuses, ep' = RunExec(ep, status),
             given' = given, pc' # "collect"
      PROVE  FullInv'
  <2> DEFINE n == Len(ep.ran)
  <2>1. /\ Shared(ep') /\ Len(ep'.ran) = n + 1 /\ n \in Nat
        /\ \A k \in 1 .. n : Upto(ep', k) = Upto(ep, k) /\ Mine(ep', k) = Mine(ep, k)
        /\ Upto(ep', n + 1) = Len(ep.sent) + Len(ep.args)
        /\ ep'.size = ep.size
    BY <1>1, <1>3, RunExecShares
  <2>2. DOMAIN ep'.ran = 1 .. n + 1
    <3>1. ep' \in Batch
      BY <1>1, <1>3, RunExecGood DEF Good
    <3>2. DOMAIN ep'.ran = 1 .. Len(ep'.ran)
      BY <3>1 DEF Batch
    <3> QED
      BY <2>1, <3>2
  <2>3. Upto(ep', n + 1) = Len(given) /\ Len(given) \in Nat
    <3>1. given = ep.sent \o ep.args
      BY <1>1
    <3>2. Len(given) = Len(ep.sent) + Len(ep.args)
      BY <1>8, <3>1
    <3>3. Len(given) \in Nat
      BY <1>1, LenProperties
    <3> QED
      BY <2>1, <3>2, <3>3
  <2> HIDE DEF n
  <2>4. \A k \in 1 .. n : Full(ep', k, given')
    <3> TAKE k \in 1 .. n
    <3>1. Full(ep, k, given)
      BY <1>2, <1>3 DEF FullInv, n
    <3> QED
      BY <1>3, <2>1, <2>2, <3>1 DEF Full, NoRoom, Ebp
  <2>5. ~(Upto(ep', n + 1) + 1 <= Len(given'))
    BY <1>3, <2>3
  <2>6. BatchesAreFull'
    <3>1. ASSUME NEW k \in 1 .. n + 1, Upto(ep', k) + 1 <= Len(given')
          PROVE  \/ Len(Mine(ep', k)) = MaxArgs
                 \/ Bytes(Mine(ep', k)) + PathLen[given'[Upto(ep', k) + 1]] >= Ebp(ep')
      <4>1. k \in 1 .. n
        BY <2>1, <2>5, <3>1
      <4> QED
        BY <2>4, <4>1 DEF Full, NoRoom
    <3> QED
      BY <2>2, <3>1 DEF BatchesAreFull, SentBefore, Mine, Upto, Bytes
  <2> QED
    BY <1>3, <2>1, <2>6 DEF FullInv
<1>4. CASE Evaluate
  <2>1. PICK path \in Paths, status \in Statuses :
          /\ pc = "collect" /\ given' = Append(given, path)
          /\ ep' = CollectPath(ep, path, status)
    BY <1>4 DEF Evaluate
  <2>2. \A k \in 1 .. Len(ep.ran) : Full(ep, k, given)
    BY <1>2, <2>1 DEF FullInv
  <2>3. Shared(ep') /\ \A k \in 1 .. Len(ep'.ran) : Full(ep', k, given')
    <3>1. Counts(ep, given)
      BY <1>1, <1>8 DEF Counts
    <3> QED
      BY <1>1, <2>1, <2>2, <3>1, CollectFull
  <2>4. DOMAIN ep'.ran = 1 .. Len(ep'.ran)
    <3>1. ep' \in Batch
      BY StepInv DEF IInv, TypeOK
    <3> QED
      BY <3>1 DEF Batch
  <2>5. \A k \in DOMAIN ep'.ran : Full(ep', k, given')
    BY <2>3, <2>4
  <2>6. BatchesAreFull'
    BY <2>5 DEF Full, NoRoom, Mine, Upto, BatchesAreFull, SentBefore, Bytes
  <2> QED
    BY <2>3, <2>5, <2>6 DEF FullInv
<1>5. CASE EvaluateFails
  BY <1>3, <1>5 DEF EvaluateFails
<1>6. CASE Finish
  <2>1. PICK status \in Statuses :
          pc = "collect" /\ ep' = CleanUp(ep, status) /\ pc' = "done" /\ given' = given
    BY <1>6 DEF Finish
  <2>2. CASE ep.args # <<>>
    BY <1>3, <2>1, <2>2 DEF CleanUp
  <2>3. CASE ep.args = <<>>
    <3>1. ep' = ep /\ pc' # "collect"
      BY <2>1, <2>3 DEF CleanUp
    <3> QED
      BY <2>1, <3>1 DEF FullInv, BatchesAreFull, SentBefore
  <2> QED
    BY <2>2, <2>3
<1>7. CASE VforkFails \/ UNCHANGED vars
  <2>1. ep' = ep /\ given' = given /\ (pc' = "collect" => pc = "collect")
    BY <1>7 DEF VforkFails, vars
  <2> QED
    BY <2>1 DEF FullInv, BatchesAreFull, SentBefore
<1> QED
  BY <1>4, <1>5, <1>6, <1>7 DEF Next

(* A command that another path follows had ep_maxargs paths or no room for *)
(* that path (function.c:567): find runs the utility no more than it must. *)
THEOREM CommandsOfFindAreFull == Spec => []BatchesAreFull
<1>1. FullInv => BatchesAreFull
  BY DEF FullInv
<1> QED
  BY InitFull, StepFull, BatchInv, <1>1, PTL DEF Spec
-----------------------------------------------------------------------------
(***************************************************************************)
(* find's loop.  SIGINFO is blocked between sig_lock() and sig_unlock(),   *)
(* and the mask saved is always the one without it; an entry that may be   *)
(* freed is there only while fts_read() works.                             *)
(***************************************************************************)
Locked == {"loop", "reading", "switch", "end", "failed"}

MaskInv ==
  /\ flags.notty \in BOOLEAN
  /\ step \in {"start", "warned", "eval", "exit", "died"} \cup Locked
  /\ s = FALSE
  /\ blocked = (~flags.notty /\ step \in Locked)
  /\ handler => ~flags.notty /\ step # "start"
  /\ g_entry = "freed" => step = "reading"

(* It holds at the start.                                                  *)
LEMMA InitMask == ASSUME NEW n \in Nat, LoopInit(1 .. n) PROVE MaskInv
BY DEF LoopInit, MaskInv, Locked, Flags

(* Every step of the loop keeps it: sig_lock() and sig_unlock() are paired *)
(* on each way from one entry to the next.                                 *)
LEMMA StepMask == MaskInv /\ [LoopNext]_loopVars => MaskInv'
<1> SUFFICES ASSUME MaskInv, [LoopNext]_loopVars PROVE MaskInv'
  OBVIOUS
<1> USE DEF MaskInv, Locked
<1>1. CASE Open
  BY <1>1 DEF Open, SigLock, Go
<1>2. CASE FtsReadStarts
  BY <1>2 DEF FtsReadStarts, Go
<1>3. CASE FtsReadReturns
  BY <1>3 DEF FtsReadReturns, Go
<1>4. CASE FtsReadFailed
  BY <1>4 DEF FtsReadFailed, SigUnlock, Go
<1>5. CASE Skip
  BY <1>5 DEF Skip, Go
<1>6. CASE Warn
  BY <1>6 DEF Warn, SigUnlock, Go
<1>7. CASE GoOn
  BY <1>7 DEF GoOn, SigLock, Go
<1>8. CASE LetIn
  BY <1>8 DEF LetIn, SigUnlock, Go
<1>9. CASE Leave
  BY <1>9 DEF Leave, Go
<1>10. CASE EvaluateAny
  <2>1. /\ step = "eval" /\ SigLock /\ step' = "loop"
        /\ UNCHANGED <<flags, g_entry, handler>>
    BY <1>10 DEF EvaluateAny, EvaluateWith, Go
  <2> QED
    BY <2>1 DEF SigLock
<1>11. CASE TraverseAny
  <2>1. /\ step = "end" /\ SigUnlock /\ step' = "exit"
        /\ UNCHANGED <<flags, g_entry, handler>>
    BY <1>11 DEF TraverseAny, TraverseWith, Go
  <2> QED
    BY <2>1 DEF SigUnlock
<1>12. CASE UNCHANGED loopVars
  BY <1>12 DEF loopVars
<1> QED
  BY <1>1, <1>2, <1>3, <1>4, <1>5, <1>6, <1>7, <1>8, <1>9, <1>10, <1>11, <1>12
     DEF LoopNext

(* It holds in every state of find's loop.                                 *)
THEOREM MaskKept == LoopSpec => []MaskInv
<1>1. (\E n \in Nat : LoopInit(1 .. n)) => MaskInv
  BY InitMask
<1> QED
  BY <1>1, StepMask, PTL DEF LoopSpec

(* The handler of SIGINFO never reads an entry that fts may have freed     *)
(* (find.c:175, misc.c:113), whatever the plan does and whenever it comes. *)
THEOREM HandlerNeverReadsFreed == LoopSpec => []HandlerReadsEntry
<1>1. MaskInv => HandlerReadsEntry
  BY DEF MaskInv, Locked, HandlerReadsEntry
<1> QED
  BY <1>1, MaskKept, PTL

(* find ends with SIGINFO let in, on every way out (find.c:217).           *)
THEOREM MaskIsRestored == LoopSpec => []MaskRestored
<1>1. MaskInv => MaskRestored
  BY DEF MaskInv, Locked, MaskRestored
<1> QED
  BY <1>1, MaskKept, PTL

-----------------------------------------------------------------------------
(***************************************************************************)
(* The execs of find's loop: each is as ExecBatch keeps it.                *)
(***************************************************************************)
Held(e) ==
  /\ Good(e) /\ SlotsKept(e)
  /\ (\A path \in Paths : PathLen[path] <= e.size) => e.p <= e.size + 1

(* As sent and waiting: the paths the exec was evaluated for. *)
GivenTo(e) == e.sent \o e.args

(* A new exec is one of them.                                              *)
LEMMA NewHeld == ASSUME NEW size \in BufSizes PROVE Held(NewBatch(size))
<1>1. PICK e : e = NewBatch(size)
  OBVIOUS
<1>2. /\ e.args = <<>> /\ e.p = 0 /\ e.rval = 0 /\ e.sent = <<>>
      /\ e.ran = <<>> /\ e.size = size /\ e \in Batch
  BY <1>1 DEF NewBatch, Batch
<1>3. size \in Nat \ {0} /\ MaxArgs \in Nat \ {0, 1}
  BY BufferAssumption
<1> QED
  BY <1>1, <1>2, <1>3 DEF Held, Good, Preserved, SlotsKept

(* So it is after one path more, which it was given, and ...               *)
LEMMA CollectHeld ==
  ASSUME NEW e, Held(e), NEW path \in Paths, NEW status \in Statuses
  PROVE  /\ Held(CollectPath(e, path, status))
         /\ GivenTo(CollectPath(e, path, status)) = Append(GivenTo(e), path)
BY CollectKeeps DEF Held, GivenTo

(* ... after plan_cleanup(), when none waits.                              *)
LEMMA CleanUpHeld ==
  ASSUME NEW e, Held(e), NEW status \in Statuses
  PROVE  /\ Held(CleanUp(e, status))
         /\ CleanUp(e, status).args = <<>>
         /\ CleanUp(e, status).sent = GivenTo(e)
<1>1. e \in Batch /\ e.args \in Seq(Paths) /\ e.sent \in Seq(Paths)
      /\ e.size \in Nat \ {0} /\ MaxArgs \in Nat \ {0, 1}
  BY BufferAssumption DEF Held, Good, Batch
<1>2. CASE e.args = <<>>
  <2>1. CleanUp(e, status) = e /\ e.sent \o <<>> = e.sent
    BY <1>1, <1>2 DEF CleanUp
  <2> QED
    BY <1>2, <2>1 DEF GivenTo
<1>3. CASE e.args # <<>>
  <2>1. PICK f : f = RunExec(e, status)
    OBVIOUS
  <2>2. f = CleanUp(e, status)
    BY <1>3, <2>1 DEF CleanUp
  <2>3. /\ Good(f) /\ f.size = e.size /\ f.args = <<>> /\ f.p = 0
        /\ f.sent = e.sent \o e.args
    BY <1>1, <2>1, RunExecGood, RunExecFields DEF Held
  <2>5. SlotsKept(f)
    BY <1>1, <2>1, RunExecSlots DEF Held, SlotsKept
  <2>4. Held(f)
    BY <1>1, <2>3, <2>5 DEF Held
  <2> QED
    BY <2>2, <2>3, <2>4 DEF GivenTo
<1> QED
  BY <1>2, <1>3

-----------------------------------------------------------------------------
(* The types that the loop's own variables keep. *)
LoopInv ==
  /\ flags \in Flags /\ stream \in Seq(Entry) /\ at \in 0 .. Len(stream)
  /\ step \in {"switch", "warned", "eval"} => at > 0
  /\ rval \in -1 .. 255 /\ cval \in {0, 1}
  /\ seen \in Seq([path : Paths, true : SUBSET Nat])
  /\ \E n \in Nat : DOMAIN eps = 1 .. n /\ eps = [i \in 1 .. n |-> eps[i]]
  /\ \A i \in DOMAIN eps : Held(eps[i])

(* They have them at the start.                                            *)
LEMMA InitLoop == ASSUME NEW n \in Nat, LoopInit(1 .. n) PROVE LoopInv
<1>1. /\ flags \in Flags /\ stream \in Seq(Entry) /\ at = 0 /\ step = "start"
      /\ rval = 0 /\ cval = 1 /\ seen = <<>>
      /\ eps \in [1 .. n -> {NewBatch(size) : size \in BufSizes}]
  BY StreamsAssumption DEF LoopInit
<1>2. ASSUME NEW i \in DOMAIN eps PROVE Held(eps[i])
  <2>1. PICK size \in BufSizes : eps[i] = NewBatch(size)
    BY <1>1
  <2> QED
    BY <2>1, NewHeld
<1>3. at \in 0 .. Len(stream)
  BY <1>1
<1>4. seen \in Seq([path : Paths, true : SUBSET Nat])
  BY <1>1
<1> QED
  BY <1>1, <1>2, <1>3, <1>4 DEF LoopInv

(* The entry that the loop works on is one.                                *)
LEMMA CurrentEntry ==
  ASSUME LoopInv, at > 0
  PROVE  Current \in Entry /\ Current.path \in Paths /\ at \in 1 .. Len(stream)
<1>1. at \in 1 .. Len(stream) /\ stream \in Seq(Entry)
  BY DEF LoopInv
<1>2. stream[at] \in Entry
  BY <1>1
<1> QED
  BY <1>1, <1>2 DEF Current, Entry

(* What an evaluation does to the execs.                                   *)
LEMMA Evaluated ==
  ASSUME LoopInv, NEW execs, NEW status \in [DOMAIN eps -> Statuses], NEW exits,
         NEW value, NEW true, EvaluateWith(execs, status, exits, value, true)
  PROVE  /\ DOMAIN eps' = DOMAIN eps
         /\ eps' = [i \in DOMAIN eps |-> eps'[i]]
         /\ \A i \in DOMAIN eps :
              /\ Held(eps'[i])
              /\ GivenTo(eps'[i]) = IF i \in execs THEN Append(GivenTo(eps[i]), Current.path)
                                    ELSE GivenTo(eps[i])
<1>1. step = "eval" /\ at > 0
  BY DEF EvaluateWith, LoopInv
<1>2. eps' = [i \in DOMAIN eps |->
               IF i \in execs THEN CollectPath(eps[i], Current.path, status[i]) ELSE eps[i]]
  BY DEF EvaluateWith
<1>3. Current.path \in Paths
  BY <1>1, CurrentEntry
<1>4. ASSUME NEW i \in DOMAIN eps
      PROVE  /\ Held(eps'[i])
             /\ GivenTo(eps'[i]) = IF i \in execs THEN Append(GivenTo(eps[i]), Current.path)
                                   ELSE GivenTo(eps[i])
  <2>1. Held(eps[i]) /\ status[i] \in Statuses
    BY DEF LoopInv
  <2>2. CASE i \in execs
    <3>1. eps'[i] = CollectPath(eps[i], Current.path, status[i])
      BY <1>2, <2>2
    <3> QED
      BY <1>3, <2>1, <2>2, <3>1, CollectHeld
  <2>3. CASE i \notin execs
    BY <1>2, <2>1, <2>3
  <2> QED
    BY <2>2, <2>3
<1> QED
  BY <1>2, <1>4

(* What find_traverse() does to them.                                      *)
LEMMA Cleaned ==
  ASSUME LoopInv, NEW reached, NEW status \in [DOMAIN eps -> Statuses],
         TraverseWith(reached, status)
  PROVE  /\ DOMAIN eps' = DOMAIN eps
         /\ eps' = [i \in DOMAIN eps |-> eps'[i]]
         /\ \A i \in DOMAIN eps :
              /\ Held(eps'[i]) /\ GivenTo(eps'[i]) = GivenTo(eps[i])
              /\ i \in reached => eps'[i].args = <<>> /\ eps'[i].sent = GivenTo(eps[i])
<1>1. eps' = [i \in DOMAIN eps |->
                IF i \in reached THEN CleanUp(eps[i], status[i]) ELSE eps[i]]
  BY DEF TraverseWith
<1>2. ASSUME NEW i \in DOMAIN eps
      PROVE  /\ Held(eps'[i]) /\ GivenTo(eps'[i]) = GivenTo(eps[i])
             /\ i \in reached => eps'[i].args = <<>> /\ eps'[i].sent = GivenTo(eps[i])
  <2>1. Held(eps[i]) /\ status[i] \in Statuses
    BY DEF LoopInv
  <2>2. CASE i \in reached
    <3>1. eps'[i] = CleanUp(eps[i], status[i])
      BY <1>1, <2>2
    <3>2. Held(eps'[i]) /\ eps'[i].args = <<>> /\ eps'[i].sent = GivenTo(eps[i])
      BY <2>1, <3>1, CleanUpHeld
    <3>3. eps'[i].sent \in Seq(Paths)
      BY <3>2 DEF Held, Good, Batch
    <3>4. eps'[i].sent \o <<>> = eps'[i].sent
      BY <3>3
    <3> QED
      BY <3>2, <3>4 DEF GivenTo
  <2>3. CASE i \notin reached
    BY <1>1, <2>1, <2>3
  <2> QED
    BY <2>2, <2>3
<1> QED
  BY <1>1, <1>2

(* The greatest of some places.                                            *)
LEMMA GreatestPlace ==
  ASSUME NEW n \in Nat, NEW S \in SUBSET (1 .. n), S # {}
  PROVE  Max(S) \in S
<1>1. \E x \in S : \A y \in S : y <= x
  BY GreatestElement
<1>2. \E x \in S : \A y \in S : x >= y
  BY <1>1
<1> QED
  BY <1>2 DEF Max

(* find_traverse() returns a value of an exec that failed, if one did; so  *)
(* with no failure the value of find stays.                                *)
LEMMA CleanUpValue ==
  ASSUME LoopInv, NEW reached \in SUBSET DOMAIN eps,
         NEW status \in [DOMAIN eps -> Statuses], TraverseWith(reached, status)
  PROVE  /\ rval' \in -1 .. 255
         /\ rval' = 0 => rval = 0 /\ \A i \in reached : eps'[i].rval = 0
<1> DEFINE failed == {i \in reached : eps'[i].rval # 0}
<1>1. rval' = IF failed # {} THEN eps'[Max(failed)].rval ELSE rval
  BY DEF TraverseWith
<1>2. /\ rval \in -1 .. 255
      /\ \A i \in reached : eps'[i].rval \in -1 .. 255
  <2>1. \A i \in reached : Held(eps'[i])
    BY Cleaned
  <2> QED
    BY <2>1 DEF LoopInv, Held, Good, Batch
<1>3. PICK n \in Nat : DOMAIN eps = 1 .. n
  BY DEF LoopInv
<1>4. failed # {} => Max(failed) \in failed
  <2>1. failed \in SUBSET (1 .. n)
    BY <1>3
  <2> QED
    BY <2>1, GreatestPlace
<1> HIDE DEF failed
<1>5. CASE failed = {}
  BY <1>1, <1>2, <1>5 DEF failed
<1>6. CASE failed # {}
  <2>1. Max(failed) \in reached /\ eps'[Max(failed)].rval # 0
    BY <1>4, <1>6 DEF failed
  <2> QED
    BY <1>1, <1>2, <1>6, <2>1
<1> QED
  BY <1>5, <1>6

(* Every step keeps the types and the execs.                               *)
LEMMA StepLoop == LoopInv /\ [LoopNext]_loopVars => LoopInv'
<1> SUFFICES ASSUME LoopInv, [LoopNext]_loopVars PROVE LoopInv'
  OBVIOUS
<1>0. /\ flags \in Flags /\ stream \in Seq(Entry) /\ at \in 0 .. Len(stream)
      /\ Len(stream) \in Nat
      /\ step \in {"switch", "warned", "eval"} => at > 0
      /\ rval \in -1 .. 255 /\ cval \in {0, 1}
      /\ seen \in Seq([path : Paths, true : SUBSET Nat])
  BY DEF LoopInv
<1>a. ASSUME UNCHANGED eps
      PROVE  /\ \E n \in Nat : DOMAIN eps' = 1 .. n /\ eps' = [i \in 1 .. n |-> eps'[i]]
             /\ \A i \in DOMAIN eps' : Held(eps'[i])
  BY <1>a DEF LoopInv
<1>b. ASSUME DOMAIN eps' = DOMAIN eps, eps' = [i \in DOMAIN eps |-> eps'[i]],
             \A i \in DOMAIN eps : Held(eps'[i])
      PROVE  /\ \E n \in Nat : DOMAIN eps' = 1 .. n /\ eps' = [i \in 1 .. n |-> eps'[i]]
             /\ \A i \in DOMAIN eps' : Held(eps'[i])
  <2>1. PICK n \in Nat : DOMAIN eps = 1 .. n
    BY DEF LoopInv
  <2>2. DOMAIN eps' = 1 .. n /\ eps' = [i \in 1 .. n |-> eps'[i]]
    BY <1>b, <2>1
  <2> QED
    BY <1>b, <2>2
<1>1. CASE Open
  BY <1>0, <1>1, <1>a DEF Open, Go, LoopInv
<1>2. CASE FtsReadStarts
  BY <1>0, <1>2, <1>a DEF FtsReadStarts, Go, LoopInv
<1>3. CASE FtsReadReturns
  <2>1. /\ flags' = flags /\ stream' = stream /\ rval' = rval /\ cval' = cval
        /\ eps' = eps /\ seen' = seen
    BY <1>3 DEF FtsReadReturns
  <2>2. \/ at < Len(stream) /\ at' = at + 1
        \/ at' = at /\ step' \in {"end", "failed"}
    BY <1>3 DEF FtsReadReturns, Go
  <2>3. at' \in 0 .. Len(stream) /\ (step' \in {"switch", "warned", "eval"} => at' > 0)
    BY <1>0, <2>2
  <2> QED
    BY <1>0, <1>a, <2>1, <2>3 DEF LoopInv
<1>4. CASE FtsReadFailed
  BY <1>0, <1>4, <1>a DEF FtsReadFailed, Go, LoopInv
<1>5. CASE Skip
  BY <1>0, <1>5, <1>a DEF Skip, Go, LoopInv
<1>6. CASE Warn
  BY <1>0, <1>6, <1>a DEF Warn, Go, LoopInv
<1>7. CASE GoOn
  BY <1>0, <1>7, <1>a DEF GoOn, Go, LoopInv
<1>8. CASE LetIn
  BY <1>0, <1>8, <1>a DEF LetIn, Go, LoopInv
<1>9. CASE Leave
  BY <1>0, <1>9, <1>a DEF Leave, Go, LoopInv
<1>10. CASE EvaluateAny
  <2>1. PICK execs \in SUBSET DOMAIN eps, status \in [DOMAIN eps -> Statuses],
             exits \in BOOLEAN, value \in ExitValues, true \in SUBSET Nat :
          EvaluateWith(execs, status, exits, value, true)
    BY <1>10 DEF EvaluateAny
  <2>2. /\ DOMAIN eps' = DOMAIN eps /\ eps' = [i \in DOMAIN eps |-> eps'[i]]
        /\ \A i \in DOMAIN eps : Held(eps'[i])
    BY <2>1, Evaluated
  <2>3. value \in -1 .. 255
    BY ExitValuesAssumption
  <2>4. step = "eval" /\ rval' = (IF exits THEN value ELSE rval)
        /\ cval' = (IF exits THEN 0 ELSE cval)
        /\ seen' = Append(seen, [path |-> Current.path, true |-> true])
        /\ step' = "loop" /\ UNCHANGED <<flags, stream, at>>
    BY <2>1 DEF EvaluateWith, Go
  <2>5. Current.path \in Paths
    BY <1>0, <2>4, CurrentEntry
  <2>6. seen' \in Seq([path : Paths, true : SUBSET Nat])
    <3>1. [path |-> Current.path, true |-> true] \in [path : Paths, true : SUBSET Nat]
      BY <2>5
    <3> QED
      BY <1>0, <2>4, <3>1
  <2>7. rval' \in -1 .. 255 /\ cval' \in {0, 1}
    BY <1>0, <2>3, <2>4
  <2> QED
    BY <1>0, <1>b, <2>2, <2>4, <2>6, <2>7 DEF LoopInv
<1>11. CASE TraverseAny
  <2>1. PICK reached \in SUBSET DOMAIN eps, status \in [DOMAIN eps -> Statuses] :
          TraverseWith(reached, status)
    BY <1>11 DEF TraverseAny
  <2>2. /\ DOMAIN eps' = DOMAIN eps /\ eps' = [i \in DOMAIN eps |-> eps'[i]]
        /\ \A i \in DOMAIN eps : Held(eps'[i])
    BY <2>1, Cleaned
  <2>3. rval' \in -1 .. 255
    BY <2>1, CleanUpValue
  <2>4. step' = "exit" /\ UNCHANGED <<flags, stream, at, cval, seen>>
    BY <2>1 DEF TraverseWith, Go
  <2> QED
    BY <1>0, <1>b, <2>2, <2>3, <2>4 DEF LoopInv
<1>12. CASE UNCHANGED loopVars
  BY <1>0, <1>12, <1>a DEF loopVars, LoopInv
<1> QED
  BY <1>1, <1>2, <1>3, <1>4, <1>5, <1>6, <1>7, <1>8, <1>9, <1>10, <1>11, <1>12
     DEF LoopNext

(* They have them in every state.                                          *)
THEOREM LoopKept == LoopSpec => []LoopInv
<1>1. (\E n \in Nat : LoopInit(1 .. n)) => LoopInv
  BY InitLoop
<1> QED
  BY <1>1, StepLoop, PTL DEF LoopSpec

(* However many execs a plan has and in whatever order they are evaluated, *)
(* none of them has more paths than slots, also while its command is run,  *)
(* nor, if each path fits it alone, more bytes between two evaluations     *)
(* than its buffer (function.c:567, 577).                                  *)
ExecsInBounds ==
  \A i \in DOMAIN eps :
    /\ SlotsKept(eps[i])
    /\ (\A path \in Paths : PathLen[path] <= eps[i].size) => eps[i].p <= eps[i].size + 1

THEOREM ExecsStayInBounds == LoopSpec => []ExecsInBounds
<1>1. LoopInv => ExecsInBounds
  BY DEF LoopInv, Held, ExecsInBounds
<1> QED
  BY <1>1, LoopKept, PTL

(* An evaluation gives its file to the execs it comes to and to no other,  *)
(* behind the files they had; find_traverse() sends all of them from the   *)
(* execs it comes to, and lets find exit with 0 only if each of their      *)
(* commands did (function.c:534 to 607, 665; find.c:229).                  *)
FileToExecs ==
  \A execs \in SUBSET DOMAIN eps, status \in [DOMAIN eps -> Statuses],
     exits \in BOOLEAN, value \in ExitValues, true \in SUBSET Nat :
    EvaluateWith(execs, status, exits, value, true) =>
      \A i \in DOMAIN eps :
        GivenTo(eps'[i]) = IF i \in execs THEN Append(GivenTo(eps[i]), Current.path)
                           ELSE GivenTo(eps[i])

AllSentAtEnd ==
  \A reached \in SUBSET DOMAIN eps, status \in [DOMAIN eps -> Statuses] :
    TraverseWith(reached, status) =>
      \A i \in reached :
        /\ eps'[i].args = <<>> /\ eps'[i].sent = GivenTo(eps[i])
        /\ rval' = 0 => \A c \in DOMAIN eps'[i].ran : eps'[i].ran[c].status = 0

THEOREM ExecsGetTheirFiles == LoopSpec => [][FileToExecs /\ AllSentAtEnd]_loopVars
<1>1. ASSUME LoopInv PROVE FileToExecs
  BY <1>1, Evaluated DEF FileToExecs
<1>2. ASSUME LoopInv PROVE AllSentAtEnd
  <2> SUFFICES ASSUME NEW reached \in SUBSET DOMAIN eps,
                      NEW status \in [DOMAIN eps -> Statuses],
                      TraverseWith(reached, status), NEW i \in reached
               PROVE  /\ eps'[i].args = <<>> /\ eps'[i].sent = GivenTo(eps[i])
                      /\ rval' = 0 => \A c \in DOMAIN eps'[i].ran :
                                         eps'[i].ran[c].status = 0
    BY DEF AllSentAtEnd
  <2>1. Held(eps'[i]) /\ eps'[i].args = <<>> /\ eps'[i].sent = GivenTo(eps[i])
    BY <1>2, Cleaned
  <2>2. rval' = 0 => eps'[i].rval = 0
    BY <1>2, CleanUpValue
  <2>3. eps'[i].rval = 0 => \A c \in DOMAIN eps'[i].ran : eps'[i].ran[c].status = 0
    BY <2>1 DEF Held, Good, Preserved
  <2> QED
    BY <2>1, <2>2, <2>3
<1>3. LoopInv /\ [LoopNext]_loopVars => [FileToExecs /\ AllSentAtEnd]_loopVars
  BY <1>1, <1>2
<1> QED
  BY <1>3, LoopKept, PTL DEF LoopSpec

-----------------------------------------------------------------------------
(***************************************************************************)
(* Exit status 0.  The first n entries are dealt with: none was one to     *)
(* warn of, and the files evaluated, in order, are those of the entries    *)
(* that are not skipped; which tells for each file its entry.              *)
(***************************************************************************)
Dealt(n) ==
  /\ \A k \in 1 .. n : ~Skipped(stream[k]) => ~Warned(stream[k])
  /\ \E which \in [1 .. Len(seen) -> 1 .. n] :
       /\ \A i, j \in 1 .. Len(seen) : i < j => which[i] < which[j]
       /\ \A k \in 1 .. n : ~Skipped(stream[k]) <=> \E j \in 1 .. Len(seen) : which[j] = k
       /\ \A j \in 1 .. Len(seen) : seen[j].path = stream[which[j]].path

(* As long as nothing was warned of and no -exit was come to, the entries  *)
(* up to the one at work are dealt with, and at the end all.               *)
DealtInv ==
  rval = 0 /\ cval = 1 /\ step \notin {"warned", "failed", "died"} =>
    /\ Dealt(IF step \in {"switch", "eval"} THEN at - 1 ELSE at)
    /\ step \in {"end", "exit"} => at = Len(stream)
    /\ step = "eval" => ~Skipped(Current) /\ ~Warned(Current)

(* What nothing changes stays so; ...                                      *)
LEMMA DealtStays ==
  ASSUME NEW n, Dealt(n), flags' = flags, stream' = stream, seen' = seen
  PROVE  Dealt(n)'
<1>1. \A e : Skipped(e)' <=> Skipped(e)
  BY DEF Skipped
<1>2. \A e : Warned(e)' <=> Warned(e)
  BY <1>1 DEF Warned, Erroneous, IllegalPath
<1> QED
  BY <1>1, <1>2 DEF Dealt

(* ... an entry that is skipped is dealt with; ...                         *)
LEMMA DealtSkipped ==
  ASSUME NEW n \in Nat, Dealt(n), Skipped(stream[n + 1])
  PROVE  Dealt(n + 1)
<1>1. PICK which \in [1 .. Len(seen) -> 1 .. n] :
       /\ \A i, j \in 1 .. Len(seen) : i < j => which[i] < which[j]
       /\ \A k \in 1 .. n : ~Skipped(stream[k]) <=> \E j \in 1 .. Len(seen) : which[j] = k
       /\ \A j \in 1 .. Len(seen) : seen[j].path = stream[which[j]].path
  BY DEF Dealt
<1>2. which \in [1 .. Len(seen) -> 1 .. n + 1]
  BY <1>1
<1>3. ASSUME NEW k \in 1 .. n + 1
      PROVE  ~Skipped(stream[k]) <=> \E j \in 1 .. Len(seen) : which[j] = k
  <2>1. CASE k = n + 1
    <3>1. \A j \in 1 .. Len(seen) : which[j] # n + 1
      BY <1>1
    <3> QED
      BY <2>1, <3>1
  <2>2. CASE k # n + 1
    <3>1. k \in 1 .. n
      BY <2>2
    <3> QED
      BY <1>1, <3>1
  <2> QED
    BY <2>1, <2>2
<1>4. ASSUME NEW k \in 1 .. n + 1, ~Skipped(stream[k]) PROVE ~Warned(stream[k])
  <2>1. k \in 1 .. n
    BY <1>4
  <2> QED
    BY <1>4, <2>1 DEF Dealt
<1> QED
  BY <1>1, <1>2, <1>3, <1>4 DEF Dealt

(* ... and so is one whose file was evaluated.                             *)
LEMMA DealtEvaluated ==
  ASSUME NEW n \in Nat, Dealt(n), ~Skipped(stream[n + 1]), ~Warned(stream[n + 1]),
         NEW S, seen \in Seq(S), NEW e \in S, e.path = stream[n + 1].path,
         flags' = flags, stream' = stream, seen' = Append(seen, e)
  PROVE  Dealt(n + 1)'
<1>1. PICK which \in [1 .. Len(seen) -> 1 .. n] :
       /\ \A i, j \in 1 .. Len(seen) : i < j => which[i] < which[j]
       /\ \A k \in 1 .. n : ~Skipped(stream[k]) <=> \E j \in 1 .. Len(seen) : which[j] = k
       /\ \A j \in 1 .. Len(seen) : seen[j].path = stream[which[j]].path
  BY DEF Dealt
<1>2. PICK l \in Nat : l = Len(seen)
  OBVIOUS
<1>3. /\ Len(seen') = l + 1 /\ seen'[l + 1] = e
      /\ \A j \in 1 .. l : seen'[j] = seen[j]
  BY <1>2
<1> DEFINE more == [j \in 1 .. l + 1 |-> IF j = l + 1 THEN n + 1 ELSE which[j]]
<1>4. /\ \A j \in 1 .. l : more[j] = which[j] /\ which[j] \in 1 .. n
      /\ more[l + 1] = n + 1
  BY <1>1, <1>2
<1>5. more \in [1 .. l + 1 -> 1 .. n + 1]
  BY <1>1, <1>2
<1> HIDE DEF more
<1>6. ASSUME NEW i \in 1 .. l + 1, NEW j \in 1 .. l + 1, i < j PROVE more[i] < more[j]
  <2>1. i \in 1 .. l /\ (j \in 1 .. l \/ j = l + 1)
    BY <1>6
  <2>2. CASE j \in 1 .. l
    BY <1>1, <1>2, <1>4, <1>6, <2>1, <2>2
  <2>3. CASE j = l + 1
    <3>1. more[i] \in 1 .. n /\ more[j] = n + 1
      BY <1>4, <2>1, <2>3
    <3> QED
      BY <3>1
  <2> QED
    BY <2>1, <2>2, <2>3
<1>7. ASSUME NEW k \in 1 .. n + 1
      PROVE  ~Skipped(stream[k]) <=> \E j \in 1 .. l + 1 : more[j] = k
  <2>1. CASE k = n + 1
    <3>1. l + 1 \in 1 .. l + 1
      OBVIOUS
    <3> QED
      BY <1>4, <2>1, <3>1
  <2>2. CASE k # n + 1
    <3>1. k \in 1 .. n
      BY <2>2
    <3>2. ~Skipped(stream[k]) <=> \E j \in 1 .. l : which[j] = k
      BY <1>1, <1>2, <3>1
    <3>3. (\E j \in 1 .. l : which[j] = k) => \E j \in 1 .. l + 1 : more[j] = k
      <4>1. \A j \in 1 .. l : j \in 1 .. l + 1
        OBVIOUS
      <4> QED
        BY <1>4, <4>1
    <3>4. (\E j \in 1 .. l + 1 : more[j] = k) => \E j \in 1 .. l : which[j] = k
      <4>1. \A j \in 1 .. l + 1 : j \in 1 .. l \/ j = l + 1
        OBVIOUS
      <4> QED
        BY <1>4, <2>2, <4>1
    <3> QED
      BY <3>2, <3>3, <3>4
  <2> QED
    BY <2>1, <2>2
<1>8. ASSUME NEW j \in 1 .. l + 1 PROVE seen'[j].path = stream[more[j]].path
  <2>1. j \in 1 .. l \/ j = l + 1
    OBVIOUS
  <2> QED
    BY <1>1, <1>2, <1>3, <1>4, <2>1
<1>9. ASSUME NEW k \in 1 .. n + 1, ~Skipped(stream[k]) PROVE ~Warned(stream[k])
  <2>1. k \in 1 .. n \/ k = n + 1
    OBVIOUS
  <2> QED
    BY <1>9, <2>1 DEF Dealt
<1>10. \A k : Skipped(stream[k])' <=> Skipped(stream[k])
  BY DEF Skipped
<1>11. \A k : Warned(stream[k])' <=> Warned(stream[k])
  BY <1>10 DEF Warned, Erroneous, IllegalPath
<1>12. \A k \in 1 .. n + 1 : Skipped(stream[k])' \/ ~Warned(stream[k])'
  BY <1>9, <1>10, <1>11
<1>13. \A k \in 1 .. n + 1 :
         (~Skipped(stream[k])') <=> \E j \in 1 .. l + 1 : more[j] = k
  BY <1>7, <1>10
<1>14. \A j \in 1 .. Len(seen') : seen'[j].path = stream'[more[j]].path
  BY <1>3, <1>8
<1>15. more \in [1 .. Len(seen') -> 1 .. n + 1]
       /\ \A i, j \in 1 .. Len(seen') : i < j => more[i] < more[j]
  BY <1>3, <1>5, <1>6
<1>16. \A k \in 1 .. n + 1 :
         (~Skipped(stream[k])') <=> \E j \in 1 .. Len(seen') : more[j] = k
  BY <1>3, <1>13
<1>17. (\A k \in 1 .. n + 1 : ~Skipped(stream[k]) => ~Warned(stream[k]))'
  BY <1>12
<1>18. (\E files \in [1 .. Len(seen) -> 1 .. n + 1] :
         /\ \A i, j \in 1 .. Len(seen) : i < j => files[i] < files[j]
         /\ \A k \in 1 .. n + 1 :
              ~Skipped(stream[k]) <=> \E j \in 1 .. Len(seen) : files[j] = k
         /\ \A j \in 1 .. Len(seen) : seen[j].path = stream[files[j]].path)'
  BY <1>14, <1>15, <1>16, Zenon
<1> QED
  BY <1>17, <1>18, Zenon DEF Dealt

(* At the start no entry was read.                                         *)
LEMMA InitDealt == ASSUME NEW n \in Nat, LoopInit(1 .. n) PROVE DealtInv
<1>1. at = 0 /\ step = "start" /\ seen = <<>>
  BY DEF LoopInit
<1> DEFINE which == [j \in 1 .. 0 |-> 0]
<1>2. Len(seen) = 0 /\ which \in [1 .. 0 -> 1 .. 0]
  BY <1>1
<1> HIDE DEF which
<1>3. Dealt(0)
  <2>1. Len(seen) = 0 /\ 1 .. 0 = {}
    BY <1>2
  <2> QED
    BY <1>2, <2>1 DEF Dealt
<1> QED
  BY <1>1, <1>3 DEF DealtInv

(* Every step keeps it.                                                    *)
LEMMA StepDealt == LoopInv /\ DealtInv /\ [LoopNext]_loopVars => DealtInv'
<1> SUFFICES ASSUME LoopInv, DealtInv, [LoopNext]_loopVars,
                    rval' = 0, cval' = 1, step' \notin {"warned", "failed", "died"}
             PROVE  /\ Dealt(IF step \in {"switch", "eval"} THEN at - 1 ELSE at)'
                    /\ step' \in {"end", "exit"} => at' = Len(stream')
                    /\ step' = "eval" => ~Skipped(Current)' /\ ~Warned(Current)'
  BY DEF DealtInv
<1> DEFINE n == IF step \in {"switch", "eval"} THEN at - 1 ELSE at
<1>0. /\ at \in 0 .. Len(stream) /\ Len(stream) \in Nat
      /\ step \in {"switch", "warned", "eval"} => at > 0
      /\ seen \in Seq([path : Paths, true : SUBSET Nat])
  BY DEF LoopInv
<1>a. ASSUME rval = 0, cval = 1, step \notin {"warned", "failed", "died"}
      PROVE  /\ Dealt(n)
             /\ step \in {"end", "exit"} => at = Len(stream)
             /\ step = "eval" => ~Skipped(Current) /\ ~Warned(Current)
  BY <1>a DEF DealtInv
<1>b. ASSUME NEW m, Dealt(m), flags' = flags, stream' = stream, seen' = seen,
             m = IF step' \in {"switch", "eval"} THEN at' - 1 ELSE at'
      PROVE  Dealt(IF step \in {"switch", "eval"} THEN at - 1 ELSE at)'
  <2>1. Dealt(m)'
    BY <1>b, DealtStays
  <2> QED
    BY <1>b, <2>1
<1>1. CASE Open
  <2>1. /\ step = "start" /\ step' = "loop" /\ rval = 0 /\ cval = 1
        /\ flags' = flags /\ stream' = stream /\ seen' = seen /\ at' = at
    BY <1>1 DEF Open, Go
  <2>2. Dealt(at)
    BY <1>a, <2>1
  <2> QED
    BY <1>b, <2>1, <2>2
<1>2. CASE FtsReadStarts
  <2>1. /\ step = "loop" /\ step' = "reading" /\ rval = 0 /\ cval = 1
        /\ flags' = flags /\ stream' = stream /\ seen' = seen /\ at' = at
    BY <1>2 DEF FtsReadStarts, Go
  <2>2. Dealt(at)
    BY <1>a, <2>1
  <2> QED
    BY <1>b, <2>1, <2>2
<1>3. CASE FtsReadReturns
  <2>1. /\ step = "reading" /\ rval = 0 /\ cval = 1
        /\ flags' = flags /\ stream' = stream /\ seen' = seen
    BY <1>3 DEF FtsReadReturns
  <2>2. \/ at' = at + 1 /\ step' = "switch"
        \/ at' = at /\ step' = "end" /\ at = Len(stream)
    BY <1>3 DEF FtsReadReturns, Go
  <2>3. Dealt(at)
    BY <1>a, <2>1
  <2>4. at = IF step' \in {"switch", "eval"} THEN at' - 1 ELSE at'
    BY <1>0, <2>2
  <2> QED
    BY <1>b, <2>1, <2>2, <2>3, <2>4
<1>4. CASE FtsReadFailed
  BY <1>4 DEF FtsReadFailed, Go
<1>5. CASE Skip
  <2>1. /\ step = "switch" /\ step' = "loop" /\ rval = 0 /\ cval = 1 /\ Skipped(Current)
        /\ flags' = flags /\ stream' = stream /\ seen' = seen /\ at' = at
    BY <1>5 DEF Skip, Go
  <2>2. PICK m : m = at - 1
    OBVIOUS
  <2>3. m \in Nat /\ m + 1 = at
    BY <1>0, <2>1, <2>2
  <2>4. Dealt(m)
    BY <1>a, <2>1, <2>2
  <2>5. Dealt(m + 1)
    BY <2>1, <2>3, <2>4, DealtSkipped DEF Current
  <2> QED
    BY <1>b, <2>1, <2>3, <2>5
<1>6. CASE Warn
  BY <1>6 DEF Warn, Go
<1>7. CASE GoOn
  BY <1>7 DEF GoOn
<1>8. CASE LetIn
  <2>1. /\ step = "switch" /\ step' = "eval" /\ rval = 0 /\ cval = 1
        /\ ~Skipped(Current) /\ ~Warned(Current)
        /\ flags' = flags /\ stream' = stream /\ seen' = seen /\ at' = at
    BY <1>8 DEF LetIn, Go
  <2>2. PICK m : m = at - 1
    OBVIOUS
  <2>3. Dealt(m)
    BY <1>a, <2>1, <2>2
  <2>4. ~Skipped(Current)' /\ ~Warned(Current)'
    BY <2>1 DEF Skipped, Warned, Erroneous, IllegalPath, Current
  <2> QED
    BY <1>b, <2>1, <2>2, <2>3, <2>4
<1>9. CASE Leave
  BY <1>9 DEF Leave
<1>10. CASE EvaluateAny
  <2>1. PICK execs \in SUBSET DOMAIN eps, status \in [DOMAIN eps -> Statuses],
             exits \in BOOLEAN, value \in ExitValues, true \in SUBSET Nat :
          EvaluateWith(execs, status, exits, value, true)
    BY <1>10 DEF EvaluateAny
  <2>2. /\ step = "eval" /\ step' = "loop" /\ flags' = flags /\ stream' = stream
        /\ at' = at /\ seen' = Append(seen, [path |-> Current.path, true |-> true])
        /\ rval' = (IF exits THEN value ELSE rval) /\ cval' = (IF exits THEN 0 ELSE cval)
    BY <2>1 DEF EvaluateWith, Go
  <2>3. rval = 0 /\ cval = 1
    BY <2>2
  <2>4. PICK m : m = at - 1
    OBVIOUS
  <2>5. m \in Nat /\ m + 1 = at
    BY <1>0, <2>2, <2>4
  <2>6. Dealt(m) /\ ~Skipped(stream[m + 1]) /\ ~Warned(stream[m + 1])
    BY <1>a, <2>2, <2>3, <2>4, <2>5 DEF Current
  <2>7. Current.path \in Paths
    BY <1>0, <2>2, CurrentEntry
  <2> DEFINE e == [path |-> Current.path, true |-> true]
  <2>8. e \in [path : Paths, true : SUBSET Nat] /\ e.path = stream[m + 1].path
    BY <2>5, <2>7 DEF Current
  <2>9. seen' = Append(seen, e)
    BY <2>2
  <2> HIDE DEF e
  <2>10. Dealt(m + 1)'
    BY <1>0, <2>2, <2>5, <2>6, <2>8, <2>9, DealtEvaluated
  <2> QED
    BY <2>2, <2>5, <2>10
<1>11. CASE TraverseAny
  <2>1. PICK reached \in SUBSET DOMAIN eps, status \in [DOMAIN eps -> Statuses] :
          TraverseWith(reached, status)
    BY <1>11 DEF TraverseAny
  <2>2. /\ step = "end" /\ step' = "exit" /\ cval = 1 /\ flags' = flags
        /\ stream' = stream /\ seen' = seen /\ at' = at
    BY <2>1 DEF TraverseWith, Go
  <2>3. rval = 0
    BY <2>1, CleanUpValue
  <2>4. Dealt(at) /\ at = Len(stream)
    BY <1>a, <2>2, <2>3
  <2> QED
    BY <1>b, <2>2, <2>4
<1>12. CASE UNCHANGED loopVars
  <2>1. /\ flags' = flags /\ stream' = stream /\ seen' = seen /\ at' = at
        /\ step' = step /\ rval = 0 /\ cval = 1
    BY <1>12 DEF loopVars
  <2>2. /\ Dealt(n)
        /\ step \in {"end", "exit"} => at = Len(stream)
    BY <1>a, <2>1
  <2>3. step' = "eval" => ~Skipped(Current)' /\ ~Warned(Current)'
    <3>1. step = "eval" => ~Skipped(Current) /\ ~Warned(Current)
      BY <1>a, <2>1
    <3>2. (Skipped(Current)' <=> Skipped(Current)) /\ (Warned(Current)' <=> Warned(Current))
      BY <2>1 DEF Skipped, Warned, Erroneous, IllegalPath, Current
    <3> QED
      BY <2>1, <3>1, <3>2
  <2>4. n = IF step' \in {"switch", "eval"} THEN at' - 1 ELSE at'
    BY <2>1
  <2>5. Dealt(IF step \in {"switch", "eval"} THEN at - 1 ELSE at)'
    BY <1>b, <2>1, <2>2, <2>4
  <2>6. step' \in {"end", "exit"} => at' = Len(stream')
    BY <2>1, <2>2
  <2> QED
    BY <2>3, <2>5, <2>6
<1> QED
  BY <1>1, <1>2, <1>3, <1>4, <1>5, <1>6, <1>7, <1>8, <1>9, <1>10, <1>11, <1>12
     DEF LoopNext

(* If find exits with 0 and no -exit ended it, no entry was one to warn of *)
(* and every file of the hierarchy was evaluated exactly once, in the      *)
(* order of the hierarchy (find.c:174 to 216).                             *)
ExitZeroMeansDone == step = "exit" /\ rval = 0 /\ cval = 1 => Dealt(Len(stream))

THEOREM ZeroMeansDone == LoopSpec => []ExitZeroMeansDone
<1>1. (\E n \in Nat : LoopInit(1 .. n)) => DealtInv
  BY InitDealt
<1>2. DealtInv => ExitZeroMeansDone
  BY DEF DealtInv, ExitZeroMeansDone
<1> QED
  BY <1>1, <1>2, StepDealt, LoopKept, PTL DEF LoopSpec

=============================================================================
