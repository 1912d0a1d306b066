------------------------------ MODULE FindLoop ------------------------------
(***************************************************************************)
(* The loop of find_execute() and find_traverse() (src/find/find.c) for    *)
(* any plan: the entries that fts_read() returns are evaluated one after   *)
(* another, while a SIGINFO may come at any time, and at the end           *)
(* plan_cleanup() runs what the -exec ... {} + primaries have collected.   *)
(* Which primaries an evaluation comes to, and which find_traverse() comes *)
(* to, is the plan's and is given to EvaluateWith and TraverseWith.        *)
(*                                                                         *)
(* The handler reads g_entry and changes nothing; it may run whenever it   *)
(* is installed and not blocked.  fts_read() may free the entry that it    *)
(* returned before, so that g_entry is "freed" until it is assigned.       *)
(***************************************************************************)
EXTENDS ExecBuffer, FiniteSetsExt

CONSTANTS
  Streams,       \* what fts_read() may return: sequences of entries
  ExitValues     \* arguments of -exit

Info == {"D", "DP", "F", "DNR", "NS"}
Entry == [path : Paths, info : Info, badch : BOOLEAN]

Flags == [isdepth : BOOLEAN, isxargs : BOOLEAN, notty : BOOLEAN]

ASSUME StreamsAssumption == Streams \subseteq Seq(Entry)
ASSUME RoomAssumption == \A size \in BufSizes : size > 2   \* else f_exec() fails
ASSUME ExitValuesAssumption == ExitValues \subseteq 0 .. 255

VARIABLES
  flags,         \* isdepth and isxargs of the options; notty, found by sig_init()
  stream,        \* the entries of the hierarchy
  at,            \* how many were read
  g_entry,       \* "NULL", "live" (the entry read last) or "freed"
  blocked,       \* SIGINFO is blocked
  s,             \* the mask saved by sig_lock(): was it blocked?
  handler,       \* sigaction() was called
  rval, cval,
  eps,           \* of each primary, by its place: the state of an exec
  seen,          \* history: the files evaluated, with what is true of each
  step           \* where find_execute() is

loopVars == <<flags, stream, at, g_entry, blocked, s, handler, rval, cval, eps, seen, step>>

(* places are those of the primaries. *)
LoopInit(places) ==
  /\ flags \in Flags
  /\ stream \in Streams /\ at = 0
  /\ g_entry = "NULL"
  /\ blocked = FALSE /\ s = FALSE /\ handler = FALSE
  /\ rval = 0 /\ cval = 1
  /\ eps \in [places -> {NewBatch(size) : size \in BufSizes}]
  /\ seen = <<>>
  /\ step = "start"

-----------------------------------------------------------------------------
(* sig_lock(&s) and sig_unlock(&s), which do nothing without a terminal. *)
SigLock == IF flags.notty THEN UNCHANGED <<blocked, s>> ELSE s' = blocked /\ blocked' = TRUE
SigUnlock == UNCHANGED s /\ blocked' = IF flags.notty THEN blocked ELSE s

Current == stream[at]

Go(to) == step' = to

(* fts_open(), sig_init() and the first sig_lock(). *)
Open ==
  /\ step = "start"
  /\ handler' = ~flags.notty
  /\ SigLock
  /\ Go("loop")
  /\ UNCHANGED <<flags, stream, at, g_entry, rval, cval, eps, seen>>

(* The loop's condition: fts_read() is called, and works on the entries. *)
FtsReadStarts ==
  /\ step = "loop" /\ cval = 1
  /\ g_entry' = IF g_entry = "NULL" THEN "NULL" ELSE "freed"
  /\ Go("reading")
  /\ UNCHANGED <<flags, stream, at, blocked, s, handler, rval, cval, eps, seen>>

FtsReadReturns ==
  /\ step = "reading"
  /\ \/ /\ at < Len(stream)
        /\ at' = at + 1 /\ g_entry' = "live"
        /\ Go("switch")
     \/ /\ at = Len(stream)
        /\ g_entry' = "NULL"
        /\ Go("end")
        /\ UNCHANGED at
     \/ /\ g_entry' = "NULL"                  \* errno is set
        /\ Go("failed")
        /\ UNCHANGED at
  /\ UNCHANGED <<flags, stream, blocked, s, handler, rval, cval, eps, seen>>

Skipped(e) == e.info = (IF flags.isdepth THEN "D" ELSE "DP")
Erroneous(e) == e.info \in {"DNR", "NS"}
IllegalPath(e) == ~Skipped(e) /\ ~Erroneous(e) /\ flags.isxargs /\ e.badch
Warned(e) == Erroneous(e) \/ IllegalPath(e)

Skip ==
  /\ step = "switch" /\ Skipped(Current)
  /\ Go("loop")
  /\ UNCHANGED <<flags, stream, at, g_entry, blocked, s, handler, rval, cval, eps, seen>>

(* Variant: with the signal kept out. *)
WarnLocked ==
  /\ step = "switch" /\ Warned(Current)
  /\ Go("warned")
  /\ UNCHANGED <<flags, stream, at, g_entry, blocked, s, handler, rval, cval, eps, seen>>

(* warnx() with the signal let in. *)
Warn ==
  /\ step = "switch" /\ Warned(Current)
  /\ SigUnlock
  /\ Go("warned")
  /\ UNCHANGED <<flags, stream, at, g_entry, handler, rval, cval, eps, seen>>

GoOnOnly ==                 \* variant: a warning and no more
  /\ step = "warned"
  /\ SigLock
  /\ Go("loop")
  /\ UNCHANGED <<flags, stream, at, g_entry, handler, rval, cval, eps, seen>>

GoOn ==
  /\ step = "warned"
  /\ rval' = 1
  /\ SigLock
  /\ Go("loop")
  /\ UNCHANGED <<flags, stream, at, g_entry, handler, cval, eps, seen>>

LetIn ==
  /\ step = "switch" /\ ~Skipped(Current) /\ ~Warned(Current)
  /\ SigUnlock
  /\ Go("eval")
  /\ UNCHANGED <<flags, stream, at, g_entry, handler, rval, cval, eps, seen>>

(***************************************************************************)
(* The plan is evaluated for the entry, of which the primaries at the      *)
(* places of true are true.  It comes to these execs, whose commands, if   *)
(* they are run, end with status, and, where exits, to an -exit of the     *)
(* plan's own list, which ends find after the rest of the list.            *)
(***************************************************************************)
(* Variant: without the lock that ends the evaluation. *)
EvaluateUnlocked(execs, status, exits, value, true) ==
  /\ step = "eval"
  /\ eps' = [i \in DOMAIN eps |->
               IF i \in execs THEN CollectPath(eps[i], Current.path, status[i]) ELSE eps[i]]
  /\ rval' = IF exits THEN value ELSE rval
  /\ cval' = IF exits THEN 0 ELSE cval
  /\ seen' = Append(seen, [path |-> Current.path, true |-> true])
  /\ Go("loop")
  /\ UNCHANGED <<flags, stream, at, g_entry, blocked, s, handler>>

EvaluateWith(execs, status, exits, value, true) ==
  /\ step = "eval"
  /\ eps' = [i \in DOMAIN eps |->
               IF i \in execs THEN CollectPath(eps[i], Current.path, status[i]) ELSE eps[i]]
  /\ rval' = IF exits THEN value ELSE rval
  /\ cval' = IF exits THEN 0 ELSE cval
  /\ seen' = Append(seen, [path |-> Current.path, true |-> true])
  /\ SigLock
  /\ Go("loop")
  /\ UNCHANGED <<flags, stream, at, g_entry, handler>>

-----------------------------------------------------------------------------
(* The loop ends because of -exit; g_entry stays. *)
Leave ==
  /\ step = "loop" /\ cval = 0
  /\ Go("end")
  /\ UNCHANGED <<flags, stream, at, g_entry, blocked, s, handler, rval, cval, eps, seen>>

(* fts_read() failed: err(1), with nothing cleaned up. *)
FtsReadFailed ==
  /\ step = "failed"
  /\ SigUnlock
  /\ rval' = 1
  /\ Go("died")
  /\ UNCHANGED <<flags, stream, at, g_entry, handler, cval, eps, seen>>

(* find_traverse() with plan_cleanup(), which comes to the execs reached:  *)
(* the last non-zero value is kept.                                        *)
TraverseWith(reached, status) ==
  LET done == [i \in DOMAIN eps |->
                 IF i \in reached THEN CleanUp(eps[i], status[i]) ELSE eps[i]]
      failed == {i \in reached : done[i].rval # 0}
  IN  /\ step = "end"
      /\ SigUnlock
      /\ eps' = done
      /\ rval' = IF failed # {} THEN done[Max(failed)].rval ELSE rval
      /\ Go("exit")
      /\ UNCHANGED <<flags, stream, at, g_entry, handler, cval, seen>>

(* What every plan leaves to it: execs, of those at the places. *)
EvaluateAny ==
  \E execs \in SUBSET DOMAIN eps, status \in [DOMAIN eps -> Statuses],
     exits \in BOOLEAN, value \in ExitValues, true \in SUBSET Nat :
    EvaluateWith(execs, status, exits, value, true)

TraverseAny ==
  \E reached \in SUBSET DOMAIN eps, status \in [DOMAIN eps -> Statuses] :
    TraverseWith(reached, status)

LoopNext ==
  \/ Open \/ FtsReadStarts \/ FtsReadReturns \/ FtsReadFailed
  \/ Skip \/ Warn \/ GoOn \/ LetIn \/ Leave
  \/ EvaluateAny \/ TraverseAny

LoopSpec == (\E n \in Nat : LoopInit(1 .. n)) /\ [][LoopNext]_loopVars

-----------------------------------------------------------------------------
(* Every variable keeps its type. *)
LoopTypeOK ==
  /\ flags \in Flags
  /\ stream \in Streams /\ at \in 0 .. Len(stream)
  /\ g_entry \in {"NULL", "live", "freed"}
  /\ {blocked, s, handler} \subseteq BOOLEAN
  /\ rval \in -1 .. 255 /\ cval \in {0, 1}
  /\ \E n \in Nat : eps \in [1 .. n -> Batch]
  /\ seen \in Seq([path : Paths, true : SUBSET Nat])

(* Whenever the SIGINFO handler may run, the entry that it prints is one   *)
(* that fts has returned and not taken back (misc.c:113).                  *)
HandlerReadsEntry == handler /\ ~blocked => g_entry # "freed"

(* find leaves SIGINFO as it found it: sig_lock() and sig_unlock() are     *)
(* paired on every way through the loop, else the mask saved would be one  *)
(* with SIGINFO blocked.                                                   *)
MaskRestored == step \in {"exit", "died"} => ~blocked
=============================================================================
