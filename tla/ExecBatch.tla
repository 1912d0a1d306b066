----------------------------- MODULE ExecBatch -----------------------------
(***************************************************************************)
(* One "-exec utility ... {} +" of find from its creation to plan_cleanup()*)
(* at the end: find evaluates it for one path after another.               *)
(***************************************************************************)
EXTENDS ExecBuffer, Totals, SequencesExt

CONSTANT MaxPaths     \* bound: the paths it is evaluated for

ASSUME MaxPathsAssumption == MaxPaths \in Nat

VARIABLES
  ep,         \* its state
  given,      \* history: the paths it was evaluated for
  pc          \* "collect", "done" or "error"

vars == <<ep, given, pc>>

Init ==
  /\ \E size \in BufSizes : ep = NewBatch(size)
  /\ given = <<>> /\ pc = "collect"

Evaluate ==
  \E path \in Paths, status \in Statuses :
    /\ pc = "collect" /\ Len(given) < MaxPaths
    /\ Fits(ep, path) \/ FitsEmpty(ep)
    /\ given' = Append(given, path)
    /\ ep' = CollectPath(ep, path, status)
    /\ UNCHANGED pc

(* "insufficient space for argument", after the flush. *)
EvaluateFails ==
  \E path \in Paths, status \in Statuses :
    /\ pc = "collect" /\ Len(given) < MaxPaths
    /\ ~Fits(ep, path) /\ ~FitsEmpty(ep)
    /\ ep' = RunExec(ep, status)
    /\ pc' = "error"
    /\ UNCHANGED given

(* vfork() fails before anything was changed. *)
VforkFails ==
  /\ pc = "collect"
  /\ pc' = "error"
  /\ UNCHANGED <<ep, given>>

Finish ==
  \E status \in Statuses :
    /\ pc = "collect"
    /\ ep' = CleanUp(ep, status)
    /\ pc' = "done"
    /\ UNCHANGED given

Next == Evaluate \/ EvaluateFails \/ VforkFails \/ Finish

Spec == Init /\ [][Next]_vars

-----------------------------------------------------------------------------
(* Every variable keeps its type. *)
TypeOK ==
  /\ ep \in Batch
  /\ given \in Seq(Paths) /\ Len(given) <= MaxPaths
  /\ pc \in {"collect", "done", "error"}

(* "Pathnames for which the primary is evaluated shall be aggregated into  *)
(* sets" (function.c:538): each path is in one command or waits for the    *)
(* next, in order, and when find is done none waits.                       *)
EachPathOnce ==
  /\ given = ep.sent \o ep.args
  /\ pc = "done" => ep.args = <<>>

(* Each path is stored in one of the ep_maxargs slots that c_exec() gives  *)
(* to paths (function.c:731): between two evaluations one is free, and a   *)
(* command is run with ep_maxargs paths at most, although f_exec() stores  *)
(* behind a flush without comparing (function.c:578).  So the NULL of      *)
(* run_f_exec() (function.c:627) lies one slot behind the vector at most;  *)
(* that a full command puts it there is NullHasSlot below.                 *)
SlotsKept(e) == Len(e.args) < MaxArgs /\ \A k \in DOMAIN e.ran : e.ran[k].n <= MaxArgs
NargInBounds == SlotsKept(ep)

(* As long as each path fits the buffer alone, the bytes stored fit the    *)
(* bufsize + 1 bytes allocated, although after a flush f_exec() asks for   *)
(* one byte only (function.c:577).                                         *)
PathsFit == \A path \in Paths : PathLen[path] <= ep.size
BytesInBounds == PathsFit => ep.p <= ep.size + 1

(* "If we have a non-zero exit status, preserve it" (function.c:662): what *)
(* find will exit with is the status of the last command that failed.      *)
StatusPreserved ==
  /\ ep.rval = 0 => \A k \in DOMAIN ep.ran : ep.ran[k].status = 0
  /\ ep.rval # 0 => \E k \in DOMAIN ep.ran :
                      /\ ep.ran[k].status = ep.rval
                      /\ \A j \in k + 1 .. Len(ep.ran) : ep.ran[j].status = 0

(* Commands are as full as they can be: one that was run before the end    *)
(* had ep_maxargs paths, or no room for the path that came next; and only  *)
(* a path that does not fit at all makes one run with no path.             *)
SentBefore(k) == Total([j \in 1 .. k |-> ep.ran[j].n])
Bytes(paths) == Total([j \in DOMAIN paths |-> PathLen[paths[j]] + 1])

BatchesAreFull ==
  \A k \in DOMAIN ep.ran :
    LET mine == SubSeq(ep.sent, SentBefore(k - 1) + 1, SentBefore(k))
        next == SentBefore(k) + 1
    IN  next <= Len(given) =>
          \/ Len(mine) = MaxArgs
          \/ Bytes(mine) + PathLen[given[next]] >= Ebp(ep)

-----------------------------------------------------------------------------
(* Statements of the source that the code does not keep. *)

(* "Confirm sufficient buffer space, then copy the path to the buffer"     *)
(* (function.c:559), for a path of any length.                             *)
SpaceIsConfirmed == ep.p <= ep.size + 1

(* "Ensure arg list is null terminated" (function.c:626): c_exec() gives   *)
(* ep_maxargs slots from ep_bxp on, so run_f_exec() must not store NULL    *)
(* behind as many paths.                                                                  *)
NullHasSlot == \A k \in DOMAIN ep.ran : ep.ran[k].n < MaxArgs
=============================================================================
