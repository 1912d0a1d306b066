----------------------------- MODULE ExecBuffer -----------------------------
(***************************************************************************)
(* The state of one "-exec utility ... {} +" of find (f_exec(),            *)
(* run_f_exec() and c_exec() in src/find/function.c): the paths collected  *)
(* for the next command, their bytes, and what is left of the commands     *)
(* that were run.  Pointers are offsets: ep_bbp is 0, and ep_bxp[0] is the *)
(* first slot behind the utility's own words.                              *)
(***************************************************************************)
EXTENDS Integers, Sequences

CONSTANTS
  Paths,       \* the path names
  PathLen,     \* their lengths
  BufSizes,    \* bufsize: what the utility's words may leave of MAXARG
  MaxArgs,     \* ep_maxargs, 5000 in the source
  Statuses     \* what run_f_exec() makes of a status: 0 to 255, -1 for a signal

ASSUME PathAssumption == PathLen \in [Paths -> Nat]
ASSUME BufferAssumption == BufSizes \subseteq Nat \ {0} /\ MaxArgs \in Nat \ {0, 1}
ASSUME StatusAssumption == Statuses \subseteq -1 .. 255

(***************************************************************************)
(* size is bufsize, args are the ep_narg paths collected, p is ep_p, and   *)
(* rval is ep_rval.                                                        *)
(* History: sent are the paths of the commands run so far, and ran tells   *)
(* of each how many it took and how it ended.                              *)
(***************************************************************************)
Batch == [size : BufSizes, args : Seq(Paths), p : Nat, rval : -1 .. 255,
          sent : Seq(Paths), ran : Seq([n : Nat, status : -1 .. 255])]

NewBatch(size) ==
  [size |-> size, args |-> <<>>, p |-> 0, rval |-> 0, sent |-> <<>>, ran |-> <<>>]

Ebp(ep) == ep.size - 1

Copied(ep, path) ==
  [ep EXCEPT !.args = Append(@, path), !.p = @ + PathLen[path] + 1]

(* Variant: the byte count is not reset. *)
RunExecKeepsP(ep, status) ==
  [ep EXCEPT !.args = <<>>, !.p = @,
             !.rval = IF status # 0 THEN status ELSE @,
             !.sent = @ \o ep.args,
             !.ran = Append(@, [n |-> Len(ep.args), status |-> status])]

(* run_f_exec(): the utility is run with what there is, even with nothing. *)
RunExec(ep, status) ==
  [ep EXCEPT !.args = <<>>, !.p = 0,
             !.rval = IF status # 0 THEN status ELSE @,
             !.sent = @ \o ep.args,
             !.ran = Append(@, [n |-> Len(ep.args), status |-> status])]

(* Variant: one byte is asked for, as after a flush. *)
FitsOneByte(ep, path) == ep.p + 1 < Ebp(ep)
Fits(ep, path) == ep.p + PathLen[path] < Ebp(ep)

(* After the flush one byte is asked for, whatever the path's length. *)
FitsEmpty(ep) == 1 < Ebp(ep)

(* Variants: the path that did not fit is forgotten after the flush; the   *)
(* command is run one path too late.                                       *)
CollectForgets(ep, path, status) ==
  LET more == Copied(ep, path)
  IN  CASE Fits(ep, path) /\ Len(more.args) = MaxArgs -> RunExec(more, status)
        [] Fits(ep, path) /\ Len(more.args) # MaxArgs -> more
        [] OTHER -> RunExec(ep, status)

CollectLate(ep, path, status) ==
  LET more == Copied(ep, path)
  IN  CASE Fits(ep, path) /\ Len(more.args) > MaxArgs -> RunExec(more, status)
        [] Fits(ep, path) /\ Len(more.args) <= MaxArgs -> more
        [] OTHER -> Copied(RunExec(ep, status), path)

(* f_exec() with F_PLUSSET; status is that of the command, if one is run. *)
CollectPath(ep, path, status) ==
  LET more == Copied(ep, path)
  IN  CASE Fits(ep, path) /\ Len(more.args) = MaxArgs -> RunExec(more, status)
        [] Fits(ep, path) /\ Len(more.args) # MaxArgs -> more
        [] OTHER -> Copied(RunExec(ep, status), path)

(* plan_cleanup() of an exec. *)
CleanUp(ep, status) == IF ep.args # <<>> THEN RunExec(ep, status) ELSE ep
=============================================================================
