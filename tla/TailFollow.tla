----------------------------- MODULE TailFollow -----------------------------
(***************************************************************************)
(* tail -f and -F: the loop of forward() (src/tail/forward.c), while the   *)
(* file is written to, truncated, renamed and made anew by others.         *)
(*                                                                         *)
(* A byte is known by its file, by how often that file had been truncated  *)
(* and by its place.  st_ino, st_dev and st_rdev are the file itself: the  *)
(* open file's inode is not used again.  What kqueue(2) reports on a file  *)
(* is external: VNODE once after a rename, READ while the offset is not    *)
(* the end of the file; a descriptor that is closed loses its events.      *)
(* xerr(1, ...) ends the program, as in the original.                      *)
(***************************************************************************)
EXTENDS Integers, Sequences

CONSTANTS
  MaxFiles, MaxBytes, MaxCuts, MaxMoves,  \* bounds: files made, bytes in one,
                                         \* truncations, renames
  NONE

ASSUME TailAssumption ==
  {MaxFiles, MaxBytes, MaxCuts, MaxMoves} \subseteq Nat /\ MaxFiles > 0

VARIABLES
  name,      \* the file fname stands for, or NONE
  files,     \* the files made so far are 1 .. files
  sizes, cuts,
  moves,     \* the renames so far
  follow,    \* fflag: 0, 1 for -f, 2 for -F
  isStdin,   \* fp == stdin
  pc,        \* where forward() stands
  action,
  kq,        \* kq # -1
  fp, pos, eof,
  sbp, statbuf,
  armed,     \* the events that kq reports for fp
  renamed,   \* a VNODE event waits
  shown      \* what went to stdout

disk == <<name, files, sizes, cuts, moves>>
file == <<fp, pos, eof>>
events == <<armed, renamed>>
tailVars == <<disk, follow, isStdin, pc, action, kq, file, sbp, statbuf, events, shown>>

Files == 1 .. MaxFiles
Bytes == [file : Files, cut : 0 .. MaxCuts, k : 1 .. MaxBytes]

TypeOK ==
  /\ name \in Files \cup {NONE} /\ files \in Files /\ moves \in 0 .. MaxMoves
  /\ sizes \in [Files -> 0 .. MaxBytes] /\ cuts \in [Files -> 0 .. MaxCuts]
  /\ follow \in 0 .. 2 /\ isStdin \in BOOLEAN /\ kq \in BOOLEAN
  /\ pc \in {"read", "flush", "switch", "seek", "stat", "freopen", "out"}
  /\ action \in {"USE_SLEEP", "USE_KQUEUE", "ADD_EVENTS"}
  /\ fp \in Files /\ pos \in 0 .. MaxBytes /\ eof \in BOOLEAN
  /\ sbp \in Files /\ statbuf \in Files
  /\ armed \subseteq {"VNODE", "READ"} /\ renamed \in BOOLEAN
  /\ shown \in Seq(Bytes)

(* Behind the switch over the styles: the file is open, somewhere in it.   *)
(* kqueue() has worked, or the program is gone before action is set.       *)
TailInit ==
  /\ name = 1 /\ files = 1 /\ moves = 0
  /\ sizes \in {[f \in Files |-> IF f = 1 THEN n ELSE 0] : n \in 0 .. MaxBytes}
  /\ cuts = [f \in Files |-> 0]
  /\ follow \in 0 .. 2 /\ isStdin \in BOOLEAN /\ kq = (follow # 0)
  /\ pc = "read" /\ action = "USE_SLEEP"
  /\ fp = 1 /\ pos \in 0 .. sizes[1] /\ eof = FALSE
  /\ sbp = 1 /\ statbuf = 1 /\ armed = {} /\ renamed = FALSE /\ shown = <<>>

-----------------------------------------------------------------------------
(* What others do. *)

WriteTo(f) ==
  /\ sizes[f] < MaxBytes /\ sizes' = [sizes EXCEPT ![f] = @ + 1]
  /\ UNCHANGED <<name, files, cuts, moves, renamed>>

Truncate(f) ==
  /\ sizes[f] > 0 /\ cuts[f] < MaxCuts
  /\ sizes' = [sizes EXCEPT ![f] = 0] /\ cuts' = [cuts EXCEPT ![f] = @ + 1]
  /\ UNCHANGED <<name, files, moves, renamed>>

Rename ==
  /\ name # NONE /\ moves < MaxMoves /\ moves' = moves + 1
  /\ name' = NONE /\ renamed' = (renamed \/ (name = fp /\ "VNODE" \in armed))
  /\ UNCHANGED <<files, sizes, cuts>>

Create ==
  /\ name = NONE /\ files < MaxFiles /\ files' = files + 1 /\ name' = files'
  /\ UNCHANGED <<sizes, cuts, moves, renamed>>

RenameBack ==
  /\ name = NONE /\ name' = files
  /\ UNCHANGED <<files, sizes, cuts, moves, renamed>>

Others ==
  /\ (\E f \in 1 .. files : WriteTo(f) \/ Truncate(f)) \/ Rename \/ Create \/ RenameBack
  /\ UNCHANGED <<follow, isStdin, pc, action, kq, file, sbp, statbuf, armed, shown>>

-----------------------------------------------------------------------------
(* forward(). *)

Goto(place) == pc' = place
Follows == follow = 2 /\ ~isStdin      \* the name, not only the file

(* getc() and putchar() up to what is there. *)
Read ==
  /\ pc = "read" /\ ~eof /\ pos < sizes[fp]
  /\ shown' = shown \o [i \in 1 .. sizes[fp] - pos |->
                          [file |-> fp, cut |-> cuts[fp], k |-> pos + i]]
  /\ pos' = sizes[fp]
  /\ UNCHANGED <<disk, follow, isStdin, pc, action, kq, fp, eof, sbp, statbuf, events>>

EndOfFile ==
  /\ pc = "read" /\ (eof \/ pos >= sizes[fp])
  /\ eof' = TRUE /\ Goto("flush")
  /\ UNCHANGED <<disk, follow, isStdin, action, kq, fp, pos, sbp, statbuf, events, shown>>

(* fflush(), and without -f the end; clearerr(). *)
(* Variant: the end of file stays. *)
FlushKeepsEof ==
  /\ pc = "flush"
  /\ IF follow = 0 THEN Goto("out") ELSE Goto("switch")
  /\ UNCHANGED <<disk, follow, isStdin, action, kq, file, sbp, statbuf, events, shown>>

Flush ==
  /\ pc = "flush"
  /\ IF follow = 0 THEN Goto("out") /\ UNCHANGED eof
     ELSE Goto("switch") /\ eof' = FALSE
  /\ UNCHANGED <<disk, follow, isStdin, action, kq, fp, pos, sbp, statbuf, events, shown>>

(* case ADD_EVENTS; kevent() may refuse. *)
AddEvents ==
  /\ pc = "switch" /\ action = "ADD_EVENTS" /\ Goto("read")
  /\ \/ /\ armed' = {"READ"} \cup (IF Follows THEN {"VNODE"} ELSE {})
        /\ action' = "USE_KQUEUE" /\ UNCHANGED kq
     \/ /\ armed' = {} /\ kq' = FALSE /\ action' = "USE_SLEEP"
  /\ renamed' = FALSE
  /\ UNCHANGED <<disk, follow, isStdin, file, sbp, statbuf, shown>>

(* case USE_KQUEUE: kevent() waits for one event.  The file was rotated;   *)
(* it shrank, and is positioned at its end; or there is more to read.      *)
Kevent ==
  /\ pc = "switch" /\ action = "USE_KQUEUE"
  /\ \/ /\ "VNODE" \in armed /\ renamed /\ renamed' = FALSE
        /\ action' = "USE_SLEEP" /\ Goto("read")
     \/ /\ "READ" \in armed /\ pos # sizes[fp]
        /\ Goto(IF sizes[fp] < pos THEN "seek" ELSE "read")
        /\ UNCHANGED <<action, renamed>>
  /\ UNCHANGED <<disk, follow, isStdin, kq, file, sbp, statbuf, armed, shown>>

SeekToEnd ==
  /\ pc = "seek" /\ pos' = sizes[fp] /\ Goto("read")
  /\ UNCHANGED <<disk, follow, isStdin, action, kq, fp, eof, sbp, statbuf, events, shown>>

(* case USE_SLEEP: sleep(1), and with -F a look at the name. *)
Sleep ==
  /\ pc = "switch" /\ action = "USE_SLEEP"
  /\ Goto(IF Follows THEN "stat" ELSE "read")
  /\ UNCHANGED <<disk, follow, isStdin, action, kq, file, sbp, statbuf, events, shown>>

Stat ==
  /\ pc = "stat"
  /\ IF name = NONE THEN Goto("read") /\ UNCHANGED <<action, statbuf>>
     ELSE /\ statbuf' = name
          /\ IF name # sbp THEN Goto("freopen") /\ UNCHANGED action
             ELSE Goto("read") /\ action' = IF kq THEN "USE_KQUEUE" ELSE action
  /\ UNCHANGED <<disk, follow, isStdin, kq, file, sbp, events, shown>>

(* Variant: sbp keeps the file of before. *)
FreopenKeepsSbp ==
  /\ pc = "freopen"
  /\ IF name = NONE
     THEN Goto("out") /\ UNCHANGED <<action, file, sbp, events>>
     ELSE /\ fp' = name /\ pos' = 0 /\ eof' = FALSE /\ armed' = {} /\ renamed' = FALSE
          /\ action' = (IF kq THEN "ADD_EVENTS" ELSE action)
          /\ Goto("read") /\ UNCHANGED sbp
  /\ UNCHANGED <<disk, follow, isStdin, kq, statbuf, shown>>

Freopen ==
  /\ pc = "freopen"
  /\ IF name = NONE
     THEN Goto("out") /\ UNCHANGED <<action, file, sbp, events>>
     ELSE /\ fp' = name /\ pos' = 0 /\ eof' = FALSE /\ armed' = {} /\ renamed' = FALSE
          /\ sbp' = statbuf /\ action' = (IF kq THEN "ADD_EVENTS" ELSE action)
          /\ Goto("read")
  /\ UNCHANGED <<disk, follow, isStdin, kq, statbuf, shown>>

(* getc(), fseek() or kevent() fails: ierr() and return, or xerr(). *)
Fail ==
  /\ pc \in {"read", "seek"} \/ (pc = "switch" /\ action = "USE_KQUEUE")
  /\ Goto("out")
  /\ UNCHANGED <<disk, follow, isStdin, action, kq, file, sbp, statbuf, events, shown>>

Forward ==
  \/ Read \/ EndOfFile \/ Flush \/ AddEvents \/ Kevent \/ SeekToEnd
  \/ Sleep \/ Stat \/ Freopen

Over == pc = "out" /\ UNCHANGED tailVars

TailNext == Others \/ Forward \/ Fail \/ Over
=============================================================================
