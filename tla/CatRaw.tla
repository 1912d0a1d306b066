------------------------------- MODULE CatRaw -------------------------------
(***************************************************************************)
(* cat without -b, -e, -n, -s, -t, -v: main() from the lock on, raw_args() *)
(* and raw_cat() (src/cat/cat.c).  read(2) may give less than was asked    *)
(* for and write(2) may take less; both, open(2), fstat(2), malloc(3), the *)
(* lock and fclose(3) may fail.                                            *)
(*                                                                         *)
(* A byte is known by its input and its place in it.  What befalls an      *)
(* input is fixed from the start: "fine", "missing" (open() or fstat()     *)
(* fails), "irregular", or "broken", where read() fails behind the bytes   *)
(* it has; an input that no operand names is empty.  "-" is the standard   *)
(* input and is read on where it was left.                                 *)
(*                                                                         *)
(* raw_cat() writes past stdio, to which main() has printed (cat.c:30 and  *)
(* 76).  Of that text stdio may have written a part by then, as the buffer *)
(* of stdout and -u say; it keeps the rest, held, until fclose() or the    *)
(* exit() of err() writes it.                                              *)
(***************************************************************************)
EXTENDS Integers, SequencesExt

CONSTANTS
  Inputs,        \* the names, "-" among them
  Printed,       \* stands for the text of printf() as an input
  MaxText,       \* bound: bytes of that text
  MaxSize,       \* bound: bytes in an input
  MaxOperands,   \* bound: operands
  BUFSIZ,
  Sizes          \* what -B and st_blksize may say, 0 when nothing

ASSUME CatAssumption ==
  /\ "-" \in Inputs /\ Printed \notin Inputs
  /\ MaxText \in Nat /\ MaxSize \in Nat /\ BUFSIZ \in Nat \ {0} /\ Sizes \subseteq Nat

VARIABLES
  operands,      \* argv as raw_args() gets it
  size, fate,    \* of the inputs
  fflag, lflag,
  early, late,   \* how much of main()'s text is written before, and how much is held
  bsize, room,   \* the size asked for, and that of buf, 0 before it is set
  at,            \* where the program stands
  argv,          \* the operands left
  fd,            \* the input that is open
  offset,        \* of the next read in each input
  buf, off, nr,
  out,           \* what went to stdout
  rval

given == <<operands, size, fate, fflag, lflag, early, late>>
vars == <<given, bsize, room, at, argv, fd, offset, buf, off, nr, out, rval>>

(* main()'s text: what is written before raw_args(), and what is held. *)
Text(from, n) == [k \in 1 .. n |-> [input |-> Printed, k |-> from + k]]
Ahead == Text(0, early)
Held == Text(early, late)

Init ==
  /\ operands \in SeqOf(Inputs, MaxOperands)
  /\ size \in [Inputs -> 0 .. MaxSize]
  /\ fate \in [Inputs -> {"fine", "missing", "irregular", "broken"}]
  /\ fate["-"] \in {"fine", "broken"}
  /\ \A i \in Inputs \ (ToSet(operands) \cup {"-"}) : size[i] = 0 /\ fate[i] = "fine"
  /\ fflag \in BOOLEAN /\ lflag \in BOOLEAN /\ bsize \in Sizes /\ room = 0
  /\ \E n \in 1 .. MaxText : early \in 0 .. n /\ late = n - early
  /\ at = "main" /\ argv = operands /\ fd = "-"
  /\ offset = [i \in Inputs |-> 0]
  /\ buf = <<>> /\ off = 0 /\ nr = 0 /\ out = Ahead /\ rval = 0

(* err(): exit with EXIT_FAILURE.  exit() has stdio write what it holds,   *)
(* and that may fail on the way. *)
Die ==
  /\ at' = "died" /\ rval' = 1
  /\ \E n \in 0 .. late : out' = out \o SubSeq(Held, 1, n)

-----------------------------------------------------------------------------
(* The lock of stdout. *)
Lock ==
  /\ at = "main"
  /\ \/ at' = "args" /\ UNCHANGED <<out, rval>>
     \/ lflag /\ Die
  /\ UNCHANGED <<given, bsize, room, argv, fd, offset, buf, off, nr>>

(* One turn of raw_args(); without operands there is one, for stdin. *)
Missing(name) == name # "-" /\ fate[name] = "missing"
Irregular(name) == fflag /\ name # "-" /\ fate[name] = "irregular"
After == IF Len(argv) > 1 THEN "args" ELSE "end"       \* while (*argv)

Open ==
  /\ at = "args" /\ argv # <<>> /\ ~Missing(Head(argv)) /\ ~Irregular(Head(argv))
  /\ fd' = Head(argv) /\ argv' = Tail(argv) /\ at' = "buffer"
  /\ offset' = IF fd' = "-" THEN offset ELSE [offset EXCEPT ![fd'] = 0]
  /\ UNCHANGED <<given, bsize, room, buf, off, nr, out, rval>>

Skip ==
  /\ at = "args" /\ argv # <<>> /\ (Missing(Head(argv)) \/ Irregular(Head(argv)))
  /\ rval' = 1 /\ argv' = Tail(argv) /\ at' = After
  /\ UNCHANGED <<given, bsize, room, fd, offset, buf, off, nr, out>>

OpenStdin ==
  /\ at = "args" /\ argv = <<>> /\ at' = "buffer"
  /\ UNCHANGED <<given, bsize, room, argv, fd, offset, buf, off, nr, out, rval>>

(* The head of raw_cat(): buf is made once.  Without -B st_blksize is the  *)
(* size, if it is worth more than fb_buf; so is -B.                        *)
MakeBuffer ==
  /\ at = "buffer" /\ at' = "read"
  /\ IF room > 0 THEN UNCHANGED <<bsize, room>>
     ELSE \E blk \in Sizes :
       LET wanted == IF bsize = 0 /\ blk > BUFSIZ THEN blk ELSE bsize
       IN  \/ wanted > BUFSIZ /\ bsize' = wanted /\ room' = wanted
           \/ bsize' = BUFSIZ /\ room' = BUFSIZ
  /\ UNCHANGED <<given, argv, fd, offset, buf, off, nr, out, rval>>

(* read(): some bytes, the end, or an error. *)
ReadSome ==
  /\ at = "read" /\ offset[fd] < size[fd]
  /\ \E n \in 1 .. size[fd] - offset[fd] :
       /\ n <= bsize
       /\ buf' = [i \in 1 .. n |-> [input |-> fd, k |-> offset[fd] + i]]
       /\ offset' = [offset EXCEPT ![fd] = @ + n]
       /\ nr' = n
  /\ off' = 0 /\ at' = "write"
  /\ UNCHANGED <<given, bsize, room, argv, fd, out, rval>>

ReadEnd ==
  /\ at = "read" /\ offset[fd] = size[fd]
  /\ rval' = IF fate[fd] = "broken" THEN 1 ELSE rval
  /\ at' = IF argv # <<>> THEN "args" ELSE "end"
  /\ UNCHANGED <<given, bsize, room, argv, fd, offset, buf, off, nr, out>>

(* write() takes nw bytes from buf + off. *)
(* Variant: always from the head of buf.  *)
WriteFromHead ==
  /\ at = "write"
  /\ \/ \E nw \in 1 .. nr :
          /\ out' = out \o SubSeq(buf, 1, nw)
          /\ nr' = nr - nw /\ off' = off + nw
          /\ at' = (IF nr' = 0 THEN "read" ELSE "write") /\ UNCHANGED rval
     \/ Die /\ UNCHANGED <<nr, off>>
  /\ UNCHANGED <<given, bsize, room, argv, fd, offset, buf>>

Write ==
  /\ at = "write"
  /\ \/ \E nw \in 1 .. nr :
          /\ out' = out \o SubSeq(buf, off + 1, off + nw)
          /\ nr' = nr - nw /\ off' = off + nw
          /\ at' = (IF nr' = 0 THEN "read" ELSE "write") /\ UNCHANGED rval
     \/ Die /\ UNCHANGED <<nr, off>>
  /\ UNCHANGED <<given, bsize, room, argv, fd, offset, buf>>

(* fclose(stdout) writes what stdio holds, and fails when it cannot, or    *)
(* when close() fails behind it. *)
Close ==
  /\ at = "end"
  /\ \/ at' = "done" /\ out' = out \o Held /\ UNCHANGED rval
     \/ Die
  /\ UNCHANGED <<given, bsize, room, argv, fd, offset, buf, off, nr>>

Exited == at \in {"done", "died"} /\ UNCHANGED vars

Next ==
  \/ Lock \/ Open \/ Skip \/ OpenStdin \/ MakeBuffer
  \/ ReadSome \/ ReadEnd \/ Write \/ Close \/ Exited

Spec == Init /\ [][Next]_vars

-----------------------------------------------------------------------------
(* What each name is worth: all that is in it, except when it is left out, *)
(* and stdin only once. *)
Names == IF operands = <<>> THEN <<"-">> ELSE operands

LeftOut(i) == Missing(Names[i]) \/ Irregular(Names[i])
Again(i) == Names[i] = "-" /\ \E j \in 1 .. i - 1 : Names[j] = "-"
Whole(name) == [k \in 1 .. size[name] |-> [input |-> name, k |-> k]]

Pieces ==
  [i \in 1 .. Len(Names) |-> IF LeftOut(i) \/ Again(i) THEN <<>> ELSE Whole(Names[i])]

All == FlattenSeq(Pieces)
Fails(i) == LeftOut(i) \/ fate[Names[i]] = "broken"

(* What cat writes is what its operands hold, byte for byte and in order,  *)
(* whatever read() gives and write() takes (cat.c:201 to 293).  What       *)
(* main() printed (cat.c:30, 76) lies before it, or behind when stdio held *)
(* it, and never among the bytes of the operands; behind it lies nothing   *)
(* before fclose() or err().  The operands are whole when fclose() is      *)
(* called, the text too when it succeeds, and the status then tells        *)
(* whether an operand was left out or broke off (cat.c:97 to 101).  buf    *)
(* holds what is read into it.                                             *)
Exiting == at \in {"done", "died"}

TextAround ==
  \E k \in 0 .. Len(All), n \in 0 .. late :
    /\ out = Ahead \o SubSeq(All, 1, k) \o SubSeq(Held, 1, n)
    /\ ~Exiting => n = 0
    /\ at \in {"end", "done"} => k = Len(All)
    /\ at = "done" => n = late

CopiesInOrder ==
  /\ TextAround
  /\ at \in {"end", "done"} => rval = IF \E i \in DOMAIN Names : Fails(i) THEN 1 ELSE 0
  /\ at = "read" => bsize <= room
=============================================================================
