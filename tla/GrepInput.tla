----------------------------- MODULE GrepInput -----------------------------
(***************************************************************************)
(* How grep reads its lines (src/grep/file.c): one buffer that read() or   *)
(* the decompressor fills, and a second one in which a line that crosses   *)
(* the end of the first is put together.  bufpos and bufrem are buf, what  *)
(* is left of the first buffer; both buffers outlive the file.             *)
(*                                                                         *)
(* A file is its bytes as grep should see them; packed says that on disk   *)
(* it is in bzip2's format.  Read errors may come at any time.             *)
(***************************************************************************)
EXTENDS Integers, SequencesExt

CONSTANTS
  Settings,      \* of the variables below, those to consider
  NL, NUL,       \* the two bytes that grep looks for
  MAXBUFSIZ,     \* bytes of the read buffer
  LNBUFBUMP      \* what the line buffer grows by

ASSUME BufferAssumption ==
  /\ MAXBUFSIZ \in Nat \ {0} /\ LNBUFBUMP \in Nat \ {0}
  /\ NL # NUL

(* The variables of grep that its options set (grep.h), read by file.c,    *)
(* util.c and queue.c.                                                     *)
NoLimit == -1          \* no -m

Setting ==
  [A : Nat, B : Nat,                            \* -A, -B, -C
   m : Nat \cup {NoLimit},                      \* -m: mflag with mcount
   c : BOOLEAN, l : BOOLEAN, L : BOOLEAN, q : BOOLEAN, v : BOOLEAN,
   z : BOOLEAN,                                 \* -z: nulldataflag, line_sep
   finclude : BOOLEAN,                          \* --include was given
   bin : {"BIN", "SKIP", "TEXT"},               \* binbehave
   file : {"STDIO", "GZIP", "BZIP"},            \* filebehave
   dirs : {"READ", "SKIP", "RECURSE"}]          \* dirbehave

ASSUME SettingsAssumption == Settings \subseteq Setting

VARIABLES
  opt,         \* the settings in use
  file,        \* the file that is open
  offset,      \* where its descriptor stands
  buf,         \* what is left in the read buffer
  lnbuf,       \* what the line buffer holds
  lnbuflen,    \* the size it was allocated with
  bz,          \* bzbufdesc: "none", "open", or "ended" after BZ_STREAM_END
  binary,      \* f->binary
  dat,         \* the line that grep_fgetln() returned, empty for none
  taken,       \* history: the lines returned for this file
  failed,      \* history: a read has failed
  io           \* "closed", "init", "ready", "fgetln" or "lnbuf"

inputVars ==
  <<file, offset, buf, lnbuf, lnbuflen, bz, binary, dat, taken, failed, io>>

line_sep == IF opt.z THEN NUL ELSE NL

NoFile == [data |-> <<>>, packed |-> FALSE]

InputInit ==
  /\ file = NoFile /\ offset = 0
  /\ buf = <<>> /\ lnbuf = <<>> /\ lnbuflen = 0
  /\ bz = "none" /\ binary = FALSE
  /\ dat = <<>> /\ taken = <<>> /\ failed = FALSE
  /\ io = "closed"

-----------------------------------------------------------------------------
(* grep_refill(): what one call may do.  read() may give less than it is   *)
(* asked for; the decompressor gives all that fits, says BZ_STREAM_END     *)
(* once and fails after it, and a plain file is read from the start.       *)
Failure == [ok |-> FALSE, got |-> <<>>, offset |-> offset, bz |-> bz]

Reads(from, n, stream) ==
  [ok |-> TRUE, got |-> SubSeq(file.data, from + 1, from + n),
   offset |-> from + n, bz |-> stream]

Least(a, b) == IF a <= b THEN a ELSE b
Room(from) == Least(MAXBUFSIZ, Len(file.data) - from)

PlainReads(from) ==
  {Reads(from, n, "none") : n \in IF Room(from) = 0 THEN {0} ELSE 1 .. Room(from)}

Unpacked ==
  {Reads(offset, Room(offset), stream) :
     stream \in IF offset + Room(offset) < Len(file.data) THEN {"open"}
                ELSE IF Room(offset) < MAXBUFSIZ THEN {"ended"} ELSE {"open", "ended"}}

Refills ==
  {Failure} \cup
  CASE bz = "none"                  -> PlainReads(offset)
    [] bz = "open" /\ file.packed   -> Unpacked
    [] bz = "open" /\ ~file.packed /\ file.data # <<>> -> PlainReads(0)
    [] OTHER                        -> {}

Refilled(r) ==
  /\ buf' = r.got /\ offset' = r.offset /\ bz' = r.bz
  /\ failed' = ~r.ok

-----------------------------------------------------------------------------
(* grep_open() and grep_file_init().  gzdopen() refuses the mode "f". *)
Open(f) ==
  /\ io = "closed"
  /\ file' = f /\ offset' = 0
  /\ bz' = IF opt.file = "BZIP" THEN "open" ELSE "none"
  /\ binary' = FALSE /\ taken' = <<>> /\ failed' = FALSE
  /\ io' = "init"
  /\ UNCHANGED <<buf, lnbuf, lnbuflen, dat>>

FirstFill ==
  /\ io = "init" /\ opt.file # "GZIP"
  /\ \E r \in Refills :
       /\ Refilled(r)
       /\ binary' = (~opt.z /\ opt.bin # "TEXT" /\ NUL \in ToSet(r.got))
       /\ io' = IF r.ok THEN "ready" ELSE "closed"
  /\ UNCHANGED <<file, lnbuf, lnbuflen, dat, taken>>

CannotDecompress ==
  /\ io = "init" /\ opt.file = "GZIP"
  /\ failed' = TRUE /\ io' = "closed"
  /\ UNCHANGED <<file, offset, buf, lnbuf, lnbuflen, bz, binary, dat, taken>>

(* grep_close() *)
Close ==
  /\ buf' = <<>> /\ lnbuf' = <<>> /\ lnbuflen' = 0
  /\ io' = "closed"
  /\ UNCHANGED <<file, offset, bz, binary, dat, taken, failed>>

-----------------------------------------------------------------------------
(* grep_fgetln(), cut before each of its calls of grep_refill(). *)
CallFgetln ==
  /\ io = "ready"
  /\ io' = "fgetln"
  /\ UNCHANGED <<file, offset, buf, lnbuf, lnbuflen, bz, binary, dat, taken, failed>>

Return(line) ==
  /\ dat' = line
  /\ taken' = IF line = <<>> THEN taken ELSE Append(taken, line)
  /\ io' = "ready"

HasLine(b) == line_sep \in ToSet(b)
LineLen(b) == CHOOSE i \in DOMAIN b : b[i] = line_sep /\ \A j \in 1 .. i - 1 : b[j] # line_sep
LineOf(b) == SubSeq(b, 1, LineLen(b))
AfterLine(b) == SubSeq(b, LineLen(b) + 1, Len(b))

Grown(newlen) == IF lnbuflen < newlen THEN newlen ELSE lnbuflen

(* The buffer is empty: fill it; no byte is the end, as is an error. *)
FillBuffer ==
  /\ io = "fgetln" /\ buf = <<>>
  /\ \E r \in Refills :
       /\ Refilled(r)
       /\ IF r.got = <<>> THEN Return(<<>>) ELSE UNCHANGED <<dat, taken, io>>
  /\ UNCHANGED <<file, lnbuf, lnbuflen, binary>>

TakeLine ==
  /\ io = "fgetln" /\ HasLine(buf)
  /\ Return(LineOf(buf))
  /\ buf' = AfterLine(buf)
  /\ UNCHANGED <<file, offset, lnbuf, lnbuflen, bz, binary, failed>>

(* The rest of the buffer goes to the line buffer... *)
StartLine ==
  /\ io = "fgetln" /\ buf # <<>> /\ ~HasLine(buf)
  /\ lnbuflen' = Grown(Len(buf) + LNBUFBUMP)
  /\ lnbuf' = buf
  /\ io' = "lnbuf"
  /\ UNCHANGED <<file, offset, buf, bz, binary, dat, taken, failed>>

(* ... and so does what is read until the line ends, the file or the luck. *)
MoreOfLine(r) ==
  /\ r.got # <<>> /\ ~HasLine(r.got)
  /\ buf' = r.got
  /\ lnbuflen' = Grown(Len(lnbuf) + Len(r.got) + LNBUFBUMP)
  /\ lnbuf' = lnbuf \o r.got
  /\ UNCHANGED <<dat, taken, io>>

(* Variant: the rest is copied to the beginning of the line buffer. *)
EndOfLineRestarts(r) ==
  /\ r.got # <<>> /\ HasLine(r.got)
  /\ buf' = AfterLine(r.got)
  /\ lnbuflen' = Grown(Len(lnbuf) + LineLen(r.got))
  /\ lnbuf' = LineOf(r.got)
  /\ Return(LineOf(r.got))

EndOfLine(r) ==
  /\ r.got # <<>> /\ HasLine(r.got)
  /\ buf' = AfterLine(r.got)
  /\ lnbuflen' = Grown(Len(lnbuf) + LineLen(r.got))
  /\ lnbuf' = lnbuf \o LineOf(r.got)
  /\ Return(lnbuf \o LineOf(r.got))

PartialLine(r) ==
  /\ r.got = <<>>
  /\ buf' = <<>>
  /\ Return(IF r.ok THEN lnbuf ELSE <<>>)
  /\ UNCHANGED <<lnbuf, lnbuflen>>

ContinueLine ==
  /\ io = "lnbuf"
  /\ \E r \in Refills :
       /\ offset' = r.offset /\ bz' = r.bz /\ failed' = ~r.ok
       /\ MoreOfLine(r) \/ EndOfLine(r) \/ PartialLine(r)
  /\ UNCHANGED <<file, binary>>

-----------------------------------------------------------------------------
(* What a caller is given, until a read fails: the lines of the file, each *)
(* whole and ending with the separator (the last one excepted), in order,  *)
(* nothing lost, repeated or taken from the file before, wherever the      *)
(* reads end and whether or not the file had to be started again; and no   *)
(* copy goes past the end of the line buffer (file.c:57, 120 to 160).      *)
IsLine(s) == Last(s) = line_sep /\ line_sep \notin ToSet(Front(s))

LinesAreTheFile ==
  /\ Len(lnbuf) <= lnbuflen
  /\ io \in {"ready", "fgetln", "lnbuf"} /\ ~failed =>
       /\ FlattenSeq(taken) \o (IF io = "lnbuf" THEN lnbuf ELSE buf)
            = SubSeq(file.data, 1, offset)
       /\ \A i \in DOMAIN taken :
            \/ IsLine(taken[i])
            \/ /\ i = Len(taken) /\ offset = Len(file.data)
               /\ line_sep \notin ToSet(taken[i])

-----------------------------------------------------------------------------
(* A statement of the source that the code does not keep. *)

(* "Make sure we exit with an error" (file.c:73): what was read is not     *)
(* given up silently, as the last line of a bzip2 file without a newline   *)
(* is, at the read after BZ_STREAM_END.                                    *)
NothingDropped == failed /\ io = "ready" => FlattenSeq(taken) = SubSeq(file.data, 1, offset)
=============================================================================
