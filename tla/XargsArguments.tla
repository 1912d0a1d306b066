--------------------------- MODULE XargsArguments ---------------------------
(***************************************************************************)
(* What the reader of xargs promises: the properties of XargsParse.        *)
(*                                                                         *)
(* The reference is Words, the arguments that the whole input stands for,  *)
(* found by reading it once from the left with no buffer, no limit and no  *)
(* command.  The properties relate the commands to it.                     *)
(***************************************************************************)
EXTENDS XargsParse, SequencesExt, Totals

(***************************************************************************)
(* The reference.  A scan holds the words that have ended, each with the   *)
(* line it ended on, and the word being read.  mode is "plain", "esc"      *)
(* after a backslash, or the quote that is open.                           *)
(***************************************************************************)
EmptyScan == [words |-> <<>>, cur |-> <<>>, real |-> FALSE,
              mode |-> "plain", line |-> 0]

EndWord(s) ==
  IF s.cur = <<>> /\ ~s.real THEN s
  ELSE [s EXCEPT !.words = Append(@, [text |-> s.cur, line |-> s.line]),
                 !.cur = <<>>, !.real = FALSE]

NextLine(s) == [s EXCEPT !.line = @ + 1]
Keep(s, ch) == [s EXCEPT !.cur = Append(@, ch), !.mode = IF @ = "esc" THEN "plain" ELSE @]

ScanNulls(s, ch) == IF ch = NUL THEN NextLine(EndWord(s)) ELSE Keep(s, ch)

ScanPlain(s, ch) ==
  CASE s.mode = "plain" /\ ch = SP     -> EndWord(s)
    [] s.mode = "plain" /\ ch = NL     -> NextLine(EndWord(s))
    [] s.mode = "plain" /\ ch = BS     -> [s EXCEPT !.mode = "esc"]
    [] s.mode = "plain" /\ ch \in {SQ, DQ} -> [s EXCEPT !.mode = ch, !.real = TRUE]
    [] s.mode \in {SQ, DQ} /\ ch = s.mode -> [s EXCEPT !.mode = "plain"]
    [] OTHER                           -> Keep(s, ch)

ScanOne(nulls, s, ch) == IF nulls THEN ScanNulls(s, ch) ELSE ScanPlain(s, ch)

ScanOf(nulls, input) ==
  LET scan[n \in 0 .. Len(input)] ==
        IF n = 0 THEN EmptyScan ELSE ScanOne(nulls, scan[n - 1], input[n])
  IN  scan[Len(input)]

Scan(input) == ScanOf(opt.zflag, input)

(* The words of an input that stops here. *)
Words(input) == EndWord(Scan(input)).words
CStrings(words) == [i \in DOMAIN words |-> CString(words[i].text)]

(* What has been handed over, and what the buffer holds from bxp to xp. *)
Delivered == FlattenSeq([k \in DOMAIN cmds |-> cmds[k].args])
Waiting == IF pc = "parse" THEN Command(buf, xp, inpline).args ELSE <<>>

-----------------------------------------------------------------------------
ResumeType == [kind : {"none", "last", "limit"}]
              \cup [kind : {"overflow"}, ch : Char]

(* Every variable keeps its type. *)
TypeOK ==
  /\ opt \in Settings
  /\ read \in Seq(Char) /\ Len(read) <= MaxInput
  /\ buf \in Seq(Char) /\ argp \in Nat /\ xp \in Seq(Nat)
  /\ {insingle, indouble, wasquoted, overlapped} \subseteq BOOLEAN
  /\ count \in Nat
  /\ inpline \in Seq(Char) \cup {NULL}
  /\ cmds \in Seq([args : Seq(Seq(Char)), line : Seq(Char) \cup {NULL}])
  /\ resume \in ResumeType
  /\ pc \in {"parse", "run", "drain", "exit"}

(***************************************************************************)
(* The bytes of the arguments, terminators included, never exceed nline:   *)
(* "the -s count does include the trailing NULL" (xargs.c:228), so p stays *)
(* inside the nline + 1 bytes that main() allocates.  The overflow path    *)
(* stores a character after memcpy() without looking at ebp again, and is  *)
(* safe only because a complete argument has left the buffer.              *)
(***************************************************************************)
BufferInBounds == Len(buf) <= opt.nline /\ argp <= Len(buf)

(***************************************************************************)
(* The argument vector: the utility's words before replstr, the arguments, *)
(* the words after replstr and the closing NULL fit the slots that main()  *)
(* allocates (xargs.c:190), whatever limit ended the command.              *)
(***************************************************************************)
SlotsUnclosed == 1 + opt.argc * opt.nargs   \* variant: none for NULL
Slots == 1 + opt.argc * opt.nargs + 1
UtilityWords == IF opt.argc = 0 THEN 1
                ELSE IF opt.jfound THEN opt.argc - 1 - opt.jrest ELSE opt.argc
WordsAfter == IF opt.jfound THEN opt.jrest ELSE 0
ArgvFits == UtilityWords + Len(xp) + WordsAfter + 1 <= Slots

ArgvInBounds == opt.argc > 0 => ArgvFits

(***************************************************************************)
(* At the end of the input every word has been in a command, except a lone *)
(* quoted empty word, which leaves p = bbp (xargs.c:257) and is dropped,   *)
(* even when its quote is still open.                                      *)
(* With -E the reading may stop early, but what was given is a prefix of   *)
(* the words and holds nothing that the code takes for the end-of-file     *)
(* string: that string or a prefix of it (xargs.c:292).                    *)
(***************************************************************************)
LoneEmptyWord == buf = <<>> /\ wasquoted

AllWordsDelivered ==
  pc = "drain" /\ ~overlapped /\ ~opt.Iflag =>
    LET words == Words(read)
        given == IF LoneEmptyWord THEN Front(words) ELSE words
    IN  \/ opt.eofstr = <<>> /\ Delivered = CStrings(given)
        \/ /\ opt.eofstr # <<>>
           /\ IsPrefix(Delivered, CStrings(words))
           /\ \A i \in DOMAIN Delivered : ~StartsLike(words[i].text, opt.eofstr)

(***************************************************************************)
(* Every command fits: at most -n arguments, of at most -s bytes.  And it  *)
(* is full: a command that another word follows had -n arguments, or no    *)
(* room for that word.  (-L and -E end commands for another reason.)       *)
(***************************************************************************)
Bytes(words) == Total([i \in DOMAIN words |-> Len(words[i].text) + 1])
Before(k) == Len(FlattenSeq([j \in 1 .. k |-> cmds[j].args]))

CommandsAreFull ==
  ~overlapped /\ ~opt.Iflag /\ opt.Lflag = 0 /\ opt.eofstr = <<>> =>
    \A k \in DOMAIN cmds :
      LET words == Scan(read).words
          mine  == SubSeq(Words(read), Before(k - 1) + 1, Before(k))
      IN  /\ Len(mine) <= opt.nargs
          /\ Bytes(mine) <= opt.nline
          /\ Before(k) < Len(words) =>
               \/ Len(mine) = opt.nargs
               \/ Bytes(mine) + Len(words[Before(k) + 1].text) + 1 > opt.nline

(***************************************************************************)
(* -L and -I: the k-th command is the k-th group of Lflag lines, with all  *)
(* the words of these lines and no other, blank lines counted.  With -I    *)
(* the line that replaces replstr is the words of that line joined by      *)
(* spaces, and NULL for a blank line: nothing of an earlier line is left.  *)
(* (-n and -E, which end a command inside a group, are other options.)     *)
(***************************************************************************)
WordsOn(lines, words) ==
  FlattenSeq([i \in DOMAIN words |->
                IF words[i].line \in lines THEN <<words[i]>> ELSE <<>>])

LinesOf(k) == (k - 1) * opt.Lflag .. k * opt.Lflag - 1

Join(texts) ==
  LET join[n \in 0 .. Len(texts)] ==
        IF n = 0 THEN NULL ELSE JoinLine(join[n - 1], texts[n])
  IN  join[Len(texts)]

FollowsLines(k, words) ==
  LET texts == CStrings(WordsOn(LinesOf(k), words))
  IN  IF opt.Iflag THEN cmds[k].line = Join(texts) ELSE cmds[k].args = texts

OnlyLines ==
  opt.Lflag > 0 /\ opt.nargs > MaxInput /\ opt.argc > 0 /\ opt.eofstr = <<>>

CommandsFollowLines ==
  OnlyLines => \A k \in DOMAIN cmds : FollowsLines(k, Words(read))

-----------------------------------------------------------------------------
(* Statements of the source that the code does not keep. *)

(* "Do not make empty args unless they are quoted" (xargs.c:294): a quoted *)
(* empty argument is made, and so reaches a command.                       *)
QuotedEmptyIsMade ==
  pc = "drain" /\ ~quoted /\ ~overlapped /\ opt.eofstr = <<>> /\ ~opt.Iflag =>
    Delivered = CStrings(Words(read))

(* "Allocate pointers or teh utility name, the utility arguments, the      *)
(* maximum arguments to be read from stdin and the trailing NULL"          *)
(* (xargs.c:186), for every number of utility words.                       *)
ArgvIsAllocated == ArgvFits
=============================================================================
