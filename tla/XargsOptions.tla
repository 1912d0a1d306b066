---------------------------- MODULE XargsOptions ----------------------------
(***************************************************************************)
(* main() of xargs (src/xargs/xargs.c): from the words of the command line *)
(* to the settings, the argument vector and the buffer that the reader     *)
(* works with.  The body of the getopt() loop closes only at the end of    *)
(* main(): after its first option the program goes on to read its input    *)
(* and never returns to getopt(), and without an option it never starts.   *)
(*                                                                         *)
(* A word has WordLen characters, and an option is one word with its       *)
(* argument: -E, -I and -J carry a word, the others a number.  getopt() is *)
(* the BSD one, which stops at the first word that is not an option.       *)
(***************************************************************************)
EXTENDS Integers, Sequences

CONSTANTS
  Words,       \* the words that are not options
  EMPTY,       \* the empty word
  Numbers,     \* the numbers given to options
  MaxWords,    \* bound: words on the command line
  WordLen,     \* strlen() of a word
  EchoLen,     \* strlen(_PATH_ECHO)
  ArgMax,      \* what ARG_MAX leaves after the environment
  DefaultArgs, \* nargs without -n (5000 in the source)
  IntMax       \* INT_MAX

(* What is assumed of the constants. *)
MainAssumption ==
  /\ EMPTY \notin Words
  /\ Numbers \subseteq Int
  /\ {MaxWords, WordLen, EchoLen, ArgMax} \subseteq Nat
  /\ {DefaultArgs, IntMax} \subseteq Nat \ {0}

Option ==
  [letter : {"0", "o", "p", "r", "t", "x", "?"}, arg : {EMPTY}]
  \cup [letter : {"E", "I", "J"}, arg : Words \cup {EMPTY}]
  \cup [letter : {"L", "n", "P", "R", "S", "s"}, arg : Numbers]

Word == Words \cup Option

VARIABLES
  argc,      \* the number of the utility's words
  argv,      \* the words from *argv on
  o,         \* the flags and limits
  jfound,    \* replstr of -J was met: argv holds the words after it
  linelen,   \* slots allocated for the argument vector
  bxp,       \* slots taken by the utility's words
  pc         \* "getopt", "settle", "parse", or how main() ended

vars == <<argc, argv, o, jfound, linelen, bxp, pc>>

Defaults ==
  [zflag |-> FALSE, oflag |-> FALSE, pflag |-> FALSE, tflag |-> FALSE,
   xflag |-> FALSE, Iflag |-> FALSE, Jflag |-> FALSE, nflag |-> FALSE,
   Lflag |-> 0, Rflag |-> 0, Sflag |-> 0, nargs |-> DefaultArgs,
   nline |-> ArgMax, maxprocs |-> 1, eofstr |-> EMPTY, replstr |-> EMPTY]

Init ==
  /\ argc = 0
  /\ argv \in UNION {[1 .. n -> Word] : n \in 0 .. MaxWords}
  /\ o = Defaults
  /\ jfound = FALSE /\ linelen = 0 /\ bxp = 0
  /\ pc = "getopt"

-----------------------------------------------------------------------------
Stop(how) == pc' = how /\ UNCHANGED <<argc, argv, o, jfound, linelen, bxp>>

(* getopt() returns -1 at once: main() falls off its end. *)
NoOption ==
  /\ pc = "getopt"
  /\ argv # <<>> => argv[1] \in Words
  /\ Stop("returned")

(* The switch on the option's letter. *)
Flag(letter, arg) ==
  CASE letter = "0" -> [o EXCEPT !.zflag = TRUE]
    [] letter = "o" -> [o EXCEPT !.oflag = TRUE]
    [] letter = "p" -> [o EXCEPT !.pflag = TRUE]
    [] letter = "r" -> o
    [] letter = "t" -> [o EXCEPT !.tflag = TRUE]
    [] letter = "x" -> [o EXCEPT !.xflag = TRUE]
    [] letter = "E" -> [o EXCEPT !.eofstr = arg]
    [] letter = "I" -> [o EXCEPT !.Jflag = FALSE, !.Iflag = TRUE, !.Lflag = 1,
                                 !.replstr = arg]
    [] letter = "J" -> [o EXCEPT !.Iflag = FALSE, !.Jflag = TRUE, !.replstr = arg]
    [] letter = "L" -> [o EXCEPT !.Lflag = arg]
    [] letter = "n" -> [o EXCEPT !.nflag = TRUE, !.nargs = arg]
    [] letter = "P" -> [o EXCEPT !.maxprocs = arg]
    [] letter = "R" -> [o EXCEPT !.Rflag = arg]
    [] letter = "S" -> [o EXCEPT !.Sflag = arg]
    [] letter = "s" -> [o EXCEPT !.nline = arg]

(* An unknown letter, or for -R and -S what is not a number. *)
BadOption ==
  /\ pc = "getopt"
  /\ argv # <<>> /\ argv[1] \in Option
  /\ \/ argv[1].letter = "?" /\ Stop("usage")
     \/ argv[1].letter \in {"R", "S"} /\ Stop("error")

GetOption ==
  /\ pc = "getopt"
  /\ argv # <<>> /\ argv[1] \in Option /\ argv[1].letter # "?"
  /\ \/ /\ argv[1].letter \in {"n", "P"} /\ argv[1].arg <= 0
        /\ Stop("error")
     \/ /\ ~(argv[1].letter \in {"n", "P"} /\ argv[1].arg <= 0)
        /\ o' = Flag(argv[1].letter, argv[1].arg)
        /\ argv' = Tail(argv) /\ argc' = Len(argv) - 1
        /\ pc' = "settle"
        /\ UNCHANGED <<jfound, linelen, bxp>>

-----------------------------------------------------------------------------
(* The usage checks, and the values that -I and -L imply. *)
BadUsage ==
  \/ ~o.Iflag /\ (o.Rflag # 0 \/ o.Sflag # 0)
  \/ o.xflag /\ ~o.nflag

(* Variant: -I and -L do not imply -x. *)
ImpliedNoExit ==
  [o EXCEPT !.Rflag = IF o.Iflag /\ @ = 0 THEN 5 ELSE @,
            !.Sflag = IF o.Iflag /\ @ = 0 THEN 255 ELSE @]

Implied ==
  [o EXCEPT !.Rflag = IF o.Iflag /\ @ = 0 THEN 5 ELSE @,
            !.Sflag = IF o.Iflag /\ @ = 0 THEN 255 ELSE @,
            !.xflag = @ \/ o.Iflag \/ o.Lflag # 0]

(* The int expression for linelen: what does not fit wraps around. *)
Wrap(n) == ((n + IntMax + 1) % (2 * IntMax + 2)) - (IntMax + 1)
SlotsUnclosed(words, arguments) == Wrap(1 + words * arguments)   \* none for NULL
SlotsFor(words, arguments) == Wrap(1 + words * arguments + 1)

(* Where replstr of -J stands among the utility's words, if it does. *)
ReplstrAt == {i \in DOMAIN argv : o.Jflag /\ argv[i] = o.replstr}
FirstReplstr == CHOOSE i \in ReplstrAt : \A j \in ReplstrAt : i <= j

(* strlen() of the utility's words, terminators included except echo's. *)
UtilityBytes ==
  IF argv = <<>> THEN EchoLen
  ELSE (Len(argv) - (IF ReplstrAt = {} THEN 0 ELSE 1)) * (WordLen + 1)

(***************************************************************************)
(* The rest of the loop's body, up to the first parse_input().  A negative *)
(* linelen is a size that malloc() cannot give.                            *)
(***************************************************************************)
Settle ==
  /\ pc = "settle"
  /\ \/ BadUsage /\ Stop("usage")
     \/ ~BadUsage /\ (o.Iflag \/ o.Jflag) /\ o.replstr = EMPTY /\ Stop("error")
     \/ /\ ~BadUsage /\ ~((o.Iflag \/ o.Jflag) /\ o.replstr = EMPTY)
        /\ \/ SlotsFor(argc, o.nargs) < 0 /\ Stop("error")
           \/ o.nline - UtilityBytes <= 0 /\ Stop("error")
           \/ /\ SlotsFor(argc, o.nargs) >= 0
              /\ o.nline - UtilityBytes > 0
              /\ linelen' = SlotsFor(argc, o.nargs)
              /\ o' = [Implied EXCEPT !.nline = @ - UtilityBytes]
              /\ jfound' = (ReplstrAt # {})
              /\ bxp' = IF argv = <<>> THEN 1
                        ELSE IF ReplstrAt # {} THEN FirstReplstr - 1 ELSE Len(argv)
              /\ argv' = IF ReplstrAt # {}
                         THEN SubSeq(argv, FirstReplstr + 1, Len(argv)) ELSE <<>>
              /\ pc' = "parse"
              /\ UNCHANGED argc

Next == NoOption \/ BadOption \/ GetOption \/ Settle

Spec == Init /\ [][Next]_vars

-----------------------------------------------------------------------------
(* Every variable keeps its type. *)
TypeOK ==
  /\ argv \in Seq(Word) /\ argc \in 0 .. MaxWords
  /\ DOMAIN o = DOMAIN Defaults
  /\ {o.zflag, o.oflag, o.pflag, o.tflag, o.xflag, o.Iflag, o.Jflag, o.nflag,
      jfound} \subseteq BOOLEAN
  /\ {o.Lflag, o.Rflag, o.Sflag, o.nargs, o.nline, o.maxprocs} \subseteq Int
  /\ {o.eofstr, o.replstr} \subseteq Words \cup {EMPTY}
  /\ linelen \in 0 .. IntMax /\ bxp \in Nat
  /\ pc \in {"getopt", "settle", "parse", "returned", "usage", "error"}

(* What the reader and run() are modelled with: the limits are positive,   *)
(* -x is on exactly for -I and -L, and of the options that XargsParse and  *)
(* XargsRun combine with one another no two are in effect: -p comes with   *)
(* one process only, -n with no -L, -J or -I, and -I with its own -L 1.    *)
ReaderSettings ==
  pc = "parse" =>
    /\ o.nargs > 0 /\ o.nline > 0 /\ o.maxprocs > 0
    /\ o.xflag <=> o.Iflag \/ o.Lflag # 0
    /\ o.pflag => o.maxprocs = 1
    /\ o.nargs # DefaultArgs => ~o.xflag /\ ~jfound /\ o.maxprocs = 1
    /\ o.Iflag => o.Lflag = 1 /\ ~jfound /\ o.Rflag # 0 /\ o.replstr # EMPTY
    /\ jfound => o.replstr # EMPTY

(* The utility's words, nargs arguments, the words after replstr and NULL  *)
(* fit the slots, when there is a utility and int holds their number.      *)
ArgvFits == bxp + o.nargs + Len(argv) + 1 <= linelen

-----------------------------------------------------------------------------
(* Statements of the source that the code does not keep. *)

(* "[-0opt] [-E eofstr] ... [utility [argument ...]]" (xargs.c:640): every *)
(* option may be left out, and the utility is run all the same.            *)
OptionsAreOptional == pc # "returned"

(* "Allocate pointers or teh utility name, the utility arguments, the      *)
(* maximum arguments to be read from stdin and the trailing NULL"          *)
(* (xargs.c:186), for every -n and every utility that has a word.          *)
ArgvIsAllocated == pc = "parse" /\ argc > 0 => ArgvFits
=============================================================================
