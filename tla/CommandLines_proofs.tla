------------------------ MODULE CommandLines_proofs ------------------------
(***************************************************************************)
(* What FindMain keeps for every command line of find, XargsOptions for    *)
(* every command line of xargs, LsOptions for every list of options of ls  *)
(* and DateSet for every argument of date; the order in which ls shows its *)
(* entries; and what head and cat -n show of a file of any length.         *)
(***************************************************************************)
EXTENDS CommandLines, MCFunctions, SequenceFacts, FiniteSetTheorems

(* The inductive invariant: every path in the list has taken a word of its *)
(* own, which getopt() is behind; and getopt() is inside a word only when  *)
(* it is one of letters, so that it stops at the beginning of one.         *)
PathsBehind == paths \in Seq(Seq(STRING)) /\ Len(paths) < at
InsideLetters == letter = 1 \/ (IsOption(Word) /\ Word # <<"-", "-">>)

IInv == TypeOK /\ OneWalkMode /\ PathsBehind /\ InsideLetters

(* A letter is read from a word, and there is one. *)
LEMMA LetterInWord ==
  ASSUME TypeOK, AtLetter
  PROVE  /\ at \in 1 .. Len(argv) /\ Len(argv) \in Nat /\ Word = argv[at]
         /\ Word \in Words /\ Word \in Seq(STRING)
<1>1. argv \in Seq(Words) /\ at \in 1 .. Len(argv) + 1 /\ Len(argv) \in Nat
  BY DEF TypeOK
<1>2. CASE at <= Len(argv)
  BY <1>1, <1>2, WordsAssumption DEF Word
<1>3. CASE ~(at <= Len(argv))
  BY <1>3 DEF AtLetter, IsOption, Word, NULL
<1> QED
  BY <1>2, <1>3

(* The next letter is in the same word, or the first of the next one. *)
LEMMA AdvancePlace ==
  ASSUME TypeOK, AtLetter, Advance, UNCHANGED argv
  PROVE  /\ at' \in at .. Len(argv) + 1
         /\ at' <= Len(argv)' => letter' \in 1 .. Len(Word')
         /\ InsideLetters'
<1>1. /\ at \in 1 .. Len(argv) /\ Len(argv) \in Nat /\ Word = argv[at]
      /\ Word \in Words /\ Word \in Seq(STRING)
  BY LetterInWord
<1>2. letter \in 1 .. Len(Word) /\ Len(Word) \in Nat /\ argv \in Seq(Words)
  BY <1>1 DEF TypeOK
<1>3. CASE Rest # <<>>
  <2>1. letter' = letter + 1 /\ at' = at /\ Word' = Word
    BY <1>3 DEF Advance, Word
  <2>2. letter + 2 <= Len(Word)
    BY <1>1, <1>2, <1>3 DEF Rest
  <2>3. InsideLetters'
    BY <2>1 DEF InsideLetters, AtLetter
  <2> QED
    BY <1>1, <1>2, <2>1, <2>2, <2>3
<1>4. CASE Rest = <<>>
  <2>1. letter' = 1 /\ at' = at + 1
    BY <1>4 DEF Advance
  <2>2. at' <= Len(argv) => Word' \in Words
    BY <1>1, <1>2, <2>1 DEF Word
  <2>3. InsideLetters'
    BY <2>1 DEF InsideLetters
  <2> QED
    BY <1>1, <2>1, <2>2, <2>3, WordsAssumption
<1> QED
  BY <1>3, <1>4

(* The invariant holds when main() is called.                              *)
LEMMA InitInv == Init => IInv
<1> SUFFICES ASSUME Init PROVE IInv
  OBVIOUS
<1>1. PICK n \in 0 .. MaxWords : argv \in [1 .. n -> Words]
  BY DEF Init
<1>2. argv \in Seq(Words) /\ Len(argv) = n /\ n \in Nat /\ n <= MaxWords
  BY <1>1, MaxWordsAssumption
<1>3. 1 <= Len(argv) => Len(argv[1]) \in Nat /\ Len(argv[1]) > 0
  BY <1>1, <1>2, WordsAssumption
<1>4. TypeOK
  BY <1>2, <1>3 DEF Init, TypeOK, Word
<1> QED
  BY <1>4 DEF Init, IInv, OneWalkMode, PathsBehind, InsideLetters

(* Every step keeps the invariant: one case for each action.               *)
LEMMA StepInv == IInv /\ [Next]_vars => IInv'
<1> SUFFICES ASSUME IInv, [Next]_vars PROVE IInv'
  OBVIOUS
<1>1. /\ TypeOK /\ OneWalkMode /\ PathsBehind /\ InsideLetters
      /\ argv \in Seq(Words) /\ Len(argv) \in Nat /\ at \in 1 .. Len(argv) + 1
  BY DEF IInv, TypeOK
(* A letter that leaves the list alone. *)
<1>2. ASSUME AtLetter, Advance, UNCHANGED <<argv, paths, pc>>,
             ftsoptions' \subseteq {"NOSTAT", "PHYSICAL", "LOGICAL", "COMFOLLOW", "XDEV"},
             flags' \subseteq {"isdepth", "issort", "isxargs", "REG_EXTENDED"},
             OneWalkMode'
      PROVE  IInv'
  <2>1. /\ at' \in at .. Len(argv) + 1 /\ InsideLetters'
        /\ at' <= Len(argv)' => letter' \in 1 .. Len(Word')
    BY <1>1, <1>2, AdvancePlace
  <2>2. TypeOK'
    BY <1>1, <1>2, <2>1 DEF TypeOK
  <2> QED
    BY <1>1, <1>2, <2>1, <2>2 DEF IInv, PathsBehind
<1>3. ASSUME NEW c, NEW clear, NEW set, Walk(c, clear, set),
             set \subseteq {"NOSTAT", "PHYSICAL", "LOGICAL", "COMFOLLOW", "XDEV"},
             \/ "LOGICAL" \in clear /\ "PHYSICAL" \in set /\ "LOGICAL" \notin set
             \/ "PHYSICAL" \in clear /\ "LOGICAL" \in set /\ "PHYSICAL" \notin set
             \/ /\ {"LOGICAL", "PHYSICAL"} \cap clear = {}
                /\ {"LOGICAL", "PHYSICAL"} \cap set = {}
      PROVE  IInv'
  <2>1. OneWalkMode'
    BY <1>1, <1>3 DEF Walk, OneWalkMode
  <2>2. /\ AtLetter /\ Advance /\ UNCHANGED <<argv, flags, paths, pc>>
        /\ ftsoptions' \subseteq {"NOSTAT", "PHYSICAL", "LOGICAL", "COMFOLLOW", "XDEV"}
    BY <1>1, <1>3 DEF Walk, ReadsLetter, TypeOK
  <2> QED
    BY <1>1, <1>2, <2>1, <2>2 DEF TypeOK
<1>4. ASSUME NEW c, NEW flag \in {"isdepth", "issort", "isxargs", "REG_EXTENDED"},
             Flag(c, flag)
      PROVE  IInv'
  BY <1>1, <1>2, <1>4 DEF Flag, ReadsLetter, TypeOK, OneWalkMode
<1>5. CASE Path
  <2>1. /\ at \in 1 .. Len(argv) /\ Word \in Seq(STRING)
        /\ letter \in 1 .. Len(Word) /\ Len(Word) \in Nat
    BY <1>1, <1>5, LetterInWord DEF Path, ReadsLetter, TypeOK
  <2>2. /\ at' \in at + 1 .. Len(argv) + 1 /\ letter' = 1
        /\ UNCHANGED <<argv, ftsoptions, flags, pc>>
    BY <1>1, <1>5, <2>1 DEF Path
  <2>3. at' <= Len(argv)' => letter' \in 1 .. Len(Word')
    <3>1. at' <= Len(argv)' => Word' \in Words
      BY <1>1, <2>1, <2>2 DEF Word
    <3> QED
      BY <2>2, <3>1, WordsAssumption
  <2>4. paths' \in Seq(Seq(STRING)) /\ Len(paths') = Len(paths) + 1
    <3>1. Rest \in Seq(STRING)
      <4>1. letter + 2 \in 1 .. Len(Word) + 1 \/ letter + 2 > Len(Word)
        BY <2>1
      <4> QED
        BY <2>1, <4>1, SubSeqProperties DEF Rest
    <3>2. at < Len(argv) => argv[at + 1] \in Seq(STRING)
      BY <1>1, <2>1, WordsAssumption
    <3> QED
      BY <1>1, <1>5, <3>1, <3>2 DEF Path, PathsBehind
  <2>5. TypeOK' /\ OneWalkMode'
    BY <1>1, <2>1, <2>2, <2>3 DEF TypeOK, OneWalkMode
  <2> QED
    BY <1>1, <2>1, <2>2, <2>4, <2>5 DEF IInv, PathsBehind, InsideLetters
<1>6. CASE Complain
  BY <1>1, <1>2, <1>6 DEF Complain, TypeOK, OneWalkMode
<1>7. CASE GetOption
  <2>1. Follow => IInv'
    BY <1>3 DEF Follow
  <2> QED
    BY <1>3, <1>4, <1>5, <1>6, <1>7, <2>1 DEF GetOption
<1>8. CASE EndOptions
  <2>1. /\ at' \in at .. Len(argv) + 1 /\ pc' = "operands"
        /\ UNCHANGED <<argv, letter, ftsoptions, flags, paths>>
        /\ at' # at => at' = at + 1 /\ at <= Len(argv)
    <3>1. Word = <<"-", "-">> => at <= Len(argv)
      BY DEF Word, NULL
    <3>2. at \in 1 .. Len(argv) + 1 /\ Len(argv) \in Nat
      BY <1>1
    <3> QED
      BY <1>8, <3>1, <3>2 DEF EndOptions
  <2>2. letter = 1
    BY <1>1, <1>8 DEF InsideLetters, EndOptions
  <2>3. at' <= Len(argv)' => letter' \in 1 .. Len(Word')
    <3>1. at' <= Len(argv)' => Word' \in Words
      BY <1>1, <2>1 DEF Word
    <3> QED
      BY <2>1, <2>2, <3>1, WordsAssumption
  <2>4. TypeOK'
    BY <1>1, <2>1, <2>3 DEF TypeOK
  <2> QED
    BY <1>1, <2>1, <2>2, <2>4 DEF IInv, OneWalkMode, PathsBehind, InsideLetters
<1>9. ASSUME NEW how \in {"formplan", "returned", "usage", "error"}, Ends(how)
      PROVE  IInv'
  BY <1>1, <1>9 DEF Ends, IInv, TypeOK, Word, OneWalkMode, PathsBehind, InsideLetters
<1>10. CASE UNCHANGED vars
  BY <1>1, <1>10 DEF vars, IInv, TypeOK, Word, OneWalkMode, PathsBehind, InsideLetters
<1> QED
  BY <1>7, <1>8, <1>9, <1>10 DEF Next, Returns, Usage, OpenFails, FormPlan

(* What bounds the list: a path for a word at most, and a slot is left. *)
LEMMA InvFits == IInv => PathsFit
BY DEF IInv, TypeOK, PathsBehind, PathsFit, Slots

(* All of it holds in every state. *)
THEOREM MainInv == Spec => []IInv
<1>1. IInv /\ [Next]_vars => IInv'
  BY StepInv
<1> QED
  BY InitInv, <1>1, PTL DEF Spec

(* Every variable keeps its type, and getopt() never indexes a letter      *)
(* outside the word it is reading (main.c:50).                             *)
THEOREM MainTypeCorrect == Spec => []TypeOK
<1>1. IInv => TypeOK
  BY DEF IInv
<1> QED
  BY MainInv, <1>1, PTL

(* Whatever options are given, in whatever order, fts_open() gets exactly  *)
(* one of FTS_LOGICAL and FTS_PHYSICAL (main.c:51 to 85).                  *)
THEOREM OneWalkModeAlways == Spec => []OneWalkMode
<1>1. IInv => OneWalkMode
  BY DEF IInv
<1> QED
  BY MainInv, <1>1, PTL

(* The argc slots are enough for every path that -f gives and for the NULL *)
(* behind them, for command lines of every length (main.c:42 to 45).       *)
THEOREM PathsAlwaysFit == Spec => []PathsFit
<1> QED
  BY MainInv, InvFits, PTL

-----------------------------------------------------------------------------
(* Of xargs: what one option makes of the defaults. *)
FromDefaults == INSTANCE XargsOptions
  WITH Words <- XWords, MaxWords <- XMaxWords, argc <- xargc, argv <- xargv,
       pc <- xpc, o <- Xargs!Defaults

(* An option that the switch takes. *)
Taken(w) == w.letter # "?" /\ (w.letter \in {"n", "P"} => w.arg > 0)

(* The inductive invariant: the checks are made after one option, since    *)
(* the body of the loop is not closed before them; so no two options can   *)
(* meet which the reader's model keeps apart.                              *)
OneOption ==
  /\ xpc = "getopt" => o = Xargs!Defaults /\ ~jfound
  /\ xpc = "settle" =>
       /\ ~jfound
       /\ \E w \in Xargs!Option : Taken(w) /\ o = FromDefaults!Flag(w.letter, w.arg)

SettingsInv == OneOption /\ ReaderSettings

(* The defaults of the two instances are one. *)
LEMMA SameFlag == o = Xargs!Defaults =>
  \A l, a : Xargs!Flag(l, a) = FromDefaults!Flag(l, a)
BY DEF Xargs!Flag, FromDefaults!Flag

(* An option by its letter: what its argument is. *)
LEMMA OptionKinds ==
  ASSUME NEW w \in Xargs!Option, w.letter # "?"
  PROVE  \/ w.letter \in {"0", "o", "p", "r", "t", "x"}
         \/ w.letter \in {"E", "I", "J"}
         \/ w.letter \in {"L", "n", "P", "R", "S", "s"} /\ w.arg \in Int
BY XargsAssumption DEF Xargs!Option, Xargs!MainAssumption

(* getopt() hands over the first option, or main() is at an end. *)
LEMMA OptionStep ==
  ASSUME SettingsInv, Xargs!NoOption \/ Xargs!BadOption \/ Xargs!GetOption
  PROVE  SettingsInv'
<1>1. CASE Xargs!NoOption \/ Xargs!BadOption
  BY <1>1 DEF Xargs!NoOption, Xargs!BadOption, Xargs!Stop, SettingsInv, OneOption,
       ReaderSettings, Xargs!ReaderSettings
<1>2. CASE Xargs!GetOption
  <2>1. o = Xargs!Defaults /\ ~jfound
    BY <1>2 DEF Xargs!GetOption, SettingsInv, OneOption
  <2>2. CASE xpc' = "error"
    BY <1>2, <2>2 DEF SettingsInv, OneOption, ReaderSettings, Xargs!ReaderSettings
  <2>3. CASE xpc' # "error"
    <3>1. /\ xargv[1] \in Xargs!Option /\ xargv[1].letter # "?"
          /\ ~(xargv[1].letter \in {"n", "P"} /\ xargv[1].arg <= 0)
          /\ o' = Xargs!Flag(xargv[1].letter, xargv[1].arg)
          /\ xpc' = "settle" /\ jfound' = jfound
      BY <1>2, <2>3 DEF Xargs!GetOption, Xargs!Stop
    <3>2. PICK w \in Xargs!Option : w = xargv[1]
      BY <3>1
    <3>3. Taken(w)
      BY <3>1, <3>2, OptionKinds DEF Taken
    <3>4. o' = FromDefaults!Flag(w.letter, w.arg)'
      <4>1. FromDefaults!Flag(w.letter, w.arg)' = FromDefaults!Flag(w.letter, w.arg)
        BY DEF FromDefaults!Flag, Xargs!Defaults
      <4>2. o' = FromDefaults!Flag(w.letter, w.arg)
        BY <2>1, <3>1, <3>2, SameFlag
      <4> QED
        BY <4>1, <4>2
    <3>5. OneOption'
      BY <2>1, <3>1, <3>3, <3>4 DEF OneOption, Taken
    <3> QED
      BY <3>1, <3>5 DEF SettingsInv, ReaderSettings, Xargs!ReaderSettings
  <2> QED
    BY <2>2, <2>3
<1> QED
  BY <1>1, <1>2

(* What the words of the utility take from the buffer is a number, and the *)
(* buffer that is left has a byte. *)
LEMMA SettleFacts ==
  ASSUME SettingsInv, Xargs!Settle, xpc' = "parse"
  PROVE  /\ \E w \in Xargs!Option : Taken(w) /\ o = FromDefaults!Flag(w.letter, w.arg)
         /\ ~Xargs!BadUsage /\ ~((o.Iflag \/ o.Jflag) /\ o.replstr = EMPTY)
         /\ o.nline - Xargs!UtilityBytes > 0
         /\ o' = [Xargs!Implied EXCEPT !.nline = @ - Xargs!UtilityBytes]
         /\ jfound' = (Xargs!ReplstrAt # {})
BY DEF SettingsInv, OneOption, Xargs!Settle, Xargs!Stop

(* What an option leaves in the flags and limits. *)
OnlyFlag(l, arg) ==
  /\ o.xflag = (l = "x") /\ o.pflag = (l = "p") /\ o.nflag = (l = "n")
  /\ o.Iflag = (l = "I") /\ o.Jflag = (l = "J")
  /\ o.Lflag = (IF l = "L" THEN arg ELSE IF l = "I" THEN 1 ELSE 0)
  /\ o.Rflag = (IF l = "R" THEN arg ELSE 0) /\ o.Sflag = (IF l = "S" THEN arg ELSE 0)
  /\ o.nargs = (IF l = "n" THEN arg ELSE DefaultArgs)
  /\ o.maxprocs = (IF l = "P" THEN arg ELSE 1)
  /\ o = [f \in DOMAIN o |-> o[f]] /\ DOMAIN o = DOMAIN Xargs!Defaults

(* The flags after one option: each is what its letter says, or the        *)
(* default (xargs.c:91 to 155).                                            *)
LEMMA FlagSets ==
  ASSUME NEW w \in Xargs!Option, Taken(w), o = FromDefaults!Flag(w.letter, w.arg)
  PROVE  OnlyFlag(w.letter, w.arg)
<1> DEFINE l == w.letter
           arg == w.arg
<1>0. o = FromDefaults!Flag(l, arg)
  OBVIOUS
<1>1. l \in {"0", "o", "p", "r", "t", "x", "E", "I", "J", "L", "n", "P", "R", "S", "s"}
  BY OptionKinds DEF Taken
<1> SUFFICES OnlyFlag(l, arg)
  OBVIOUS
<1> HIDE DEF l, arg
<1>2. CASE l = "0"
  <2>1. o = [Xargs!Defaults EXCEPT !.zflag = TRUE]
    BY <1>0, <1>2 DEF FromDefaults!Flag
  <2> QED
    BY <1>2, <2>1 DEF Xargs!Defaults, OnlyFlag
<1>3. CASE l = "o"
  <2>1. o = [Xargs!Defaults EXCEPT !.oflag = TRUE]
    BY <1>0, <1>3 DEF FromDefaults!Flag
  <2> QED
    BY <1>3, <2>1 DEF Xargs!Defaults, OnlyFlag
<1>4. CASE l = "p"
  <2>1. o = [Xargs!Defaults EXCEPT !.pflag = TRUE]
    BY <1>0, <1>4 DEF FromDefaults!Flag
  <2> QED
    BY <1>4, <2>1 DEF Xargs!Defaults, OnlyFlag
<1>5. CASE l = "r"
  <2>1. o = Xargs!Defaults
    BY <1>0, <1>5 DEF FromDefaults!Flag
  <2>2. o = [f \in DOMAIN o |-> o[f]] /\ DOMAIN o = DOMAIN Xargs!Defaults
    BY <2>1 DEF Xargs!Defaults
  <2>3. /\ o.xflag = FALSE /\ o.pflag = FALSE /\ o.nflag = FALSE
        /\ o.Iflag = FALSE /\ o.Jflag = FALSE
        /\ o.Lflag = 0 /\ o.Rflag = 0 /\ o.Sflag = 0
        /\ o.nargs = DefaultArgs /\ o.maxprocs = 1
    BY <2>1 DEF Xargs!Defaults
  <2> QED
    BY <1>5, <2>2, <2>3 DEF OnlyFlag
<1>6. CASE l = "t"
  <2>1. o = [Xargs!Defaults EXCEPT !.tflag = TRUE]
    BY <1>0, <1>6 DEF FromDefaults!Flag
  <2> QED
    BY <1>6, <2>1 DEF Xargs!Defaults, OnlyFlag
<1>7. CASE l = "x"
  <2>1. o = [Xargs!Defaults EXCEPT !.xflag = TRUE]
    BY <1>0, <1>7 DEF FromDefaults!Flag
  <2> QED
    BY <1>7, <2>1 DEF Xargs!Defaults, OnlyFlag
<1>8. CASE l = "E"
  <2>1. o = [Xargs!Defaults EXCEPT !.eofstr = arg]
    BY <1>0, <1>8 DEF FromDefaults!Flag
  <2> QED
    BY <1>8, <2>1 DEF Xargs!Defaults, OnlyFlag
<1>9. CASE l = "I"
  <2>1. o = [Xargs!Defaults EXCEPT !.Jflag = FALSE, !.Iflag = TRUE, !.Lflag = 1, !.replstr = arg]
    BY <1>0, <1>9 DEF FromDefaults!Flag
  <2> QED
    BY <1>9, <2>1 DEF Xargs!Defaults, OnlyFlag
<1>10. CASE l = "J"
  <2>1. o = [Xargs!Defaults EXCEPT !.Iflag = FALSE, !.Jflag = TRUE, !.replstr = arg]
    BY <1>0, <1>10 DEF FromDefaults!Flag
  <2> QED
    BY <1>10, <2>1 DEF Xargs!Defaults, OnlyFlag
<1>11. CASE l = "L"
  <2>1. o = [Xargs!Defaults EXCEPT !.Lflag = arg]
    BY <1>0, <1>11 DEF FromDefaults!Flag
  <2> QED
    BY <1>11, <2>1 DEF Xargs!Defaults, OnlyFlag
<1>12. CASE l = "n"
  <2>1. o = [Xargs!Defaults EXCEPT !.nflag = TRUE, !.nargs = arg]
    BY <1>0, <1>12 DEF FromDefaults!Flag
  <2> QED
    BY <1>12, <2>1 DEF Xargs!Defaults, OnlyFlag
<1>13. CASE l = "P"
  <2>1. o = [Xargs!Defaults EXCEPT !.maxprocs = arg]
    BY <1>0, <1>13 DEF FromDefaults!Flag
  <2> QED
    BY <1>13, <2>1 DEF Xargs!Defaults, OnlyFlag
<1>14. CASE l = "R"
  <2>1. o = [Xargs!Defaults EXCEPT !.Rflag = arg]
    BY <1>0, <1>14 DEF FromDefaults!Flag
  <2> QED
    BY <1>14, <2>1 DEF Xargs!Defaults, OnlyFlag
<1>15. CASE l = "S"
  <2>1. o = [Xargs!Defaults EXCEPT !.Sflag = arg]
    BY <1>0, <1>15 DEF FromDefaults!Flag
  <2> QED
    BY <1>15, <2>1 DEF Xargs!Defaults, OnlyFlag
<1>16. CASE l = "s"
  <2>1. o = [Xargs!Defaults EXCEPT !.nline = arg]
    BY <1>0, <1>16 DEF FromDefaults!Flag
  <2> QED
    BY <1>16, <2>1 DEF Xargs!Defaults, OnlyFlag
<1> QED
  BY <1>1, <1>2, <1>3, <1>4, <1>5, <1>6, <1>7, <1>8, <1>9, <1>10, <1>11, <1>12, <1>13, <1>14, <1>15, <1>16

(* The checks after one option leave what the reader takes for granted. *)
LEMMA SettleStep ==
  ASSUME SettingsInv, Xargs!Settle
  PROVE  SettingsInv'
<1>1. CASE xpc' # "parse"
  BY <1>1 DEF Xargs!Settle, Xargs!Stop, SettingsInv, OneOption, ReaderSettings,
       Xargs!ReaderSettings
<1>2. CASE xpc' = "parse"
  <2> DEFINE bytes == Xargs!UtilityBytes
             found == Xargs!ReplstrAt # {}
  <2>1. /\ ~Xargs!BadUsage /\ ~((o.Iflag \/ o.Jflag) /\ o.replstr = EMPTY)
        /\ o.nline - bytes > 0
        /\ o' = [Xargs!Implied EXCEPT !.nline = @ - bytes]
        /\ jfound' = found
    BY <1>2, SettleFacts
  <2>2. PICK w \in Xargs!Option : Taken(w) /\ o = FromDefaults!Flag(w.letter, w.arg)
    BY <1>2, SettleFacts
  <2>3. found => o.Jflag
    BY DEF Xargs!ReplstrAt
  <2> DEFINE l == w.letter
             arg == w.arg
  <2>4. DefaultArgs > 0 /\ OnlyFlag(l, arg) /\ (l \in {"n", "P"} => arg > 0)
    BY <2>2, FlagSets, XargsAssumption DEF Xargs!MainAssumption, Taken
  <2> HIDE DEF bytes, found, l, arg
  <2>5. /\ o'.nargs = o.nargs /\ o'.maxprocs = o.maxprocs /\ o'.pflag = o.pflag
        /\ o'.Iflag = o.Iflag /\ o'.Lflag = o.Lflag /\ o'.replstr = o.replstr
        /\ o'.nline = o.nline - bytes
        /\ o'.xflag = (o.xflag \/ o.Iflag \/ o.Lflag # 0)
        /\ o.Iflag => o'.Rflag # 0
    BY <2>1, <2>4 DEF Xargs!Implied, OnlyFlag, Xargs!Defaults
  <2>6. o.xflag => FALSE
    BY <2>1, <2>4 DEF Xargs!BadUsage, OnlyFlag
  <2>7. ReaderSettings'
    <3>1. o'.nargs > 0 /\ o'.nline > 0 /\ o'.maxprocs > 0
      BY <2>1, <2>4, <2>5 DEF OnlyFlag
    <3>2. o'.xflag <=> o'.Iflag \/ o'.Lflag # 0
      BY <2>5, <2>6
    <3>3. o'.pflag => o'.maxprocs = 1
      BY <2>4, <2>5 DEF OnlyFlag
    <3>4. o'.nargs # DefaultArgs => ~o'.xflag /\ ~jfound' /\ o'.maxprocs = 1
      <4> SUFFICES ASSUME o.nargs # DefaultArgs
                   PROVE  ~o'.xflag /\ ~jfound' /\ o'.maxprocs = 1
        BY <2>5
      <4>1. l = "n"
        BY <2>4 DEF OnlyFlag
      <4>2. o.Iflag = FALSE /\ o.Jflag = FALSE /\ o.Lflag = 0 /\ o.maxprocs = 1
        BY <2>4, <4>1 DEF OnlyFlag
      <4> QED
        BY <2>1, <2>3, <2>5, <2>6, <4>2
    <3>5. o'.Iflag => /\ o'.Lflag = 1 /\ ~jfound' /\ o'.Rflag # 0
                      /\ o'.replstr # EMPTY
      <4> SUFFICES ASSUME o.Iflag PROVE  o.Lflag = 1 /\ ~o.Jflag
        BY <2>1, <2>3, <2>5
      <4>1. l = "I"
        BY <2>4 DEF OnlyFlag
      <4> QED
        BY <2>4, <4>1 DEF OnlyFlag
    <3>6. jfound' => o'.replstr # EMPTY
      BY <2>1, <2>3, <2>5
    <3> QED
      BY <3>1, <3>2, <3>3, <3>4, <3>5, <3>6 DEF ReaderSettings, Xargs!ReaderSettings
  <2> QED
    BY <1>2, <2>7 DEF SettingsInv, OneOption
<1> QED
  BY <1>1, <1>2

(* The invariant holds of both programs' command lines. *)
LEMMA SettingsInvariant == EitherSpec => []SettingsInv
<1>1. EitherInit => SettingsInv
  BY DEF EitherInit, Xargs!Init, SettingsInv, OneOption, ReaderSettings,
       Xargs!ReaderSettings
<1>2. SettingsInv /\ [EitherNext]_<<program, findVars, xargsVars>> => SettingsInv'
  <2> SUFFICES ASSUME SettingsInv, [EitherNext]_<<program, findVars, xargsVars>>
               PROVE  SettingsInv'
    OBVIOUS
  <2>1. CASE Xargs!Next
    BY <2>1, OptionStep, SettleStep DEF Xargs!Next
  <2>2. CASE UNCHANGED xargsVars
    <3>1. UNCHANGED <<o, jfound, xpc>>
      BY <2>2 DEF xargsVars
    <3>2. \A l, a : FromDefaults!Flag(l, a)' = FromDefaults!Flag(l, a)
      BY DEF FromDefaults!Flag, Xargs!Defaults
    <3> QED
      BY <3>1, <3>2 DEF SettingsInv, OneOption, ReaderSettings, Xargs!ReaderSettings
  <2> QED
    BY <2>1, <2>2 DEF EitherNext
<1> QED
  BY <1>1, <1>2, PTL DEF EitherSpec

(* For every command line of xargs, what main() hands to the reader is     *)
(* what XargsParse and XargsRun are modelled with: positive limits, -x     *)
(* exactly with -I and -L, one process with -p (xargs.c:93 to 244).        *)
THEOREM SettingsForReader == EitherSpec => []ReaderSettings
<1>1. SettingsInv => ReaderSettings
  BY DEF SettingsInv
<1> QED
  BY SettingsInvariant, <1>1, PTL

-----------------------------------------------------------------------------
(* date: what its argument means.                                          *)

(* The current time, as localtime() has it. *)
LocalTime(now) ==
  /\ now.year \in Nat /\ now.mon \in 0 .. 11
  /\ now.mday \in 1 .. Date!DaysIn(now.mon + 1, now.year + 1900)
  /\ now.hour \in 0 .. 23 /\ now.min \in 0 .. 59

(* One to six pairs of digits. *)
Pairs(fields, n) ==
  n = Len(fields) /\ n \in 1 .. 6 /\ \A i \in 1 .. n : fields[i] \in 0 .. 99

Dot(dot) == dot.given \in BOOLEAN /\ dot.sec \in 0 .. 99

LEMMA CenturyOf ==
  ASSUME NEW yy \in 0 .. 99
  PROVE  (CHOOSE y \in 1969 .. 2068 : y % 100 = yy) = yy + (IF yy < 69 THEN 2000 ELSE 1900)
<1>1. PICK v \in 1969 .. 2068 : v = yy + (IF yy < 69 THEN 2000 ELSE 1900)
  OBVIOUS
<1>2. v % 100 = yy
  BY <1>1
<1>3. \A y \in 1969 .. 2068 : y % 100 = yy => y = v
  BY <1>1
<1> QED
  BY <1>1, <1>2, <1>3

(* The year that is set is the one that is meant.                          *)
IsYear(fields, n, now, dot, year) ==
  /\ year = Date!Year(fields, now)
  /\ Date!Meant(fields, dot, now).year = year + 1900
  /\ year < 0 <=> n = 6 /\ fields[1] * 100 < 1900
  /\ n < 5 => year = now.year

LEMMA SameYear ==
  ASSUME NEW fields, NEW n, Pairs(fields, n), NEW now, LocalTime(now), NEW dot
  PROVE  \E year \in Int : IsYear(fields, n, now, dot, year)
<1>0. n \in 1 .. 6 /\ \A i \in 1 .. n : fields[i] \in 0 .. 99
  BY DEF Pairs
<1>1. PICK m : m = Date!Meant(fields, dot, now)
  OBVIOUS
<1>2. m.year = CASE n = 6 -> 100 * fields[1] + fields[n - 4]
                 [] n = 5 -> CHOOSE y \in 1969 .. 2068 : y % 100 = fields[n - 4]
                 [] OTHER -> now.year + 1900
  BY <1>0, <1>1 DEF Pairs, Date!Meant, Date!FromEnd
<1>3. Date!Year(fields, now) =
        CASE n = 6 -> fields[1] * 100 - 1900 + fields[2]
          [] n = 5 -> fields[1] + (IF fields[1] < 69 THEN 2000 ELSE 1900) - 1900
          [] OTHER -> now.year
  BY <1>0 DEF Pairs, Date!Year, Date!TM_YEAR_BASE
<1> DEFINE Goal == \E year \in Int : IsYear(fields, n, now, dot, year)
<1>4. CASE n = 6
  <2>1. PICK f1 \in 0 .. 99, f2 \in 0 .. 99 : f1 = fields[1] /\ f2 = fields[2]
    <3>1. fields[1] \in 0 .. 99
      BY <1>0, <1>4
    <3>2. fields[2] \in 0 .. 99
      BY <1>0, <1>4
    <3> QED
      BY <3>1, <3>2
  <2>2. PICK year \in Int : year = f1 * 100 - 1900 + f2
    OBVIOUS
  <2>3. m.year = year + 1900 /\ Date!Year(fields, now) = year
    <3>1. m.year = 100 * f1 + fields[n - 4] /\ n - 4 = 2
      BY <1>2, <1>4, <2>1
    <3>2. Date!Year(fields, now) = f1 * 100 - 1900 + f2
      BY <1>3, <1>4, <2>1
    <3> QED
      BY <2>1, <2>2, <3>1, <3>2
  <2>4. year < 0 <=> f1 * 100 < 1900
    BY <2>1, <2>2
  <2>5. IsYear(fields, n, now, dot, year)
    BY <1>1, <1>4, <2>1, <2>3, <2>4 DEF IsYear
  <2> QED
    BY <2>5
<1>5. CASE n = 5
  <2>1. PICK f1 \in 0 .. 99 : f1 = fields[1]
    BY <1>0, <1>5
  <2>2. PICK year \in Nat : year = f1 + (IF f1 < 69 THEN 2000 ELSE 1900) - 1900
    BY <2>1
  <2>3. m.year = CHOOSE y \in 1969 .. 2068 : y % 100 = f1
    BY <1>2, <1>5, <2>1
  <2>4. m.year = year + 1900
    BY <2>1, <2>2, <2>3, CenturyOf
  <2>5. Date!Year(fields, now) = year
    BY <1>3, <1>5, <2>1, <2>2
  <2>6. IsYear(fields, n, now, dot, year)
    BY <1>1, <1>5, <2>2, <2>4, <2>5 DEF IsYear
  <2> QED
    BY <2>6
<1>6. CASE n \in 1 .. 4
  <2>1. PICK year \in Nat : year = now.year
    BY DEF LocalTime
  <2>2. m.year = year + 1900 /\ Date!Year(fields, now) = year
    BY <1>2, <1>3, <1>6, <2>1
  <2>3. IsYear(fields, n, now, dot, year)
    BY <1>1, <1>6, <2>1, <2>2 DEF IsYear
  <2> QED
    BY <2>3
<1>7. n = 6 \/ n = 5 \/ n \in 1 .. 4
  BY <1>0
<1> QED
  BY <1>4, <1>5, <1>6, <1>7

(* The fields of which the time that is set and the one that is meant are  *)
(* made, and where they come from.                                         *)
Agree(fields, n, now, dot, mon, mday, hour, min, sec) ==
  LET d == Date!Meant(fields, dot, now)
  IN  /\ Date!Month(fields, now) = mon
      /\ Date!SetTheTime(fields, dot, now) =
           [year |-> Date!Year(fields, now), mon |-> mon, mday |-> mday,
            hour |-> hour, min |-> min, sec |-> sec]
      /\ d.month = mon + 1 /\ d.day = mday /\ d.hour = hour /\ d.min = min /\ d.sec = sec
      /\ n < 4 => mon \in 0 .. 11
      /\ n >= 3 => Date!FromEnd(fields, 2) = mday
      /\ n < 3 => mday \in 1 .. Date!DaysIn(mon + 1, now.year + 1900)
      /\ hour >= 0 /\ (n >= 2 => Date!FromEnd(fields, 1) = hour) /\ (n < 2 => hour <= 23)
      /\ min >= 0 /\ Date!FromEnd(fields, 0) = min
      /\ sec = IF dot.given THEN dot.sec ELSE 0

LEMMA SameFields ==
  ASSUME NEW fields, NEW n, Pairs(fields, n), NEW now, LocalTime(now), NEW dot, Dot(dot)
  PROVE  \E mon \in Int, mday \in Int, hour \in Int, min \in Int, sec \in Int :
           Agree(fields, n, now, dot, mon, mday, hour, min, sec)
<1>0. n \in 1 .. 6 /\ \A i \in 1 .. n : fields[i] \in 0 .. 99
  BY DEF Pairs
<1>1. \A k \in 0 .. 3 : n > k => Date!FromEnd(fields, k) \in 0 .. 99
  <2> TAKE k \in 0 .. 3
  <2>1. n > k => n - k \in 1 .. n
    BY <1>0
  <2> QED
    BY <1>0, <2>1 DEF Pairs, Date!FromEnd
<1>2. PICK mon : mon = IF n >= 4 THEN Date!FromEnd(fields, 3) - 1 ELSE now.mon
  OBVIOUS
<1>3. PICK mday : mday = IF n >= 3 THEN Date!FromEnd(fields, 2) ELSE now.mday
  OBVIOUS
<1>4. PICK hour : hour = IF n >= 2 THEN Date!FromEnd(fields, 1) ELSE now.hour
  OBVIOUS
<1>5. PICK min : min = IF n >= 1 THEN Date!FromEnd(fields, 0) ELSE now.min
  OBVIOUS
<1>6. PICK sec : sec = IF dot.given THEN dot.sec ELSE 0
  OBVIOUS
<1>7. /\ mon \in Int /\ mday \in Int /\ hour \in Int /\ min \in Int /\ sec \in Int
      /\ hour >= 0 /\ min >= 0 /\ min = Date!FromEnd(fields, 0)
  <2>1. now.mon \in Int /\ now.hour \in 0 .. 23 /\ now.min \in 0 .. 59
    BY DEF LocalTime
  <2>2. now.mday \in Int
    BY DEF LocalTime, Date!DaysIn
  <2>3. sec \in Int
    BY <1>6 DEF Dot
  <2> QED
    BY <1>0, <1>1, <1>2, <1>3, <1>4, <1>5, <2>1, <2>2, <2>3
<1>8. n < 3 => mday \in 1 .. Date!DaysIn(mon + 1, now.year + 1900)
  BY <1>0, <1>2, <1>3 DEF LocalTime
<1>9. (n < 4 => mon \in 0 .. 11) /\ (n < 2 => hour <= 23)
  BY <1>0, <1>2, <1>4 DEF LocalTime
<1>10. Date!Month(fields, now) = mon
  BY <1>2 DEF Pairs, Date!Month
<1>11. Date!SetTheTime(fields, dot, now) =
         [year |-> Date!Year(fields, now), mon |-> mon, mday |-> mday,
          hour |-> hour, min |-> min, sec |-> sec]
  BY <1>3, <1>4, <1>5, <1>6, <1>10 DEF Pairs, Date!SetTheTime
<1>12. PICK d : d = Date!Meant(fields, dot, now)
  OBVIOUS
<1>13. d.month = mon + 1
  <2>1. d.month = IF n >= 4 THEN Date!FromEnd(fields, 3) ELSE now.mon + 1
    BY <1>12 DEF Pairs, Date!Meant
  <2> QED
    BY <1>0, <1>1, <1>2, <2>1
<1>14. d.day = mday /\ d.hour = hour /\ d.min = min /\ d.sec = sec
  BY <1>3, <1>4, <1>5, <1>6, <1>12 DEF Pairs, Date!Meant
<1>15. Agree(fields, n, now, dot, mon, mday, hour, min, sec)
  BY <1>0, <1>3, <1>4, <1>6, <1>7, <1>8, <1>9, <1>10, <1>11, <1>12, <1>13, <1>14 DEF Agree
<1> QED
  BY <1>7, <1>15

(* The case for the month knows its days, unless it has 30.                *)
LEMMA SameDays ==
  ASSUME NEW mon \in 0 .. 11, mon + 1 \notin {4, 6, 9, 11}, NEW year \in Int
  PROVE  \E days \in 28 .. 31 : /\ Date!LastDay(mon, year) = days
                                /\ Date!DaysIn(mon + 1, year + 1900) = days
<1>1. mon \in {0, 2, 4, 6, 7, 9, 11} \/ mon = 1
  OBVIOUS
<1>2. CASE mon = 1
  <2>1. Date!LastDay(mon, year) = IF Date!IsLeap(year + 1900) THEN 29 ELSE 28
    BY <1>2 DEF Date!LastDay, Date!TM_YEAR_BASE
  <2>2. Date!DaysIn(mon + 1, year + 1900) = IF Date!IsLeap(year + 1900) THEN 29 ELSE 28
    BY <1>2 DEF Date!DaysIn
  <2> QED
    BY <2>1, <2>2
<1>3. CASE mon \in {0, 2, 4, 6, 7, 9, 11}
  BY <1>3 DEF Date!LastDay, Date!DaysIn
<1> QED
  BY <1>1, <1>2, <1>3

(* Whatever the digits of date's argument, and whatever time it is, date   *)
(* takes what is a time of the calendar, and sets that, and answers with   *)
(* usage() what is none; two digits of seconds, and no month of 30 days,   *)
(* which it cannot tell the last day of (date.c:188 to 273).               *)
THEOREM DatesOfTheCalendar ==
  ASSUME Pairs(input.fields, Len(input.fields)), LocalTime(input.now),
         Dot(input.dot)
  PROVE  DateAsCalendar
<1>1. PICK fields, dot, now, n :
        /\ fields = input.fields /\ dot = input.dot /\ now = input.now
        /\ Pairs(fields, n) /\ LocalTime(now) /\ Dot(dot)
  OBVIOUS
<1>2. PICK year \in Int :
           /\ year = Date!Year(fields, now)
           /\ Date!Meant(fields, dot, now).year = year + 1900
           /\ year < 0 <=> n = 6 /\ fields[1] * 100 < 1900
           /\ n < 5 => year = now.year
  <2>1. \E year \in Int : IsYear(fields, n, now, dot, year)
    BY <1>1, SameYear
  <2> QED
    BY <2>1, Zenon DEF IsYear
<1>3. PICK mon \in Int, mday \in Int, hour \in Int, min \in Int, sec \in Int :
        Agree(fields, n, now, dot, mon, mday, hour, min, sec)
  BY <1>1, SameFields
<1> DEFINE d == Date!Meant(fields, dot, now)
<1>5. d.year = year + 1900 /\ d.month = mon + 1 /\ d.day = mday
      /\ d.hour = hour /\ d.min = min /\ d.sec = sec
  BY <1>2, <1>3 DEF Agree
<1> DEFINE SetAsMeant ==
             Date!SetTheTime(fields, dot, now) =
               [year |-> d.year - 1900, mon |-> d.month - 1, mday |-> d.day,
                hour |-> d.hour, min |-> d.min, sec |-> d.sec]
           AsMeant ==
             IF Date!Valid(d)
             THEN Date!Verdict(fields, FALSE, dot, now) = "taken" /\ SetAsMeant
             ELSE Date!Verdict(fields, FALSE, dot, now) = "usage"
<1>6. SUFFICES ASSUME dot.given => dot.digits = 2, mon + 1 \notin {4, 6, 9, 11}
               PROVE  AsMeant
  <2>1. ASSUME dot.given => dot.digits = 2, d.month \notin {4, 6, 9, 11} PROVE AsMeant
    <3>1. mon + 1 \notin {4, 6, 9, 11}
      BY <1>5, <2>1
    <3> QED
      BY <1>6, <2>1, <3>1
  <2>2. Date!DateAsCalendar(fields, dot, now)
    BY <2>1, Zenon DEF Date!DateAsCalendar, Date!USAGE
  <2> QED
    BY <1>1, <2>2 DEF DateAsCalendar
<1> HIDE DEF d, SetAsMeant
<1>7. Date!Valid(d) <=> /\ year >= 0 /\ mon \in 0 .. 11
                        /\ mday \in 1 .. Date!DaysIn(mon + 1, year + 1900)
                        /\ hour <= 23 /\ min <= 59 /\ sec <= 61
  BY <1>5 DEF Date!Valid
<1>8. PICK verdict : verdict = Date!Verdict(fields, FALSE, dot, now)
  OBVIOUS
<1>9. n \in 1 .. 6
  BY <1>1 DEF Pairs
<1>16. n = Len(fields)
  BY <1>1 DEF Pairs
<1>10. Date!SecondsBad(dot) <=> sec > 61
  <2>1. sec = IF dot.given THEN dot.sec ELSE 0
    BY <1>3 DEF Agree
  <2> QED
    BY <1>1, <1>6, <2>1 DEF Date!SecondsBad, Dot
<1>11. n < 4 => mon \in 0 .. 11
  BY <1>3 DEF Agree
<1>12. PICK last : last = Date!LastDay(mon, year)
  OBVIOUS
<1>13. verdict =
         IF sec > 61 \/ year < 0 \/ mon \notin 0 .. 11 THEN "usage"
         ELSE IF n >= 3 /\ last = -1 THEN "error"
         ELSE IF \/ n >= 3 /\ mday \notin 1 .. last
                 \/ n >= 2 /\ hour > 23
                 \/ min > 59
              THEN "usage" ELSE "taken"
  <2>1. Date!Month(fields, now) = mon /\ Date!Year(fields, now) = year
    BY <1>2, <1>3 DEF Agree
  <2>2. (n >= 3 => Date!FromEnd(fields, 2) = mday) /\ (n >= 2 => Date!FromEnd(fields, 1) = hour)
        /\ Date!FromEnd(fields, 0) = min
    BY <1>3 DEF Agree
  <2> DEFINE wrong ==
               \/ Date!SecondsBad(dot) \/ FALSE \/ n > 6 \/ (n = 0 /\ ~dot.given)
               \/ n = 6 /\ fields[1] * 100 < 1900
               \/ n >= 4 /\ mon \notin 0 .. 11
  <2>3. /\ ~(n > 6) /\ n # 0
        /\ n >= 4 /\ mon \notin 0 .. 11 <=> mon \notin 0 .. 11
    BY <1>9, <1>11
  <2>6. n = 6 /\ fields[1] * 100 < 1900 <=> year < 0
    BY <1>2
  <2>4. wrong <=> sec > 61 \/ year < 0 \/ mon \notin 0 .. 11
    BY <1>9, <1>10, <1>11, <2>6
  <2>5. verdict = IF wrong THEN "usage"
                  ELSE IF n >= 3 /\ last = -1 THEN "error"
                  ELSE IF \/ n >= 3 /\ Date!FromEnd(fields, 2) \notin 1 .. last
                          \/ n >= 2 /\ Date!FromEnd(fields, 1) > 23
                          \/ n >= 1 /\ Date!FromEnd(fields, 0) > 59
                       THEN "usage" ELSE "taken"
    BY <1>8, <1>9, <1>16, <1>12, <2>1 DEF Date!Verdict, Date!USAGE, Date!ERROR, Date!TM_YEAR_BASE
  <2> HIDE DEF wrong
  <2> QED
    BY <1>9, <2>2, <2>4, <2>5
<1>14. CASE mon \in 0 .. 11
  <2>1. PICK days \in 28 .. 31 : last = days /\ Date!DaysIn(mon + 1, year + 1900) = days
    BY <1>6, <1>12, <1>14, SameDays
  <2>2. n < 3 => mday \in 1 .. days
    BY <1>2, <1>3, <1>9, <2>1 DEF Agree
  <2>3. hour >= 0 /\ min >= 0 /\ (n < 2 => hour <= 23)
    BY <1>3 DEF Agree
  <2>4. verdict = IF Date!Valid(d) THEN "taken" ELSE "usage"
    BY <1>7, <1>9, <1>13, <1>14, <2>1, <2>2, <2>3
  <2>5. SetAsMeant
    <3>1. d.year - 1900 = year /\ d.month - 1 = mon
      BY <1>5
    <3> QED
      BY <1>2, <1>3, <1>5, <3>1 DEF Agree, SetAsMeant
  <2>6. CASE Date!Valid(d)
    <3>1. Date!Verdict(fields, FALSE, dot, now) = "taken"
      BY <1>8, <2>4, <2>6
    <3> QED
      BY <2>5, <2>6, <3>1
  <2>7. CASE ~Date!Valid(d)
    <3>1. Date!Verdict(fields, FALSE, dot, now) = "usage"
      BY <1>8, <2>4, <2>7
    <3> QED
      BY <2>7, <3>1, Zenon
  <2> QED
    BY <2>6, <2>7
<1>15. CASE mon \notin 0 .. 11
  <2>1. verdict = "usage" /\ ~Date!Valid(d)
    BY <1>7, <1>13, <1>15
  <2> QED
    BY <1>8, <2>1
<1> QED
  BY <1>14, <1>15

-----------------------------------------------------------------------------
(* How three things compare, two by two: one way, and transitively, also   *)
(* where some are equal.                                                   *)
Orders(ab, ba, bc, cb, ac) ==
  /\ ab \in -1 .. 1 /\ bc \in -1 .. 1 /\ ac \in -1 .. 1 /\ ba = -ab /\ cb = -bc
  /\ ab <= 0 /\ bc <= 0 => ac <= 0 /\ (ac = 0 => ab = 0 /\ bc = 0)
  /\ ab >= 0 /\ bc >= 0 => ac >= 0 /\ (ac = 0 => ab = 0 /\ bc = 0)

Before(p, q) == IF p # 0 THEN p ELSE q      \* by the first, then by the second

LEMMA OrdersCombine ==
  ASSUME NEW ab, NEW ba, NEW bc, NEW cb, NEW ac, Orders(ab, ba, bc, cb, ac),
         NEW xy, NEW yx, NEW yz, NEW zy, NEW xz, Orders(xy, yx, yz, zy, xz)
  PROVE  /\ Orders(Before(ab, xy), Before(ba, yx), Before(bc, yz), Before(cb, zy), Before(ac, xz))
         /\ Orders(-ab, -ba, -bc, -cb, -ac)
BY DEF Orders, Before

LEMMA SignOrders ==
  ASSUME NEW x \in Int, NEW y \in Int, NEW z \in Int
  PROVE  Orders(Show!Sign(x - y), Show!Sign(y - x), Show!Sign(y - z), Show!Sign(z - y),
                Show!Sign(x - z))
<1>1. \A n \in Int : /\ Show!Sign(n) \in -1 .. 1
                     /\ Show!Sign(n) > 0 <=> n > 0
                     /\ Show!Sign(n) < 0 <=> n < 0
  BY DEF Show!Sign
<1>2. x - y \in Int /\ y - x \in Int /\ y - z \in Int /\ z - y \in Int /\ x - z \in Int
  OBVIOUS
<1>3. PICK ab \in -1 .. 1, ba \in -1 .. 1, bc \in -1 .. 1, cb \in -1 .. 1, ac \in -1 .. 1 :
        /\ ab = Show!Sign(x - y) /\ ba = Show!Sign(y - x) /\ bc = Show!Sign(y - z)
        /\ cb = Show!Sign(z - y) /\ ac = Show!Sign(x - z)
  BY <1>1, <1>2
<1>4. /\ (ab > 0 <=> x > y) /\ (ab < 0 <=> x < y) /\ (ba > 0 <=> y > x) /\ (ba < 0 <=> y < x)
      /\ (bc > 0 <=> y > z) /\ (bc < 0 <=> y < z) /\ (cb > 0 <=> z > y) /\ (cb < 0 <=> z < y)
      /\ (ac > 0 <=> x > z) /\ (ac < 0 <=> x < z)
  BY <1>1, <1>2, <1>3
<1>5. Orders(ab, ba, bc, cb, ac)
  BY <1>4 DEF Orders
<1> QED
  BY <1>3, <1>5

(* The other way round. *)
LEMMA BackwardOrders ==
  ASSUME NEW x \in Int, NEW y \in Int, NEW z \in Int
  PROVE  Orders(Show!Sign(y - x), Show!Sign(x - y), Show!Sign(z - y), Show!Sign(y - z),
                Show!Sign(z - x))
<1>1. Orders(Show!Sign(z - y), Show!Sign(y - z), Show!Sign(y - x), Show!Sign(x - y),
             Show!Sign(z - x))
  BY SignOrders
<1> QED
  BY <1>1 DEF Orders

(* An entry that can be compared. *)
Comparable(e) ==
  /\ e.info \in {"D", "F", "NS", "ERR"} /\ e.name \in Int /\ e.size \in Int
  /\ e.time[1] \in Int /\ e.time[2] \in Int

LEMMA TimeOrders ==
  ASSUME NEW a, NEW b, NEW c, Comparable(a), Comparable(b), Comparable(c)
  PROVE  Orders(Show!TimeCmp(a, b), Show!TimeCmp(b, a), Show!TimeCmp(b, c), Show!TimeCmp(c, b),
                Show!TimeCmp(a, c))
<1>1. PICK x \in Int, y \in Int, z \in Int, x2 \in Int, y2 \in Int, z2 \in Int :
        /\ x = a.time[1] /\ y = b.time[1] /\ z = c.time[1]
        /\ x2 = a.time[2] /\ y2 = b.time[2] /\ z2 = c.time[2]
  BY DEF Comparable
<1> DEFINE S(i, j) == Show!Sign(i - j)
           T(i, j, i2, j2) == IF i # j THEN S(j, i) ELSE S(j2, i2)
<1>2. \A i \in Int, j \in Int : S(i, j) = 0 <=> i = j
  BY DEF Show!Sign
<1>3. /\ Show!TimeCmp(a, b) = T(x, y, x2, y2) /\ Show!TimeCmp(b, a) = T(y, x, y2, x2)
      /\ Show!TimeCmp(b, c) = T(y, z, y2, z2) /\ Show!TimeCmp(c, b) = T(z, y, z2, y2)
      /\ Show!TimeCmp(a, c) = T(x, z, x2, z2)
  BY <1>1 DEF Show!TimeCmp
<1>4. Orders(S(y, x), S(x, y), S(z, y), S(y, z), S(z, x))
      /\ Orders(S(y2, x2), S(x2, y2), S(z2, y2), S(y2, z2), S(z2, x2))
  BY BackwardOrders
<1>5. \A i \in Int, j \in Int, i2 \in Int, j2 \in Int :
        T(i, j, i2, j2) = Before(S(j, i), S(j2, i2))
  BY <1>2 DEF Before
<1> HIDE DEF S, T
<1>6. Orders(T(x, y, x2, y2), T(y, x, y2, x2), T(y, z, y2, z2), T(z, y, z2, y2),
             T(x, z, x2, z2))
  <2>1. Orders(Before(S(y, x), S(y2, x2)), Before(S(x, y), S(x2, y2)),
               Before(S(z, y), S(z2, y2)), Before(S(y, z), S(y2, z2)),
               Before(S(z, x), S(z2, x2)))
    BY <1>4, OrdersCombine
  <2>2. /\ T(x, y, x2, y2) = Before(S(y, x), S(y2, x2))
        /\ T(y, x, y2, x2) = Before(S(x, y), S(x2, y2))
        /\ T(y, z, y2, z2) = Before(S(z, y), S(z2, y2))
        /\ T(z, y, z2, y2) = Before(S(y, z), S(y2, z2))
        /\ T(x, z, x2, z2) = Before(S(z, x), S(z2, x2))
    BY <1>5
  <2> QED
    BY <2>1, <2>2
<1> QED
  BY <1>3, <1>6

LEMMA KeyOrders ==
  ASSUME NEW a, NEW b, NEW c, Comparable(a), Comparable(b), Comparable(c), NEW key
  PROVE  Orders(Show!KeyCmp(key, a, b), Show!KeyCmp(key, b, a), Show!KeyCmp(key, b, c),
                Show!KeyCmp(key, c, b), Show!KeyCmp(key, a, c))
<1>1. CASE key = "BY_NAME"
  <2>1. \A p, q : Show!KeyCmp(key, p, q) = 0
    BY <1>1 DEF Show!KeyCmp
  <2> QED
    BY <2>1 DEF Orders
<1>2. CASE key = "BY_SIZE"
  <2>1. PICK x \in Int, y \in Int, z \in Int : x = a.size /\ y = b.size /\ z = c.size
    BY DEF Comparable
  <2>2. Orders(Show!Sign(y - x), Show!Sign(x - y), Show!Sign(z - y), Show!Sign(y - z),
               Show!Sign(z - x))
    BY BackwardOrders
  <2> QED
    BY <1>2, <2>1, <2>2 DEF Show!KeyCmp
<1>3. CASE key \notin {"BY_NAME", "BY_SIZE"}
  BY <1>3, TimeOrders DEF Show!KeyCmp
<1> QED
  BY <1>1, <1>2, <1>3

(* The comparison by the key and then by the name.                         *)
LEMMA SortOrders ==
  ASSUME NEW a, NEW b, NEW c, Comparable(a), Comparable(b), Comparable(c),
         NEW sort, sort.reverse \in BOOLEAN
  PROVE  /\ Orders(Show!SortFcn(sort, a, b), Show!SortFcn(sort, b, a), Show!SortFcn(sort, b, c),
                   Show!SortFcn(sort, c, b), Show!SortFcn(sort, a, c))
         /\ Show!SortFcn(sort, a, b) = 0 => a.name = b.name
<1>1. PICK x \in Int, y \in Int, z \in Int : x = a.name /\ y = b.name /\ z = c.name
  BY DEF Comparable
<1> DEFINE N(p, q) == Show!NameCmp(p, q)
           K(p, q) == Show!KeyCmp(sort.key, p, q)
           F(p, q) == Before(K(p, q), N(p, q))
<1>2. Orders(N(a, b), N(b, a), N(b, c), N(c, b), N(a, c))
  BY <1>1, SignOrders DEF Show!NameCmp
<1>3. Orders(K(a, b), K(b, a), K(b, c), K(c, b), K(a, c))
  BY KeyOrders
<1>4. N(a, b) = 0 => x = y
  BY <1>1 DEF Show!NameCmp, Show!Sign
<1>5. \A p, q : Show!SortFcn(sort, p, q) = IF sort.reverse THEN -F(p, q) ELSE F(p, q)
  BY DEF Show!SortFcn, Before
<1>6. F(a, b) = 0 => N(a, b) = 0
  BY DEF Before
<1> HIDE DEF N, K
<1>7. Orders(F(a, b), F(b, a), F(b, c), F(c, b), F(a, c))
  BY <1>2, <1>3, OrdersCombine
<1> HIDE DEF F
<1>8. Orders(-F(a, b), -F(b, a), -F(b, c), -F(c, b), -F(a, c))
  BY <1>7, OrdersCombine
<1>9. F(a, b) \in -1 .. 1
  BY <1>7 DEF Orders
<1>10. CASE sort.reverse
  <2>1. Show!SortFcn(sort, a, b) = 0 => F(a, b) = 0
    BY <1>5, <1>9, <1>10
  <2> QED
    BY <1>1, <1>4, <1>5, <1>6, <1>8, <1>10, <2>1
<1>11. CASE ~sort.reverse
  BY <1>1, <1>4, <1>5, <1>6, <1>7, <1>11
<1> QED
  BY <1>10, <1>11

(* mastercmp(), of which the arguments are what it looks at: the kinds,    *)
(* whether they are told apart, and how the names and the keys compare.    *)
Master(i, j, apart, name, key) ==
  IF i = "NS" \/ j = "NS" THEN IF j # "NS" THEN 1 ELSE IF i # "NS" THEN -1 ELSE name
  ELSE IF apart /\ i # j THEN IF i = "D" THEN 1 ELSE -1 ELSE key

LEMMA MasterOrders ==
  ASSUME NEW i \in {"D", "F", "NS"}, NEW j \in {"D", "F", "NS"}, NEW k \in {"D", "F", "NS"},
         NEW apart \in BOOLEAN,
         NEW ab, NEW ba, NEW bc, NEW cb, NEW ac, Orders(ab, ba, bc, cb, ac),
         NEW xy, NEW yx, NEW yz, NEW zy, NEW xz, Orders(xy, yx, yz, zy, xz)
  PROVE  /\ Master(i, j, apart, ab, xy) = -Master(j, i, apart, ba, yx)
         /\ Master(i, j, apart, ab, xy) < 0 /\ Master(j, k, apart, bc, yz) < 0
              => Master(i, k, apart, ac, xz) < 0
         /\ Master(i, j, apart, ab, xy) = 0 => ab = 0 \/ xy = 0
BY DEF Orders, Master

(* What mastercmp() sees of an entry, and of the option -d. *)
Seen(f, e, apart, kind) ==
  /\ kind \in {"D", "F", "NS"} /\ kind = e.info
  /\ apart \in BOOLEAN /\ apart = ("listdir" \notin f.on /\ e.level = 0)

LEMMA MasterIs ==
  ASSUME NEW f, NEW sort, NEW p, NEW q, NEW apart, NEW i, NEW j,
         Seen(f, p, apart, i), Seen(f, q, apart, j)
  PROVE  Show!MasterCmp(f, sort, p, q) =
           Master(i, j, apart, Show!NameCmp(p, q), Show!SortFcn(sort, p, q))
<1>0. /\ apart \in BOOLEAN /\ apart = ("listdir" \notin f.on /\ p.level = 0)
      /\ i \in {"D", "F", "NS"} /\ j \in {"D", "F", "NS"} /\ i = p.info /\ j = q.info
  BY DEF Seen
<1>1. PICK name, key : name = Show!NameCmp(p, q) /\ key = Show!SortFcn(sort, p, q)
  OBVIOUS
<1>2. Show!MasterCmp(f, sort, p, q) =
        CASE "ERR" \in {i, j} -> 0
          [] "ERR" \notin {i, j} /\ "NS" \in {i, j} ->
               IF j # "NS" THEN 1 ELSE IF i # "NS" THEN -1 ELSE name
          [] {i, j} \cap {"ERR", "NS"} = {} /\ (i # j /\ apart) /\ "D" \in {i, j} ->
               IF i = "D" THEN 1 ELSE -1
          [] OTHER -> key
  BY <1>0, <1>1 DEF Show!MasterCmp
<1>3. CASE i = "NS" \/ j = "NS"
  BY <1>0, <1>1, <1>2, <1>3 DEF Master
<1>4. CASE i # "NS" /\ j # "NS"
  BY <1>0, <1>1, <1>2, <1>4 DEF Master
<1> QED
  BY <1>3, <1>4

(* mastercmp() is an order, whatever the names, the sizes and the times,   *)
(* and the options (ls.c:659 to 690, cmp.c): of any three entries without  *)
(* an error in one list.                                                   *)
THEOREM MasterIsAnOrder ==
  ASSUME Comparable(input.a), Comparable(input.b), Comparable(input.c),
         input.sort.reverse \in BOOLEAN
  PROVE  OrderSorts
<1>1. PICK a, b, c, f, sort :
        /\ a = input.a /\ b = input.b /\ c = input.c /\ f = input.f /\ sort = input.sort
        /\ Comparable(a) /\ Comparable(b) /\ Comparable(c) /\ sort.reverse \in BOOLEAN
  OBVIOUS
<1> DEFINE M(p, q) == Show!MasterCmp(f, sort, p, q)
           Goal == /\ M(a, b) = -M(b, a)
                   /\ M(a, b) = 0 => a.name = b.name
                   /\ M(a, b) < 0 /\ M(b, c) < 0 => M(a, c) < 0
<1>2. SUFFICES ASSUME "ERR" \notin {a.info, b.info, c.info},
                      a.level = b.level, b.level = c.level
               PROVE  Goal
  BY <1>1 DEF OrderSorts, Show!OrderSorts
<1>3. PICK i \in {"D", "F", "NS"}, j \in {"D", "F", "NS"}, k \in {"D", "F", "NS"} :
        i = a.info /\ j = b.info /\ k = c.info
  BY <1>1, <1>2 DEF Comparable
<1>4. PICK apart \in BOOLEAN : apart = ("listdir" \notin f.on /\ a.level = 0)
  OBVIOUS
<1> DEFINE N(p, q) == Show!NameCmp(p, q)
           K(p, q) == Show!SortFcn(sort, p, q)
<1>6. /\ M(a, b) = Master(i, j, apart, N(a, b), K(a, b))
      /\ M(b, a) = Master(j, i, apart, N(b, a), K(b, a))
      /\ M(b, c) = Master(j, k, apart, N(b, c), K(b, c))
      /\ M(a, c) = Master(i, k, apart, N(a, c), K(a, c))
  <2>1. Seen(f, a, apart, i) /\ Seen(f, b, apart, j) /\ Seen(f, c, apart, k)
    BY <1>2, <1>3, <1>4 DEF Seen
  <2>2. /\ Show!MasterCmp(f, sort, a, b) = Master(i, j, apart, N(a, b), K(a, b))
        /\ Show!MasterCmp(f, sort, b, a) = Master(j, i, apart, N(b, a), K(b, a))
        /\ Show!MasterCmp(f, sort, b, c) = Master(j, k, apart, N(b, c), K(b, c))
        /\ Show!MasterCmp(f, sort, a, c) = Master(i, k, apart, N(a, c), K(a, c))
    <3> HIDE DEF M
    <3> QED
      BY <2>1, MasterIs
  <2> QED
    BY <2>2
<1>7. Orders(N(a, b), N(b, a), N(b, c), N(c, b), N(a, c)) /\ (N(a, b) = 0 => a.name = b.name)
  <2>1. PICK x \in Int, y \in Int, z \in Int : x = a.name /\ y = b.name /\ z = c.name
    BY <1>1 DEF Comparable
  <2>2. Orders(N(a, b), N(b, a), N(b, c), N(c, b), N(a, c))
    BY <2>1, SignOrders DEF Show!NameCmp
  <2>3. N(a, b) = 0 => x = y
    BY <2>1 DEF Show!NameCmp, Show!Sign
  <2> QED
    BY <2>1, <2>2, <2>3
<1>8. Orders(K(a, b), K(b, a), K(b, c), K(c, b), K(a, c)) /\ (K(a, b) = 0 => a.name = b.name)
  BY <1>1, SortOrders
<1> HIDE DEF M, N, K
<1>9. /\ Master(i, j, apart, N(a, b), K(a, b)) = -Master(j, i, apart, N(b, a), K(b, a))
      /\ Master(i, j, apart, N(a, b), K(a, b)) < 0 /\ Master(j, k, apart, N(b, c), K(b, c)) < 0
           => Master(i, k, apart, N(a, c), K(a, c)) < 0
      /\ Master(i, j, apart, N(a, b), K(a, b)) = 0 => N(a, b) = 0 \/ K(a, b) = 0
  BY <1>7, <1>8, MasterOrders
<1> QED
  BY <1>6, <1>7, <1>8, <1>9

-----------------------------------------------------------------------------
(* The fold that Flags() is, step by step. *)
Defaults ==
  [on |-> {"PHYSICAL", "column", "nonprint"}, grouponly |-> 0,
   sortkey |-> "BY_NAME", blocksize |-> 0]

After(f, c) == Options!Settled(Options!Option(f, c))

Folds(it, options, n) ==
  it = [s \in SUBSET (1 .. n) |->
          IF s = {} THEN Defaults
          ELSE After(it[s \ {Options!Max(s)}], options[Options!Max(s)])]

LEMMA FlagsIsAFold ==
  ASSUME NEW options, NEW n \in Nat, DOMAIN options = 1 .. n
  PROVE  \E it : /\ it = CHOOSE h : Folds(h, options, n)
                 /\ Options!Flags(options) = it[1 .. n]
BY DEF Options!Flags, Options!FoldLeft, Options!MapThenFoldSet, Folds, After, Defaults

LEMMA FoldExists ==
  ASSUME NEW options, NEW n \in Nat
  PROVE  \E it : Folds(it, options, n)
<1> DEFINE T == {k \in Nat : \E it : Folds(it, options, k)}
<1>1. 0 \in T
  <2> DEFINE it == [s \in SUBSET (1 .. 0) |-> Defaults]
  <2>1. Folds(it, options, 0)
    BY DEF Folds
  <2> QED
    BY <2>1
<1>2. ASSUME NEW k \in Nat, k \in T PROVE k + 1 \in T
  <2>1. PICK g : Folds(g, options, k)
    BY <1>2
  <2>2. \A s \in SUBSET (1 .. k) :
          g[s] = IF s = {} THEN Defaults
                 ELSE After(g[s \ {Options!Max(s)}], options[Options!Max(s)])
    BY <2>1 DEF Folds
  <2> DEFINE it == [s \in SUBSET (1 .. k + 1) |->
                      IF k + 1 \in s THEN After(g[s \ {k + 1}], options[k + 1]) ELSE g[s]]
  <2>3. ASSUME NEW s \in SUBSET (1 .. k + 1)
        PROVE  it[s] = IF s = {} THEN Defaults
                       ELSE After(it[s \ {Options!Max(s)}], options[Options!Max(s)])
    <3>1. CASE k + 1 \in s
      <4>1. Options!Max(s) = k + 1
        <5>1. \A y \in s : k + 1 >= y
          OBVIOUS
        <5>2. \A x \in s : (\A y \in s : x >= y) => x = k + 1
          BY <3>1
        <5> QED
          BY <3>1, <5>1, <5>2 DEF Options!Max
      <4>2. s \ {k + 1} \in SUBSET (1 .. k) /\ s \ {k + 1} \in SUBSET (1 .. k + 1)
            /\ k + 1 \notin s \ {k + 1}
        OBVIOUS
      <4>3. it[s \ {k + 1}] = g[s \ {k + 1}]
        BY <4>2
      <4>4. it[s] = After(g[s \ {k + 1}], options[k + 1])
        BY <3>1
      <4> HIDE DEF it
      <4> QED
        BY <3>1, <4>1, <4>3, <4>4
    <3>2. CASE k + 1 \notin s
      <4>1. s \in SUBSET (1 .. k)
        BY <3>2
      <4>2. PICK m : m = Options!Max(s)
        OBVIOUS
      <4>3. s \ {m} \in SUBSET (1 .. k + 1) /\ k + 1 \notin s \ {m}
        BY <3>2
      <4>4. it[s] = g[s] /\ it[s \ {m}] = g[s \ {m}]
        BY <3>2, <4>3
      <4> HIDE DEF it
      <4> QED
        BY <2>2, <4>1, <4>2, <4>4
    <3> QED
      BY <3>1, <3>2
  <2>4. it = [s \in SUBSET (1 .. k + 1) |-> it[s]]
    OBVIOUS
  <2> HIDE DEF it
  <2>5. Folds(it, options, k + 1)
    BY <2>3, <2>4 DEF Folds
  <2> QED
    BY <2>5
<1>3. n \in T
  BY <1>1, <1>2, NatInd
<1> QED
  BY <1>3

(* The flags after the first i options. *)
Turns(it, options, n) ==
  /\ it[{}] = Defaults
  /\ \A i \in 0 .. n - 1 : it[1 .. i + 1] = After(it[1 .. i], options[i + 1])

LEMMA FlagsByTurns ==
  ASSUME NEW options, NEW n \in Nat, DOMAIN options = 1 .. n
  PROVE  \E it : Turns(it, options, n) /\ Options!Flags(options) = it[1 .. n]
<1>1. PICK it : /\ it = CHOOSE h : Folds(h, options, n)
                /\ Options!Flags(options) = it[1 .. n]
  BY FlagsIsAFold
<1>2. Folds(it, options, n)
  BY <1>1, FoldExists
<1>3. \A s \in SUBSET (1 .. n) :
        it[s] = IF s = {} THEN Defaults
                ELSE After(it[s \ {Options!Max(s)}], options[Options!Max(s)])
  BY <1>2 DEF Folds
<1>4. it[{}] = Defaults
  BY <1>3
<1>5. ASSUME NEW i \in 0 .. n - 1
      PROVE  it[1 .. i + 1] = After(it[1 .. i], options[i + 1])
  <2>1. PICK s : s = 1 .. i + 1
    OBVIOUS
  <2>2. s \in SUBSET (1 .. n) /\ s # {} /\ s \ {i + 1} = 1 .. i
    BY <2>1
  <2>3. Options!Max(s) = i + 1
    <3>1. i + 1 \in s /\ \A y \in s : i + 1 >= y
      BY <2>1
    <3>2. \A x \in s : (\A y \in s : x >= y) => x = i + 1
      BY <2>1, <3>1
    <3> QED
      BY <3>1, <3>2 DEF Options!Max
  <2> QED
    BY <1>3, <2>1, <2>2, <2>3
<1> QED
  BY <1>1, <1>4, <1>5 DEF Turns

(* The flags are a record throughout. *)
FlagsOf(on, g, k, b) == [on |-> on, grouponly |-> g, sortkey |-> k, blocksize |-> b]

HasOn(f, on) == \E g, k, b : f = FlagsOf(on, g, k, b)

LEMMA AfterOn ==
  ASSUME NEW f, NEW on, HasOn(f, on), NEW c
  PROVE  \E extra \in SUBSET {"NOSTAT", "COMFOLLOW"} :
           HasOn(After(f, c), ((on \ Options!Clears(c)) \cup Options!Sets(c)) \cup extra)
<1>1. PICK g, k, b : f = FlagsOf(on, g, k, b)
  BY DEF HasOn
<1>2. PICK o2 : o2 = (on \ Options!Clears(c)) \cup Options!Sets(c)
  OBVIOUS
<1>3. PICK g1, k1, b1 : Options!Option(f, c) = FlagsOf(o2, g1, k1, b1)
  <2>1. PICK g1 : g1 = CASE c = "l" -> -1 [] c = "g" /\ g # -1 -> 1 [] OTHER -> g
    OBVIOUS
  <2>2. PICK k1 : k1 = CASE c = "S" -> "BY_SIZE" [] c = "t" -> "BY_TIME" [] OTHER -> k
    OBVIOUS
  <2>3. PICK b1 : b1 = IF c = "k" THEN 1024 ELSE b
    OBVIOUS
  <2>4. Options!Option(f, c) =
          [f EXCEPT !.on = o2, !.grouponly = g1, !.sortkey = k1, !.blocksize = b1]
    BY <1>1, <1>2, <2>1, <2>2, <2>3 DEF Options!Option, FlagsOf
  <2>5. Options!Option(f, c) = FlagsOf(o2, g1, k1, b1)
    BY <1>1, <2>4 DEF FlagsOf
  <2> QED
    BY <2>5
<1>4. PICK h : h = FlagsOf(o2, g1, k1, b1)
  OBVIOUS
<1> DEFINE NoStat == IF h.on \cap {"inode", "longform", "size", "type", "typedir"} = {}
                        /\ h.sortkey = "BY_NAME" THEN {"NOSTAT"} ELSE {}
           ComFollow == IF h.on \cap {"longform", "listdir", "type"} = {} THEN {"COMFOLLOW"} ELSE {}
<1>5. \E g2, k2, b2 : Options!Settled(h) = FlagsOf((o2 \cup NoStat) \cup ComFollow, g2, k2, b2)
  <2>1. PICK g2 : g2 = IF g1 = -1 THEN 0 ELSE g1
    OBVIOUS
  <2>2. PICK b2 : b2 = IF h.on \cap {"inode", "longform", "size"} # {}
                       THEN (IF "kflag" \in h.on THEN h.blocksize ELSE 512) \div 512 ELSE b1
    OBVIOUS
  <2>3. Options!Settled(h) =
          [h EXCEPT !.grouponly = g2, !.on = (o2 \cup NoStat) \cup ComFollow, !.blocksize = b2]
    BY <1>4, <2>1, <2>2 DEF Options!Settled, FlagsOf
  <2> HIDE DEF NoStat, ComFollow
  <2>4. Options!Settled(h) = FlagsOf((o2 \cup NoStat) \cup ComFollow, g2, k1, b2)
    BY <1>4, <2>3 DEF FlagsOf
  <2> QED
    BY <2>4
<1>6. NoStat \cup ComFollow \in SUBSET {"NOSTAT", "COMFOLLOW"}
  OBVIOUS
<1>7. (o2 \cup NoStat) \cup ComFollow = o2 \cup (NoStat \cup ComFollow)
  OBVIOUS
<1> HIDE DEF NoStat, ComFollow
<1>8. HasOn(After(f, c), (o2 \cup NoStat) \cup ComFollow)
  <2>1. After(f, c) = Options!Settled(h)
    BY <1>3, <1>4 DEF After
  <2> QED
    BY <1>5, <2>1 DEF HasOn
<1> QED
  BY <1>2, <1>6, <1>7, <1>8

(* The kinds of options that override each other, and what their flags     *)
(* say of the last one. *)
Format == {"1", "C", "x", "m", "g", "l", "n"}
FormatFlag(c) ==
  CASE c = "1" -> {"singlecol"} [] c = "x" -> {"columnacross"} [] c = "m" -> {"stream"}
    [] c \in {"l", "g", "n"} -> {"longform"} [] OTHER -> {"column"}

Time == {"c", "u"}
Times == {"accesstime", "statustime"}
TimeFlag(c) == CASE c = "c" -> {"statustime"} [] c = "u" -> {"accesstime"} [] OTHER -> {}

Escape == {"B", "b", "q", "w"}
EscapeFlag(c) ==
  CASE c = "B" -> {"octal"} [] c = "b" -> {"octal_escape"} [] c = "w" -> {}
    [] OTHER -> {"nonprint"}

Unit == {"h", "k", "M"}

LEMMA FormatTurn ==
  ASSUME NEW c
  PROVE  IF c \in Format
         THEN Options!Formats \subseteq Options!Clears(c)
              /\ Options!Sets(c) \cap Options!Formats = FormatFlag(c)
         ELSE /\ Options!Clears(c) \cap Options!Formats = {}
              /\ Options!Sets(c) \cap Options!Formats = {}
BY DEF Options!Formats, Options!Escapes, Options!Clears, Options!Sets, Format, FormatFlag

LEMMA TimeTurn ==
  ASSUME NEW c
  PROVE  IF c \in Time
         THEN Times \subseteq Options!Clears(c) \cup Options!Sets(c)
              /\ Options!Sets(c) \cap Times = TimeFlag(c)
         ELSE /\ Options!Clears(c) \cap Times = {}
              /\ Options!Sets(c) \cap Times = {}
BY DEF Options!Formats, Options!Escapes, Options!Clears, Options!Sets, Time, Times, TimeFlag

LEMMA EscapeTurn ==
  ASSUME NEW c
  PROVE  IF c \in Escape
         THEN Options!Escapes \subseteq Options!Clears(c)
              /\ Options!Sets(c) \cap Options!Escapes = EscapeFlag(c)
         ELSE /\ Options!Clears(c) \cap Options!Escapes = {}
              /\ Options!Sets(c) \cap Options!Escapes = {}
BY DEF Options!Formats, Options!Escapes, Options!Clears, Options!Sets, Escape, EscapeFlag

LEMMA UnitTurn ==
  ASSUME NEW c
  PROVE  /\ "humanize" \in Options!Sets(c) <=> c = "h"
         /\ c # "h" => ("humanize" \in Options!Clears(c) <=> c \in Unit)
BY DEF Options!Formats, Options!Escapes, Options!Clears, Options!Sets, Unit

(* The last of the first i options that is of a kind. *)
LastUpTo(options, i, set) ==
  LET those == {j \in 1 .. i : options[j] \in set} IN
  IF those = {} THEN "none" ELSE options[Options!Max(those)]

LEMMA LastByTurns ==
  ASSUME NEW options, NEW set, NEW i \in Nat
  PROVE  /\ LastUpTo(options, 0, set) = "none"
         /\ LastUpTo(options, i + 1, set) =
              IF options[i + 1] \in set THEN options[i + 1] ELSE LastUpTo(options, i, set)
<1>1. LastUpTo(options, 0, set) = "none"
  BY DEF LastUpTo
<1> DEFINE S(k) == {j \in 1 .. k : options[j] \in set}
<1>2. CASE options[i + 1] \in set
  <2>1. PICK s : s = S(i + 1)
    OBVIOUS
  <2>2. i + 1 \in s /\ \A y \in s : y \in Int /\ i + 1 >= y
    BY <1>2, <2>1
  <2>3. \A x \in s : (\A y \in s : x >= y) => x = i + 1
    BY <2>2
  <2>4. Options!Max(s) = i + 1
    BY <2>2, <2>3 DEF Options!Max
  <2> QED
    BY <1>1, <1>2, <2>1, <2>2, <2>4 DEF LastUpTo
<1>3. CASE options[i + 1] \notin set
  <2>1. S(i + 1) = S(i)
    BY <1>3
  <2> QED
    BY <1>1, <1>3, <2>1 DEF LastUpTo
<1> QED
  BY <1>2, <1>3

(* The flags tell the last option of each kind. *)
Tell(f, format, time, escape, unit) ==
  \E on :
    /\ HasOn(f, on)
    /\ on \cap Options!Formats = FormatFlag(format)
    /\ on \cap Times = TimeFlag(time)
    /\ on \cap Options!Escapes = EscapeFlag(escape)
    /\ "humanize" \in on <=> unit = "h"

LEMMA TellDefaults == Tell(Defaults, "none", "none", "none", "none")
<1>1. Defaults = FlagsOf({"PHYSICAL", "column", "nonprint"}, 0, "BY_NAME", 0)
  BY DEF Defaults, FlagsOf
<1> QED
  BY <1>1 DEF Tell, HasOn, Options!Formats, FormatFlag, Times, TimeFlag, Options!Escapes, EscapeFlag

LEMMA TellTurn ==
  ASSUME NEW f, NEW format, NEW time, NEW escape, NEW unit, Tell(f, format, time, escape, unit),
         NEW c
  PROVE  Tell(After(f, c),
              IF c \in Format THEN c ELSE format, IF c \in Time THEN c ELSE time,
              IF c \in Escape THEN c ELSE escape, IF c \in Unit THEN c ELSE unit)
<1>1. PICK on :
        /\ HasOn(f, on)
        /\ on \cap Options!Formats = FormatFlag(format)
        /\ on \cap Times = TimeFlag(time)
        /\ on \cap Options!Escapes = EscapeFlag(escape)
        /\ "humanize" \in on <=> unit = "h"
  BY DEF Tell
<1>2. PICK extra \in SUBSET {"NOSTAT", "COMFOLLOW"} :
        HasOn(After(f, c), ((on \ Options!Clears(c)) \cup Options!Sets(c)) \cup extra)
  BY <1>1, AfterOn
<1>3. PICK clears, sets : clears = Options!Clears(c) /\ sets = Options!Sets(c)
  OBVIOUS
<1>4. PICK more : more = ((on \ clears) \cup sets) \cup extra
  OBVIOUS
<1>5. /\ extra \cap Options!Formats = {} /\ extra \cap Times = {}
      /\ extra \cap Options!Escapes = {} /\ "humanize" \notin extra
  BY <1>2 DEF Options!Formats, Times, Options!Escapes
<1>6. more \cap Options!Formats = FormatFlag(IF c \in Format THEN c ELSE format)
  <2>1. CASE c \in Format
    <3>1. Options!Formats \subseteq clears /\ sets \cap Options!Formats = FormatFlag(c)
      BY <1>3, <2>1, FormatTurn
    <3> QED
      BY <1>4, <1>5, <2>1, <3>1
  <2>2. CASE c \notin Format
    <3>1. clears \cap Options!Formats = {} /\ sets \cap Options!Formats = {}
      BY <1>3, <2>2, FormatTurn
    <3> QED
      BY <1>1, <1>4, <1>5, <2>2, <3>1
  <2> QED
    BY <2>1, <2>2
<1>7. more \cap Times = TimeFlag(IF c \in Time THEN c ELSE time)
  <2>1. CASE c \in Time
    <3>1. Times \subseteq clears \cup sets /\ sets \cap Times = TimeFlag(c)
      BY <1>3, <2>1, TimeTurn
    <3> QED
      BY <1>4, <1>5, <2>1, <3>1
  <2>2. CASE c \notin Time
    <3>1. clears \cap Times = {} /\ sets \cap Times = {}
      BY <1>3, <2>2, TimeTurn
    <3> QED
      BY <1>1, <1>4, <1>5, <2>2, <3>1
  <2> QED
    BY <2>1, <2>2
<1>8. more \cap Options!Escapes = EscapeFlag(IF c \in Escape THEN c ELSE escape)
  <2>1. CASE c \in Escape
    <3>1. Options!Escapes \subseteq clears /\ sets \cap Options!Escapes = EscapeFlag(c)
      BY <1>3, <2>1, EscapeTurn
    <3> QED
      BY <1>4, <1>5, <2>1, <3>1
  <2>2. CASE c \notin Escape
    <3>1. clears \cap Options!Escapes = {} /\ sets \cap Options!Escapes = {}
      BY <1>3, <2>2, EscapeTurn
    <3> QED
      BY <1>1, <1>4, <1>5, <2>2, <3>1
  <2> QED
    BY <2>1, <2>2
<1>9. "humanize" \in more <=> (IF c \in Unit THEN c ELSE unit) = "h"
  <2>1. "humanize" \in sets <=> c = "h"
    BY <1>3, UnitTurn
  <2>2. c # "h" => ("humanize" \in clears <=> c \in Unit)
    BY <1>3, UnitTurn
  <2>3. "h" \in Unit
    BY DEF Unit
  <2> QED
    BY <1>1, <1>4, <1>5, <2>1, <2>2, <2>3
<1>10. HasOn(After(f, c), more)
  BY <1>2, <1>3, <1>4
<1> QED
  BY <1>6, <1>7, <1>8, <1>9, <1>10 DEF Tell

(* What ls does, from the flags.                                           *)
LEMMA TellMeans ==
  ASSUME NEW f, NEW format, NEW time, NEW escape, NEW unit, Tell(f, format, time, escape, unit)
  PROVE  /\ Options!PrintFunction(f) = Options!FormatOf(format)
         /\ f.sortkey = "BY_TIME" =>
              Options!SortKey(f).key = (CASE time = "c" -> "status" [] time = "u" -> "access"
                                         [] OTHER -> "modified")
         /\ f.on \cap Options!Escapes =
              (CASE escape = "B" -> {"octal"} [] escape = "b" -> {"octal_escape"}
                 [] escape = "w" -> {} [] OTHER -> {"nonprint"})
         /\ "humanize" \in f.on <=> unit = "h"
<1>1. PICK on :
        /\ HasOn(f, on)
        /\ on \cap Options!Formats = FormatFlag(format)
        /\ on \cap Times = TimeFlag(time)
        /\ on \cap Options!Escapes = EscapeFlag(escape)
        /\ "humanize" \in on <=> unit = "h"
  BY DEF Tell
<1>2. f.on = on
  BY <1>1 DEF HasOn, FlagsOf
<1>3. Options!PrintFunction(f) = Options!FormatOf(format)
  <2>1. \A flag \in Options!Formats : flag \in on <=> flag \in FormatFlag(format)
    BY <1>1
  <2>2. /\ "singlecol" \in on <=> format = "1"
        /\ "columnacross" \in on <=> format = "x"
        /\ "stream" \in on <=> format = "m"
        /\ "longform" \in on <=> format \in {"l", "g", "n"}
    BY <2>1 DEF Options!Formats, FormatFlag
  <2> QED
    BY <1>2, <2>2 DEF Options!PrintFunction, Options!FormatOf
<1>4. ASSUME f.sortkey = "BY_TIME"
      PROVE  Options!SortKey(f).key = (CASE time = "c" -> "status" [] time = "u" -> "access"
                                         [] OTHER -> "modified")
  <2>1. /\ "accesstime" \in on <=> time = "u"
        /\ "statustime" \in on <=> time = "c"
    BY <1>1 DEF Times, TimeFlag
  <2> QED
    BY <1>2, <1>4, <2>1 DEF Options!SortKey
<1> QED
  BY <1>1, <1>2, <1>3, <1>4 DEF EscapeFlag

(* Whatever options ls gets, and how many, the last of those that override *)
(* each other is what it does (ls.c:111 to 253, 311 to 360).               *)
THEOREM LastOfAnyOptionsWins ==
  ASSUME input.options \in Seq(STRING)
  PROVE  LastOptionWins
<1>1. PICK options, n : n \in Nat /\ options = input.options /\ DOMAIN options = 1 .. n
  OBVIOUS
<1>2. PICK it : Turns(it, options, n) /\ Options!Flags(options) = it[1 .. n]
  BY <1>1, FlagsByTurns
<1> DEFINE L(i, set) == LastUpTo(options, i, set)
           T == {i \in Nat : i <= n =>
                   Tell(it[1 .. i], L(i, Format), L(i, Time), L(i, Escape), L(i, Unit))}
<1>3. 0 \in T
  <2>1. it[1 .. 0] = Defaults
    <3>1. 1 .. 0 = {}
      OBVIOUS
    <3> QED
      BY <1>2, <3>1 DEF Turns
  <2>2. \A set : L(0, set) = "none"
    BY LastByTurns
  <2> HIDE DEF L
  <2> QED
    BY <2>1, <2>2, TellDefaults
<1>4. ASSUME NEW i \in Nat, i \in T PROVE i + 1 \in T
  <2>1. SUFFICES ASSUME i + 1 <= n
                 PROVE  Tell(it[1 .. i + 1], L(i + 1, Format), L(i + 1, Time),
                             L(i + 1, Escape), L(i + 1, Unit))
    OBVIOUS
  <2>2. Tell(it[1 .. i], L(i, Format), L(i, Time), L(i, Escape), L(i, Unit))
    BY <1>1, <1>4, <2>1
  <2>3. PICK c : c = options[i + 1]
    OBVIOUS
  <2>4. it[1 .. i + 1] = After(it[1 .. i], c)
    <3>1. i \in 0 .. n - 1
      BY <1>1, <2>1
    <3> QED
      BY <1>2, <2>3, <3>1 DEF Turns
  <2>5. \A set : L(i + 1, set) = IF c \in set THEN c ELSE L(i, set)
    BY <2>3, LastByTurns
  <2> HIDE DEF L
  <2> QED
    BY <2>2, <2>4, <2>5, TellTurn
<1>5. n \in T
  BY <1>1, <1>3, <1>4, NatInd
<1>6. \A set : L(n, set) = Options!LastOf(options, set)
  BY <1>1 DEF LastUpTo, Options!LastOf
<1> HIDE DEF L
<1>7. PICK f : f = Options!Flags(options)
  OBVIOUS
<1>8. Tell(f, Options!LastOf(options, Format), Options!LastOf(options, Time),
           Options!LastOf(options, Escape), Options!LastOf(options, Unit))
  BY <1>1, <1>2, <1>5, <1>6, <1>7
<1>9. Options!LastOptionWins(options)
  BY <1>7, <1>8, TellMeans DEF Options!LastOptionWins, Format, Time, Escape, Unit
<1> QED
  BY <1>1, <1>9 DEF LastOptionWins

-----------------------------------------------------------------------------
(* The first places of a sequence, and the last of them. *)
FirstPlaces(s, n, i) ==
  /\ s \in SUBSET (1 .. n) /\ s # {} /\ s \ {i + 1} = 1 .. i
  /\ i + 1 \in s /\ \A x \in s : (\A y \in s : x >= y) <=> x = i + 1

LEMMA AreFirstPlaces ==
  ASSUME NEW n \in Nat, NEW i \in 0 .. n - 1, NEW s, s = 1 .. i + 1
  PROVE  FirstPlaces(s, n, i)
<1>1. i \in Nat /\ i + 1 <= n /\ i + 1 \in 1 .. n
  OBVIOUS
<1>2. \A y : y \in s <=> y \in Int /\ 1 <= y /\ y <= i + 1
  BY <1>1
<1>3. i + 1 \in s /\ \A y \in s : y \in 1 .. n
  BY <1>1, <1>2
<1>4. s \ {i + 1} = 1 .. i
  BY <1>1
<1>5. ASSUME NEW x \in s PROVE (\A y \in s : x >= y) <=> x = i + 1
  <2>1. x \in Int /\ x <= i + 1
    BY <1>2
  <2>2. x = i + 1 => \A y \in s : x >= y
    BY <1>1, <1>2
  <2>3. (\A y \in s : x >= y) => x >= i + 1
    BY <1>3
  <2> QED
    BY <1>1, <2>1, <2>2, <2>3
<1>6. s \in SUBSET (1 .. n) /\ s # {}
  BY <1>3
<1> QED
  BY <1>3, <1>4, <1>5, <1>6 DEF FirstPlaces

(* head: how many newlines a file has up to a place. *)
LineEnds(data) == {i \in DOMAIN data : data[i] = "nl"}
Lines(data, i) == Cardinality({j \in LineEnds(data) : j <= i})

LEMMA LinesCount ==
  ASSUME NEW data, NEW n \in Nat, DOMAIN data = 1 .. n, NEW i \in 0 .. n
  PROVE  /\ Lines(data, i) \in Nat
         /\ Lines(data, 0) = 0
         /\ Lines(data, n) = Cardinality(LineEnds(data))
         /\ Lines(data, i) <= Lines(data, n)
         /\ i > 0 => Lines(data, i) = IF data[i] = "nl" THEN Lines(data, i - 1) + 1
                                      ELSE Lines(data, i - 1)
<1> DEFINE E(k) == {j \in LineEnds(data) : j <= k}
<1>1. \A k \in 0 .. n : IsFiniteSet(E(k)) /\ Cardinality(E(k)) \in Nat
  <2> TAKE k \in 0 .. n
  <2>1. E(k) \in SUBSET (1 .. n) /\ IsFiniteSet(1 .. n)
    BY FS_Interval DEF LineEnds
  <2>2. IsFiniteSet(E(k))
    BY <2>1, FS_Subset
  <2> QED
    BY <2>2, FS_CardinalityType
<1>2. E(0) = {} /\ E(n) = LineEnds(data)
  BY DEF LineEnds
<1>3. E(i) \in SUBSET E(n)
  BY DEF LineEnds
<1>4. Cardinality(E(i)) <= Cardinality(E(n))
  BY <1>1, <1>3, FS_Subset
<1>5. ASSUME i > 0
      PROVE  Cardinality(E(i)) = IF data[i] = "nl" THEN Cardinality(E(i - 1)) + 1
                                 ELSE Cardinality(E(i - 1))
  <2>1. IsFiniteSet(E(i - 1)) /\ i \notin E(i - 1)
    BY <1>1, <1>5
  <2>2. CASE data[i] = "nl"
    <3>1. E(i) = E(i - 1) \cup {i}
      BY <1>5, <2>2 DEF LineEnds
    <3> QED
      BY <2>1, <2>2, <3>1, FS_AddElement
  <2>3. CASE data[i] # "nl"
    <3>1. E(i) = E(i - 1)
      BY <1>5, <2>3 DEF LineEnds
    <3> QED
      BY <2>3, <3>1
  <2> QED
    BY <2>2, <2>3
<1>6. \A k : Lines(data, k) = Cardinality(E(k))
  BY DEF Lines
<1> HIDE DEF E
<1> QED
  BY <1>1, <1>2, <1>4, <1>5, <1>6, FS_EmptySet

(* A file with that many newlines has the one that makes it so many. *)
LEMMA LineEnd ==
  ASSUME NEW data, NEW n \in Nat, DOMAIN data = 1 .. n,
         NEW cnt \in Nat, cnt > 0, Lines(data, n) >= cnt
  PROVE  \E i \in 1 .. n : data[i] = "nl" /\ Lines(data, i) = cnt
<1> DEFINE T == {k \in 0 .. n : Lines(data, k) >= cnt}
<1>1. T \subseteq Nat /\ n \in T
  OBVIOUS
<1>2. PICK i \in T : \A k \in T : i <= k
  <2> HIDE DEF T
  <2> QED
    BY <1>1, LeastElement
<1>3. i \in 0 .. n /\ Lines(data, i) >= cnt /\ Lines(data, i) \in Nat /\ Lines(data, 0) = 0
  BY <1>2, LinesCount
<1>4. i > 0
  BY <1>3
<1>5. Lines(data, i) = IF data[i] = "nl" THEN Lines(data, i - 1) + 1 ELSE Lines(data, i - 1)
  BY <1>3, <1>4, LinesCount
<1>6. i - 1 \in 0 .. n /\ i - 1 \notin T
  BY <1>2, <1>3, <1>4
<1>7. Lines(data, i - 1) \in Nat /\ Lines(data, i - 1) < cnt
  BY <1>6, LinesCount
<1> QED
  BY <1>3, <1>4, <1>5, <1>7

LEMMA SameCardinality == \A S : HeadOf!Cardinality(S) = Cardinality(S)
BY DEF HeadOf!Cardinality, Cardinality

(* What head() shows of a file. *)
IsHead(shown, data, cnt) ==
  LET newlines(s) == Cardinality({i \in DOMAIN s : s[i] = "nl"})
  IN  /\ IsPrefix(shown, data)
      /\ newlines(shown) <= cnt
      /\ IF newlines(data) < cnt THEN shown = data
         ELSE newlines(shown) = cnt /\ Last(shown) = "nl"

LEMMA HeadShows ==
  ASSUME NEW data \in Seq(STRING), NEW cnt \in Nat, cnt > 0
  PROVE  IsHead(HeadOf!HeadOf(data, cnt, 0), data, cnt)
<1>1. PICK n \in Nat : n = Len(data) /\ DOMAIN data = 1 .. n
  OBVIOUS
<1>2. PICK shown : shown = HeadOf!HeadOf(data, cnt, 0)
  OBVIOUS
<1> DEFINE last == {i \in LineEnds(data) : Lines(data, i) = cnt}
           newlines(s) == Cardinality({i \in DOMAIN s : s[i] = "nl"})
<1>3. shown = IF last = {} THEN data ELSE SubSeq(data, 1, CHOOSE i \in last : TRUE)
  <2>1. last = {i \in LineEnds(data) : HeadOf!Cardinality({j \in LineEnds(data) : j <= i}) = cnt}
    BY SameCardinality DEF Lines
  <2> HIDE DEF last
  <2> QED
    BY <1>2, <2>1 DEF HeadOf!HeadOf, LineEnds
<1>4. newlines(data) = Lines(data, n) /\ Lines(data, n) \in Nat
  <2>1. newlines(data) = Cardinality(LineEnds(data))
    BY DEF LineEnds
  <2> QED
    BY <1>1, <2>1, LinesCount
<1>5. CASE last = {}
  <2>1. shown = data
    BY <1>3, <1>5
  <2>2. Lines(data, n) < cnt
    <3>1. SUFFICES ASSUME Lines(data, n) >= cnt PROVE FALSE
      BY <1>4
    <3>2. PICK i \in 1 .. n : data[i] = "nl" /\ Lines(data, i) = cnt
      BY <1>1, <3>1, LineEnd
    <3> QED
      BY <1>1, <1>5, <3>2 DEF LineEnds
  <2>3. IsPrefix(data, data)
    BY DEF IsPrefix
  <2> HIDE DEF newlines
  <2>4. newlines(shown) < cnt /\ newlines(data) < cnt /\ newlines(shown) \in Nat
    BY <1>4, <2>1, <2>2
  <2> QED
    BY <1>2, <2>1, <2>3, <2>4 DEF IsHead, newlines
<1>6. CASE last # {}
  <2>1. PICK i : i = CHOOSE x \in last : TRUE
    OBVIOUS
  <2>2. i \in last
    BY <1>6, <2>1
  <2>3. i \in 1 .. n /\ data[i] = "nl" /\ Lines(data, i) = cnt
    BY <1>1, <2>2 DEF LineEnds
  <2>4. shown = SubSeq(data, 1, i)
    BY <1>3, <1>6, <2>1
  <2>5. Len(shown) = i /\ \A j \in 1 .. i : shown[j] = data[j]
    BY <1>1, <2>3, <2>4
  <2>6. shown \in Seq(STRING) /\ DOMAIN shown = 1 .. i
    BY <1>1, <2>3, <2>4, <2>5
  <2>7. newlines(shown) = cnt
    <3>1. {j \in DOMAIN shown : shown[j] = "nl"} = {j \in LineEnds(data) : j <= i}
      BY <1>1, <2>3, <2>5, <2>6 DEF LineEnds
    <3> QED
      BY <2>3, <3>1 DEF Lines
  <2>8. IsPrefix(shown, data)
    <3>1. SubSeq(shown, 1, Len(shown)) = shown
      BY <2>6
    <3>2. SubSeq(data, 1, Len(shown)) = shown
      BY <2>4, <2>5
    <3> QED
      BY <1>1, <2>3, <2>5, <3>1, <3>2 DEF IsPrefix
  <2>9. Last(shown) = "nl"
    BY <2>3, <2>5 DEF Last
  <2>10. ~(Lines(data, n) < cnt)
    BY <1>1, <1>4, <2>3, LinesCount
  <2> HIDE DEF newlines
  <2>11. ~(newlines(data) < cnt) /\ newlines(shown) <= cnt
    BY <1>4, <2>7, <2>10
  <2> QED
    BY <1>2, <2>7, <2>8, <2>9, <2>11 DEF IsHead, newlines
<1> QED
  BY <1>5, <1>6

-----------------------------------------------------------------------------
(* The loop of head's main(), turn by turn. *)
Begun(av) ==
  [argv |-> HeadOf!Obsolete(av), optind |-> 1, linecnt |-> 0, bytecnt |-> 0,
   vflag |-> FALSE, over |-> FALSE, exits |-> FALSE]

Loops(it, av, seq, n) ==
  it = [s \in SUBSET (1 .. n) |->
          IF s = {} THEN Begun(av)
          ELSE HeadOf!Turn(it[s \ {HeadOf!Max(s)}], seq[HeadOf!Max(s)])]

HasLength(av, n) == n = Len(av)

LEMMA MainIsALoop ==
  ASSUME NEW av, NEW n \in Nat, HasLength(av, n)
  PROVE  \E it, seq : /\ it = CHOOSE h : Loops(h, av, seq, n)
                      /\ HeadOf!Main(av) = it[1 .. n]
<1>1. PICK seq : seq = [i \in 1 .. Len(av) |-> i]
  OBVIOUS
<1>2. DOMAIN seq = 1 .. n
  BY <1>1 DEF HasLength
<1>3. PICK base : base = Begun(av)
  OBVIOUS
<1>4. HeadOf!Main(av) = HeadOf!FoldLeft(HeadOf!Turn, base, seq)
  BY <1>1, <1>3 DEF HeadOf!Main, Begun
<1>5. HeadOf!FoldLeft(HeadOf!Turn, base, seq) =
        (CHOOSE h : h = [s \in SUBSET (DOMAIN seq) |->
                           IF s = {} THEN base
                           ELSE HeadOf!Turn(h[s \ {HeadOf!Max(s)}], seq[HeadOf!Max(s)])])[DOMAIN seq]
  BY Zenon DEF HeadOf!FoldLeft, HeadOf!MapThenFoldSet
<1>6. PICK it : it = CHOOSE h : Loops(h, av, seq, n)
  OBVIOUS
<1>7. it = CHOOSE h : h = [s \in SUBSET (1 .. n) |->
                           IF s = {} THEN base
                           ELSE HeadOf!Turn(h[s \ {HeadOf!Max(s)}], seq[HeadOf!Max(s)])]
  BY <1>3, <1>6 DEF Loops
<1>8. HeadOf!Main(av) = it[1 .. n]
  BY <1>2, <1>4, <1>5, <1>7
<1> QED
  BY <1>6, <1>8

LEMMA LoopExists ==
  ASSUME NEW av, NEW seq, NEW n \in Nat
  PROVE  \E it : Loops(it, av, seq, n)
<1> DEFINE Later(f, c) == HeadOf!Turn(f, c)
           T == {k \in Nat : \E it : Loops(it, av, seq, k)}
<1>1. 0 \in T
  <2> DEFINE it == [s \in SUBSET (1 .. 0) |-> Begun(av)]
  <2>1. Loops(it, av, seq, 0)
    BY DEF Loops
  <2> QED
    BY <2>1
<1>2. ASSUME NEW k \in Nat, k \in T PROVE k + 1 \in T
  <2>1. PICK g : Loops(g, av, seq, k)
    BY <1>2
  <2>2. \A s \in SUBSET (1 .. k) :
          g[s] = IF s = {} THEN Begun(av)
                 ELSE Later(g[s \ {HeadOf!Max(s)}], seq[HeadOf!Max(s)])
    BY <2>1 DEF Loops
  <2> HIDE DEF Later
  <2> DEFINE it == [s \in SUBSET (1 .. k + 1) |->
                      IF k + 1 \in s THEN Later(g[s \ {k + 1}], seq[k + 1]) ELSE g[s]]
  <2>3. ASSUME NEW s \in SUBSET (1 .. k + 1)
        PROVE  it[s] = IF s = {} THEN Begun(av)
                       ELSE Later(it[s \ {HeadOf!Max(s)}], seq[HeadOf!Max(s)])
    <3>1. CASE k + 1 \in s
      <4>1. HeadOf!Max(s) = k + 1
        <5>1. \A y \in s : k + 1 >= y
          OBVIOUS
        <5>2. \A x \in s : (\A y \in s : x >= y) => x = k + 1
          BY <3>1
        <5> QED
          BY <3>1, <5>1, <5>2 DEF HeadOf!Max
      <4>2. s \ {k + 1} \in SUBSET (1 .. k) /\ s \ {k + 1} \in SUBSET (1 .. k + 1)
            /\ k + 1 \notin s \ {k + 1}
        OBVIOUS
      <4>3. it[s \ {k + 1}] = g[s \ {k + 1}]
        BY <4>2
      <4>4. it[s] = Later(g[s \ {k + 1}], seq[k + 1])
        BY <3>1
      <4> HIDE DEF it
      <4> QED
        BY <3>1, <4>1, <4>3, <4>4
    <3>2. CASE k + 1 \notin s
      <4>1. s \in SUBSET (1 .. k)
        BY <3>2
      <4>2. PICK m : m = HeadOf!Max(s)
        OBVIOUS
      <4>3. s \ {m} \in SUBSET (1 .. k + 1) /\ k + 1 \notin s \ {m}
        BY <3>2
      <4>4. it[s] = g[s] /\ it[s \ {m}] = g[s \ {m}]
        BY <3>2, <4>3
      <4> HIDE DEF it
      <4> QED
        BY <2>2, <4>1, <4>2, <4>4
    <3> QED
      BY <3>1, <3>2
  <2>4. it = [s \in SUBSET (1 .. k + 1) |-> it[s]]
    OBVIOUS
  <2> HIDE DEF it
  <2>5. Loops(it, av, seq, k + 1)
    BY <2>3, <2>4 DEF Loops, Later
  <2> QED
    BY <2>5
<1>3. n \in T
  BY <1>1, <1>2, NatInd
<1> QED
  BY <1>3

LEMMA MainByTurns ==
  ASSUME NEW av, NEW n \in Nat, HasLength(av, n)
  PROVE  \E v : /\ v[0] = Begun(av)
                /\ \A i \in 0 .. n - 1 : \E c : v[i + 1] = HeadOf!Turn(v[i], c)
                /\ HeadOf!Main(av) = v[n]
<1>1. PICK it, seq : /\ it = CHOOSE h : Loops(h, av, seq, n)
                     /\ HeadOf!Main(av) = it[1 .. n]
  BY MainIsALoop
<1>2. Loops(it, av, seq, n)
  BY <1>1, LoopExists
<1>3. \A s \in SUBSET (1 .. n) :
        it[s] = IF s = {} THEN Begun(av)
                ELSE HeadOf!Turn(it[s \ {HeadOf!Max(s)}], seq[HeadOf!Max(s)])
  BY <1>2 DEF Loops
<1>4. it[{}] = Begun(av)
  BY <1>3
<1>5. ASSUME NEW i \in 0 .. n - 1
      PROVE  \E c : it[1 .. i + 1] = HeadOf!Turn(it[1 .. i], c)
  <2>1. PICK s : s = 1 .. i + 1
    OBVIOUS
  <2>2. /\ s \in SUBSET (1 .. n) /\ s # {} /\ s \ {i + 1} = 1 .. i
        /\ i + 1 \in s /\ \A x \in s : (\A y \in s : x >= y) <=> x = i + 1
    <3>1. FirstPlaces(s, n, i)
      BY <2>1, AreFirstPlaces
    <3> QED
      BY <3>1 DEF FirstPlaces
  <2>3. HeadOf!Max(s) = i + 1
    BY <2>2 DEF HeadOf!Max
  <2>4. it[s] = HeadOf!Turn(it[s \ {i + 1}], seq[i + 1])
    BY <1>3, <2>2, <2>3
  <2>5. it[1 .. i + 1] = HeadOf!Turn(it[1 .. i], seq[i + 1])
    BY <2>1, <2>2, <2>4
  <2> QED
    BY <2>5
<1> DEFINE v == [i \in 0 .. n |-> it[1 .. i]]
<1>6. \A i \in 0 .. n : v[i] = it[1 .. i]
  OBVIOUS
<1>7. v[0] = Begun(av) /\ v[n] = it[1 .. n]
  <2>1. 1 .. 0 = {} /\ 0 \in 0 .. n /\ n \in 0 .. n
    OBVIOUS
  <2> HIDE DEF v
  <2> QED
    BY <1>4, <1>6, <2>1
<1>8. ASSUME NEW i \in 0 .. n - 1
      PROVE  \E c : v[i + 1] = HeadOf!Turn(v[i], c)
  <2>1. i \in 0 .. n /\ i + 1 \in 0 .. n
    OBVIOUS
  <2>2. v[i] = it[1 .. i] /\ v[i + 1] = it[1 .. i + 1]
    BY <1>6, <2>1
  <2> HIDE DEF v
  <2> QED
    BY <1>5, <2>2
<1> HIDE DEF v
<1> QED
  BY <1>1, <1>7, <1>8

(* A turn of it. *)
State(av, optind, linecnt, over) ==
  [argv |-> av, optind |-> optind, linecnt |-> linecnt, bytecnt |-> 0,
   vflag |-> FALSE, over |-> over, exits |-> FALSE]

TheFile == << <<"file">> >>

(* The loop goes on to the end. *)
LEMMA TurnAtEnd ==
  ASSUME NEW optind \in Nat, optind >= 1, NEW n, NEW over \in BOOLEAN, NEW c
  PROVE  HeadOf!Turn(State(TheFile, optind, n, over), c) = State(TheFile, optind, n, TRUE)
<1>1. PICK s : s = State(TheFile, optind, n, over)
  OBVIOUS
<1>2. s.argv = TheFile /\ s.optind = optind /\ Len(s.argv) = 1
  BY <1>1 DEF State, TheFile
<1>3. HeadOf!Getopt(s.argv, s.optind).ch = "end"
  BY <1>2 DEF HeadOf!Getopt
<1>4. HeadOf!Turn(s, c) = [s EXCEPT !.over = TRUE]
  BY <1>3 DEF HeadOf!Turn
<1> QED
  BY <1>1, <1>4 DEF State

LEMMA LastWord ==
  ASSUME NEW q, NEW k \in Nat, NEW e, q[k] = e
  PROVE  SubSeq(q, k, k) = <<e>>
<1>1. \A i \in k .. k : q[i] \in {e}
  OBVIOUS
<1>2. /\ SubSeq(q, k, k) \in Seq({e})
      /\ Len(SubSeq(q, k, k)) = IF k <= k THEN k - k + 1 ELSE 0
      /\ \A i \in 1 .. k - k + 1 : SubSeq(q, k, k)[i] = q[k + i - 1]
  BY <1>1, SubSeqProperties
<1>3. PICK p : p = SubSeq(q, k, k)
  OBVIOUS
<1>4. p \in Seq({e}) /\ Len(p) = 1
  BY <1>2, <1>3
<1>5. p = <<e>>
  BY <1>4
<1> QED
  BY <1>3, <1>5

(* The two ways to write an option with a number. *)
Avs(n) ==
  {<< <<"head">>, <<"n", n>>, <<"file">> >>,
   << <<"head">>, <<"n">>, <<"number", n>>, <<"file">> >>}

LEMMA AvOf ==
  ASSUME NEW a, NEW b, NEW c, NEW d
  PROVE  <<a>> \o <<b>> \o <<c>> = <<a, b, c>> /\ <<a>> \o <<b, c>> \o <<d>> = <<a, b, c, d>>
<1>1. PICK S : S = {a, b, c, d}
  OBVIOUS
<1>2. a \in S /\ b \in S /\ c \in S /\ d \in S
  BY <1>1
<1>3. <<a>> \in Seq(S) /\ <<a, b>> \in Seq(S) /\ <<a, b, c>> \in Seq(S)
  BY <1>2
<1>4. ASSUME NEW s \in Seq(S), NEW q \in Seq(S), NEW k \in Nat, Len(s) = k, Len(q) = k + 1,
             \A j \in 1 .. k : q[j] = s[j], NEW e \in S, q[k + 1] = e
      PROVE  Append(s, e) = q
  <2>1. Len(q) = Len(s) + 1 /\ (\A j \in 1 .. Len(s) : q[j] = s[j]) /\ q[Len(s) + 1] = e
    BY <1>4
  <2> QED
    BY <2>1, IsAppended
<1>8. Append(<<a>>, b) = <<a, b>>
  <2>1. PICK q, s : q = <<a, b>> /\ s = <<a>>
    OBVIOUS
  <2>2. /\ s \in Seq(S) /\ q \in Seq(S) /\ Len(s) = 1 /\ Len(q) = 1 + 1
        /\ q[1] = s[1] /\ q[1 + 1] = b
    BY <1>2, <2>1
  <2>3. \A j \in 1 .. 1 : q[j] = s[j]
    BY <2>2
  <2>4. Append(s, b) = q
    BY <1>2, <1>4, <2>2, <2>3
  <2> QED
    BY <2>1, <2>4
<1>9. Append(<<a, b>>, c) = <<a, b, c>>
  <2>1. PICK q, s : q = <<a, b, c>> /\ s = <<a, b>>
    OBVIOUS
  <2>2. /\ s \in Seq(S) /\ q \in Seq(S) /\ Len(s) = 2 /\ Len(q) = 2 + 1
        /\ q[1] = s[1] /\ q[2] = s[2] /\ q[2 + 1] = c
    BY <1>2, <2>1
  <2>3. \A j \in 1 .. 2 : q[j] = s[j]
    BY <2>2
  <2>4. Append(s, c) = q
    BY <1>2, <1>4, <2>2, <2>3
  <2> QED
    BY <2>1, <2>4
<1>10. Append(<<a, b, c>>, d) = <<a, b, c, d>>
  <2>1. PICK q, s : q = <<a, b, c, d>> /\ s = <<a, b, c>>
    OBVIOUS
  <2>2. /\ s \in Seq(S) /\ q \in Seq(S) /\ Len(s) = 3 /\ Len(q) = 3 + 1
        /\ q[1] = s[1] /\ q[2] = s[2] /\ q[3] = s[3] /\ q[3 + 1] = d
    BY <1>2, <2>1
  <2>3. \A j \in 1 .. 3 : q[j] = s[j]
    BY <2>2
  <2>4. Append(s, d) = q
    BY <1>2, <1>4, <2>2, <2>3
  <2> QED
    BY <2>1, <2>4
<1>5. \A s \in Seq(S), e \in S : s \o <<e>> = Append(s, e)
  OBVIOUS
<1>6. <<a>> \o <<b>> = <<a, b>> /\ <<a, b>> \o <<c>> = <<a, b, c>>
      /\ <<a, b, c>> \o <<d>> = <<a, b, c, d>>
  BY <1>2, <1>3, <1>5, <1>8, <1>9, <1>10, Zenon
<1>7. <<a>> \o <<b, c>> = <<a, b, c>>
  <2>1. \A s \in Seq(S) : s \o <<b, c>> = Append(Append(s, b), c)
    BY <1>2, ConcatTwo
  <2>2. <<a>> \o <<b, c>> = Append(Append(<<a>>, b), c)
    BY <1>3, <2>1, Zenon
  <2> QED
    BY <1>8, <1>9, <2>2, Zenon
<1> QED
  BY <1>6, <1>7, Zenon

LEMMA TurnAtCount ==
  ASSUME NEW n \in Nat, n > 0, NEW c, NEW av \in Avs(n)
  PROVE  \E optind \in Nat : /\ optind >= 1
                             /\ HeadOf!Turn(State(av, 1, 0, FALSE), c) =
                                  State(TheFile, optind, n, FALSE)
<1>1. PICK s : s = State(av, 1, 0, FALSE)
  OBVIOUS
<1>2. s.argv = av /\ s.optind = 1 /\ s.over = FALSE
  BY <1>1 DEF State
<1>3. PICK optind \in {2, 3} :
        /\ HeadOf!Getopt(av, 1) = [ch |-> "n", arg |-> n, optind |-> optind]
        /\ SubSeq(av, optind + 1, Len(av)) = TheFile
  <2>1. CASE av = << <<"head">>, <<"n", n>>, <<"file">> >>
    <3>1. av[2] = <<"n", n>> /\ Len(av) = 3 /\ Len(av[2]) = 2
          /\ av[2][1] = "n" /\ av[2][2] = n
      BY <2>1
    <3>2. HeadOf!Getopt(av, 1) = [ch |-> "n", arg |-> n, optind |-> 2]
      BY <3>1 DEF HeadOf!Getopt
    <3>3. SubSeq(av, 3, 3) = TheFile
      <4>1. PICK q : q = av
        OBVIOUS
      <4>2. q[3] = <<"file">>
        BY <2>1, <4>1
      <4> HIDE <2>1
      <4>3. SubSeq(q, 3, 3) = << <<"file">> >>
        BY <4>2, LastWord
      <4> QED
        BY <4>1, <4>3, Zenon DEF TheFile
    <3> QED
      BY <3>1, <3>2, <3>3
  <2>2. CASE av = << <<"head">>, <<"n">>, <<"number", n>>, <<"file">> >>
    <3>1. av[2] = <<"n">> /\ Len(av) = 4 /\ Len(av[2]) = 1
          /\ av[2][1] = "n" /\ av[3][1] = "number" /\ av[3][2] = n
      BY <2>2
    <3>2. HeadOf!Getopt(av, 1) = [ch |-> "n", arg |-> n, optind |-> 3]
      BY <3>1 DEF HeadOf!Getopt
    <3>3. SubSeq(av, 4, 4) = TheFile
      <4>1. PICK q : q = av
        OBVIOUS
      <4>2. q[4] = <<"file">>
        BY <2>2, <4>1
      <4> HIDE <2>2
      <4>3. SubSeq(q, 4, 4) = << <<"file">> >>
        BY <4>2, LastWord
      <4> QED
        BY <4>1, <4>3, Zenon DEF TheFile
    <3> QED
      BY <3>1, <3>2, <3>3
  <2> QED
    BY <2>1, <2>2 DEF Avs
<1>4. PICK r : r = HeadOf!Getopt(s.argv, s.optind)
  OBVIOUS
<1>5. r.ch = "n" /\ r.arg = n /\ ~(r.arg <= 0) /\ r.optind = optind
      /\ SubSeq(s.argv, r.optind + 1, Len(s.argv)) = TheFile
  BY <1>2, <1>3, <1>4
<1>6. HeadOf!Turn(s, c) =
        [[s EXCEPT !.argv = SubSeq(s.argv, r.optind + 1, Len(s.argv)), !.optind = r.optind]
           EXCEPT !.linecnt = r.arg]
  BY <1>2, <1>4, <1>5 DEF HeadOf!Turn
<1>7. HeadOf!Turn(s, c) = State(TheFile, optind, n, FALSE)
  BY <1>1, <1>5, <1>6 DEF State
<1>8. optind \in Nat /\ optind >= 1
  BY <1>3
<1> HIDE DEF HeadOf!Turn
<1>9. HeadOf!Turn(State(av, 1, 0, FALSE), c) = State(TheFile, optind, n, FALSE)
  BY <1>1, <1>7, Zenon
<1> QED
  BY <1>8, <1>9

LEMMA BegunState ==
  ASSUME NEW n \in Nat, NEW av \in Avs(n)
  PROVE  /\ Begun(av) = State(av, 1, 0, FALSE)
         /\ \E k \in {3, 4} : HasLength(av, k)
<1>1. /\ av[2][1] = "n" /\ av = [i \in DOMAIN av |-> av[i]]
      /\ \E k \in {3, 4} : k = Len(av) /\ DOMAIN av = 1 .. k
  BY DEF Avs
<1>2. \A i \in DOMAIN av : ~(i > 1 /\ \A j \in 2 .. i : av[j][1] = "old")
  <2> TAKE i \in DOMAIN av
  <2>1. i \in Nat
    BY <1>1
  <2>2. i > 1 => 2 \in 2 .. i
    BY <2>1
  <2> QED
    BY <1>1, <2>2
<1>3. HeadOf!Obsolete(av) = av
  BY <1>1, <1>2 DEF HeadOf!Obsolete
<1> QED
  BY <1>1, <1>3 DEF Begun, State, HasLength

LEMMA CountIsTaken ==
  ASSUME NEW n \in Nat, n > 0, NEW av \in Avs(n)
  PROVE  \E optind : HeadOf!Main(av) = State(TheFile, optind, n, TRUE)
<1>1. PICK k \in {3, 4} : HasLength(av, k)
  BY BegunState
<1>2. PICK v : /\ v[0] = Begun(av)
               /\ \A i \in 0 .. k - 1 : \E c : v[i + 1] = HeadOf!Turn(v[i], c)
               /\ HeadOf!Main(av) = v[k]
  <2>1. k \in Nat
    OBVIOUS
  <2> QED
    BY <1>1, <2>1, MainByTurns, Zenon
<1>3. v[0] = State(av, 1, 0, FALSE)
  BY <1>2, BegunState
<1>4. PICK optind \in Nat : optind >= 1 /\ v[1] = State(TheFile, optind, n, FALSE)
  <2>1. 0 \in 0 .. k - 1 /\ 0 + 1 = 1
    BY <1>1
  <2>2. PICK c : v[1] = HeadOf!Turn(v[0], c)
    BY <1>2, <2>1
  <2>3. \E optind \in Nat : /\ optind >= 1
                            /\ HeadOf!Turn(State(av, 1, 0, FALSE), c) =
                                 State(TheFile, optind, n, FALSE)
    BY TurnAtCount
  <2> QED
    BY <1>3, <2>2, <2>3
<1>5. \A i \in 1 .. k - 1, over \in BOOLEAN :
        v[i] = State(TheFile, optind, n, over) => v[i + 1] = State(TheFile, optind, n, TRUE)
  <2> TAKE i \in 1 .. k - 1, over \in BOOLEAN
  <2>1. i \in 0 .. k - 1
    BY <1>1
  <2>2. PICK c : v[i + 1] = HeadOf!Turn(v[i], c)
    BY <1>2, <2>1
  <2> QED
    BY <1>4, <2>2, TurnAtEnd
<1>6. v[2] = State(TheFile, optind, n, TRUE)
  <2>1. 1 \in 1 .. k - 1 /\ 1 + 1 = 2
    BY <1>1
  <2> QED
    BY <1>4, <1>5, <2>1
<1>7. v[3] = State(TheFile, optind, n, TRUE)
  <2>1. 2 \in 1 .. k - 1 /\ 2 + 1 = 3
    BY <1>1
  <2> QED
    BY <1>5, <1>6, <2>1
<1>8. k = 4 => v[4] = State(TheFile, optind, n, TRUE)
  <2>1. k = 4 => 3 \in 1 .. k - 1 /\ 3 + 1 = 4
    OBVIOUS
  <2> QED
    BY <1>5, <1>7, <2>1
<1>9. HeadOf!Main(av) = State(TheFile, optind, n, TRUE)
  BY <1>1, <1>2, <1>7, <1>8
<1> QED
  BY <1>9

(* head -n N, however it is written, shows of a file its first N lines, or *)
(* all of it when it has fewer, whatever the number and the file           *)
(* (head.c:36 to 71, 121 to 128).                                          *)
THEOREM HeadShowsFirstLines ==
  ASSUME input.data \in Seq(STRING), input.n \in Nat
  PROVE  FirstLines
<1>1. PICK data \in Seq(STRING), n \in Nat : data = input.data /\ n = input.n
  OBVIOUS
<1> DEFINE All(words) == << <<"head">> >> \o words \o << <<"file">> >>
           Counted(words) ==
             LET r == HeadOf!Main(All(words))
                 shown == HeadOf!HeadOf(data, r.linecnt, r.bytecnt)
             IN  ~r.exits /\ r.argv = TheFile /\ IsHead(shown, data, n)
<1>2. ASSUME n > 0, NEW words \in {<< <<"n", n>> >>, << <<"n">>, <<"number", n>> >>}
      PROVE  Counted(words)
  <2>1. All(words) \in Avs(n)
    <3>1. PICK head, count, n1, number, file :
            /\ head = <<"head">> /\ count = <<"n", n>> /\ n1 = <<"n">>
            /\ number = <<"number", n>> /\ file = <<"file">>
      OBVIOUS
    <3>2. CASE words = <<count>>
      <4>1. All(words) = <<head, count, file>>
        BY <3>1, <3>2, AvOf, Zenon
      <4> QED
        BY <3>1, <4>1, Zenon DEF Avs
    <3>3. CASE words = <<n1, number>>
      <4>1. All(words) = <<head, n1, number, file>>
        <5>1. <<head>> \o <<n1, number>> \o <<file>> = <<head, n1, number, file>>
          BY AvOf, Zenon
        <5> QED
          BY <3>1, <3>3, <5>1, Zenon
      <4> QED
        BY <3>1, <4>1, Zenon DEF Avs
    <3> QED
      BY <1>2, <3>1, <3>2, <3>3, Zenon
  <2>2. PICK av \in Avs(n) : av = All(words)
    BY <2>1
  <2>3. PICK optind : HeadOf!Main(av) = State(TheFile, optind, n, TRUE)
    BY <1>2, CountIsTaken
  <2>4. PICK r : r = HeadOf!Main(av)
    OBVIOUS
  <2>5. ~r.exits /\ r.argv = TheFile /\ r.linecnt = n /\ r.bytecnt = 0
    BY <2>3, <2>4 DEF State
  <2>6. IsHead(HeadOf!HeadOf(data, r.linecnt, r.bytecnt), data, n)
    BY <1>2, <2>5, HeadShows
  <2> HIDE DEF All
  <2> QED
    BY <2>2, <2>4, <2>5, <2>6
<1> HIDE DEF Counted
<1>3. \A S : HeadOf!Cardinality(S) = Cardinality(S)
  BY SameCardinality
<1>4. HeadOf!FirstLines(n, data)
  BY <1>2, <1>3 DEF HeadOf!FirstLines, Counted, IsHead, TheFile, HeadOf!IsPrefix, IsPrefix,
                    HeadOf!Last, Last
<1> QED
  BY <1>1, <1>4 DEF FirstLines

-----------------------------------------------------------------------------
(* cat -s -n: the loop of cook_buf(), character by character. *)
Spans(data, n) == DOMAIN data = 1 .. n
Fresh == [gobble |-> FALSE, line |-> 0, prev |-> "nl", out |-> <<>>]

Cooks(it, f, data, n) ==
  it = [s \in SUBSET (1 .. n) |->
          IF s = {} THEN Fresh
          ELSE Cook!Turn(f, it[s \ {Cook!Max(s)}], data[Cook!Max(s)])]

LEMMA CookIsALoop ==
  ASSUME NEW f, NEW data, NEW n \in Nat, Spans(data, n)
  PROVE  \E it : /\ it = CHOOSE h : Cooks(h, f, data, n)
                 /\ Cook!CookBuf(f, data) = it[1 .. n].out
BY DEF Cook!CookBuf, Cook!FoldLeft, Cook!MapThenFoldSet, Cooks, Fresh, Spans

LEMMA CookExists ==
  ASSUME NEW f, NEW data, NEW n \in Nat
  PROVE  \E it : Cooks(it, f, data, n)
<1> DEFINE Next1(x, c) == Cook!Turn(f, x, c)
           T == {k \in Nat : \E it : Cooks(it, f, data, k)}
<1>1. 0 \in T
  <2> DEFINE it == [s \in SUBSET (1 .. 0) |-> Fresh]
  <2>1. Cooks(it, f, data, 0)
    BY DEF Cooks
  <2> QED
    BY <2>1
<1>2. ASSUME NEW k \in Nat, k \in T PROVE k + 1 \in T
  <2>1. PICK g : Cooks(g, f, data, k)
    BY <1>2
  <2>2. \A s \in SUBSET (1 .. k) :
          g[s] = IF s = {} THEN Fresh
                 ELSE Next1(g[s \ {Cook!Max(s)}], data[Cook!Max(s)])
    BY <2>1 DEF Cooks
  <2> HIDE DEF Next1
  <2> DEFINE it == [s \in SUBSET (1 .. k + 1) |->
                      IF k + 1 \in s THEN Next1(g[s \ {k + 1}], data[k + 1]) ELSE g[s]]
  <2>3. ASSUME NEW s \in SUBSET (1 .. k + 1)
        PROVE  it[s] = IF s = {} THEN Fresh
                       ELSE Next1(it[s \ {Cook!Max(s)}], data[Cook!Max(s)])
    <3>1. CASE k + 1 \in s
      <4>1. Cook!Max(s) = k + 1
        <5>1. \A y \in s : k + 1 >= y
          OBVIOUS
        <5>2. \A x \in s : (\A y \in s : x >= y) => x = k + 1
          BY <3>1
        <5> QED
          BY <3>1, <5>1, <5>2 DEF Cook!Max
      <4>2. s \ {k + 1} \in SUBSET (1 .. k) /\ s \ {k + 1} \in SUBSET (1 .. k + 1)
            /\ k + 1 \notin s \ {k + 1}
        OBVIOUS
      <4>3. it[s \ {k + 1}] = g[s \ {k + 1}]
        BY <4>2
      <4>4. it[s] = Next1(g[s \ {k + 1}], data[k + 1])
        BY <3>1
      <4> HIDE DEF it
      <4> QED
        BY <3>1, <4>1, <4>3, <4>4
    <3>2. CASE k + 1 \notin s
      <4>1. s \in SUBSET (1 .. k)
        BY <3>2
      <4>2. PICK m : m = Cook!Max(s)
        OBVIOUS
      <4>3. s \ {m} \in SUBSET (1 .. k + 1) /\ k + 1 \notin s \ {m}
        BY <3>2
      <4>4. it[s] = g[s] /\ it[s \ {m}] = g[s \ {m}]
        BY <3>2, <4>3
      <4> HIDE DEF it
      <4> QED
        BY <2>2, <4>1, <4>2, <4>4
    <3> QED
      BY <3>1, <3>2
  <2>4. it = [s \in SUBSET (1 .. k + 1) |-> it[s]]
    OBVIOUS
  <2> HIDE DEF it
  <2>5. Cooks(it, f, data, k + 1)
    BY <2>3, <2>4 DEF Cooks, Next1
  <2> QED
    BY <2>5
<1>3. n \in T
  BY <1>1, <1>2, NatInd
<1> QED
  BY <1>3

CookedBy(v, f, data, n) ==
  /\ v[0] = Fresh
  /\ \A i \in 0 .. n - 1 : v[i + 1] = Cook!Turn(f, v[i], data[i + 1])
  /\ Cook!CookBuf(f, data) = v[n].out

LEMMA CookByTurns ==
  ASSUME NEW f, NEW data, NEW n \in Nat, Spans(data, n)
  PROVE  \E v : CookedBy(v, f, data, n)
<1>1. PICK it : /\ it = CHOOSE h : Cooks(h, f, data, n)
                /\ Cook!CookBuf(f, data) = it[1 .. n].out
  BY CookIsALoop
<1>2. Cooks(it, f, data, n)
  BY <1>1, CookExists
<1>3. \A s \in SUBSET (1 .. n) :
        it[s] = IF s = {} THEN Fresh
                ELSE Cook!Turn(f, it[s \ {Cook!Max(s)}], data[Cook!Max(s)])
  BY <1>2 DEF Cooks
<1>4. it[{}] = Fresh
  BY <1>3
<1>5. ASSUME NEW i \in 0 .. n - 1
      PROVE  it[1 .. i + 1] = Cook!Turn(f, it[1 .. i], data[i + 1])
  <2>1. PICK s : s = 1 .. i + 1
    OBVIOUS
  <2>2. /\ s \in SUBSET (1 .. n) /\ s # {} /\ s \ {i + 1} = 1 .. i
        /\ i + 1 \in s /\ \A x \in s : (\A y \in s : x >= y) <=> x = i + 1
    <3>1. FirstPlaces(s, n, i)
      BY <2>1, AreFirstPlaces
    <3> QED
      BY <3>1 DEF FirstPlaces
  <2>3. Cook!Max(s) = i + 1
    BY <2>2 DEF Cook!Max
  <2>4. it[s] = Cook!Turn(f, it[s \ {i + 1}], data[i + 1])
    BY <1>3, <2>2, <2>3
  <2> QED
    BY <2>1, <2>2, <2>4
<1> DEFINE v == [i \in 0 .. n |-> it[1 .. i]]
<1>6. \A i \in 0 .. n : v[i] = it[1 .. i]
  OBVIOUS
<1>7. v[0] = Fresh /\ v[n] = it[1 .. n]
  <2>1. 1 .. 0 = {} /\ 0 \in 0 .. n /\ n \in 0 .. n
    OBVIOUS
  <2> HIDE DEF v
  <2> QED
    BY <1>4, <1>6, <2>1
<1>8. ASSUME NEW i \in 0 .. n - 1
      PROVE  v[i + 1] = Cook!Turn(f, v[i], data[i + 1])
  <2>1. i \in 0 .. n /\ i + 1 \in 0 .. n
    OBVIOUS
  <2>2. v[i] = it[1 .. i] /\ v[i + 1] = it[1 .. i + 1]
    BY <1>6, <2>1
  <2> HIDE DEF v
  <2> QED
    BY <1>5, <2>2
<1> HIDE DEF v
<1> QED
  BY <1>1, <1>7, <1>8 DEF CookedBy

(* How many lines up to a place have a number. *)
Numbered(f, data) == {i \in Cook!Kept(data) : ~f.b \/ data[i] # "nl"}
NumbersTo(f, data, i) == Cardinality({j \in Numbered(f, data) : j <= i})

LEMMA CountUpTo ==
  ASSUME NEW m \in Nat, NEW S, S \subseteq 1 .. m
  PROVE  /\ Cardinality({j \in S : j <= 0}) = 0
         /\ \A k \in 0 .. m : Cardinality({j \in S : j <= k + 1}) =
              IF k + 1 \in S THEN Cardinality({j \in S : j <= k}) + 1
              ELSE Cardinality({j \in S : j <= k})
<1> DEFINE F(k) == {j \in 1 .. m : j \in S /\ j <= k}
           E(k) == {j \in S : j <= k}
<1>0. \A k : E(k) = F(k)
  OBVIOUS
<1>1. E(0) = {}
  <2>1. F(0) = {}
    OBVIOUS
  <2> QED
    BY <1>0, <2>1
<1>2. ASSUME NEW k \in 0 .. m
      PROVE  Cardinality(F(k + 1)) = IF k + 1 \in S THEN Cardinality(F(k)) + 1
                                     ELSE Cardinality(F(k))
  <2>1. IsFiniteSet(F(k))
    <3>1. F(k) \subseteq 1 .. m /\ IsFiniteSet(1 .. m)
      BY FS_Interval
    <3> QED
      BY <3>1, FS_Subset
  <2>2. k + 1 \notin F(k)
    OBVIOUS
  <2>3. CASE k + 1 \in S
    <3>1. F(k + 1) = F(k) \cup {k + 1}
      BY <2>3
    <3> QED
      BY <2>1, <2>2, <2>3, <3>1, FS_AddElement
  <2>4. CASE k + 1 \notin S
    <3>1. F(k + 1) = F(k)
      BY <2>4
    <3> QED
      BY <2>4, <3>1
  <2> QED
    BY <2>3, <2>4
<1> HIDE DEF F
<1> QED
  BY <1>0, <1>1, <1>2, FS_EmptySet

LEMMA NumbersCount ==
  ASSUME NEW f, NEW data, NEW n \in Nat, DOMAIN data = 1 .. n, NEW i \in 0 .. n
  PROVE  /\ NumbersTo(f, data, 0) = 0
         /\ i < n => NumbersTo(f, data, i + 1) =
                       IF i + 1 \in Numbered(f, data) THEN NumbersTo(f, data, i) + 1
                       ELSE NumbersTo(f, data, i)
<1>1. PICK all \in SUBSET (1 .. n) : all = Numbered(f, data)
  BY DEF Numbered, Cook!Kept, Cook!Starts
<1>2. \A k : NumbersTo(f, data, k) = Cardinality({j \in all : j <= k})
  BY <1>1 DEF NumbersTo
<1>4. /\ Cardinality({j \in all : j <= 0}) = 0
      /\ Cardinality({j \in all : j <= i + 1}) =
           IF i + 1 \in all THEN Cardinality({j \in all : j <= i}) + 1
           ELSE Cardinality({j \in all : j <= i})
  BY <1>1, CountUpTo
<1> QED
  BY <1>1, <1>2, <1>4

(* The line behind the first i characters is a new one, and it stands      *)
(* behind an empty one.                                                    *)
NewLine(data, i) == i = 0 \/ data[i] = "nl"
BehindEmpty(data, i) == i > 0 /\ data[i] = "nl" /\ NewLine(data, i - 1)

LEMMA KeptIs ==
  ASSUME NEW data, NEW n \in Nat, DOMAIN data = 1 .. n, NEW i \in 0 .. n - 1
  PROVE  i + 1 \in Cook!Kept(data) <=>
           NewLine(data, i) /\ ~(data[i + 1] = "nl" /\ BehindEmpty(data, i))
<1>1. \A j \in 1 .. n : j \in Cook!Starts(data) <=> NewLine(data, j - 1)
  <2> TAKE j \in 1 .. n
  <2>1. j = 1 <=> j - 1 = 0
    OBVIOUS
  <2> QED
    BY <2>1 DEF Cook!Starts, NewLine
<1>2. i + 1 \in 1 .. n /\ (i + 1) - 1 = i /\ (i + 1 > 1 <=> i > 0)
  OBVIOUS
<1>3. i + 1 \in Cook!Starts(data) <=> NewLine(data, i)
  BY <1>1, <1>2
<1>4. i > 0 => (i \in Cook!Starts(data) <=> NewLine(data, i - 1))
  BY <1>1
<1>5. i + 1 \in Cook!Kept(data) <=>
        i + 1 \in Cook!Starts(data) /\ ~(data[i + 1] = "nl" /\ i > 0 /\ i \in Cook!Starts(data)
                                         /\ data[i] = "nl")
  BY <1>2 DEF Cook!Kept
<1> QED
  BY <1>3, <1>4, <1>5 DEF BehindEmpty

(* What NumbersLines compares the output with, one character after the     *)
(* other.                                                                  *)
Number(f, data, i) ==
  Cook!NumberOf(f, data[i], Cook!Cardinality({j \in Numbered(f, data) : j < i}))
Shows(g, f, data) ==
  g = [i \in 0 .. Len(data) |->
         CASE i = 0 -> <<>>
           [] i \in Cook!Kept(data) ->
                g[i - 1] \o Number(f, data, i) \o Cook!Cooked(f, data[i]).put
           [] i \in DOMAIN data \ Cook!Kept(data) -> g[i - 1]]

LEMMA NumbersLinesIs ==
  ASSUME NEW f, NEW data, f.s, f.n, "metanl" \notin Cook!ToSet(data)
  PROVE  Cook!NumbersLines(f, data) <=>
           Cook!CookBuf(f, data) = (CHOOSE g : Shows(g, f, data))[Len(data)]
BY DEF Cook!NumbersLines, Shows, Number, Numbered

Mid(gobble, line, prev, out) == [gobble |-> gobble, line |-> line, prev |-> prev, out |-> out]

(* What the loop knows after i characters. *)
Knows(s, f, data, i) ==
  \E gobble \in BOOLEAN : \E prev, out :
    /\ s = Mid(gobble, NumbersTo(f, data, i), prev, out)
    /\ prev = "nl" <=> NewLine(data, i)
    /\ gobble <=> BehindEmpty(data, i)

Flagged(f) == f \in Flags({"b", "e", "n", "s", "t", "v"}) /\ f.s /\ f.n

LEMMA KnowsNext ==
  ASSUME NEW f, Flagged(f), NEW data, NEW n \in Nat, DOMAIN data = 1 .. n,
         NEW i \in 0 .. n - 1, data[i + 1] # "metanl",
         NEW s, Knows(s, f, data, i), NEW t, t = Cook!Turn(f, s, data[i + 1])
  PROVE  /\ Knows(t, f, data, i + 1)
         /\ t.out = IF i + 1 \in Cook!Kept(data)
                    THEN s.out \o Cook!NumberOf(f, data[i + 1], NumbersTo(f, data, i))
                           \o Cook!Cooked(f, data[i + 1]).put
                    ELSE s.out
<1>1. PICK gobble, prev, out :
        /\ gobble \in BOOLEAN
        /\ s = Mid(gobble, NumbersTo(f, data, i), prev, out)
        /\ prev = "nl" <=> NewLine(data, i)
        /\ gobble <=> BehindEmpty(data, i)
  BY DEF Knows
<1>2. PICK line, ch : line = NumbersTo(f, data, i) /\ ch = data[i + 1]
  OBVIOUS
<1>3. f.s = TRUE /\ f.n = TRUE /\ f.b \in BOOLEAN /\ f.v \in BOOLEAN
  BY DEF Flagged, Flags
<1>4. s.gobble = gobble /\ s.line = line /\ s.prev = prev /\ s.out = out
  BY <1>1, <1>2 DEF Mid
<1>5. NewLine(data, i + 1) <=> ch = "nl"
  BY <1>2 DEF NewLine
<1>6. BehindEmpty(data, i + 1) <=> ch = "nl" /\ NewLine(data, i)
  BY <1>2 DEF BehindEmpty
<1>7. i + 1 \in Cook!Kept(data) <=> NewLine(data, i) /\ ~(ch = "nl" /\ gobble)
  BY <1>1, <1>2, KeptIs
<1>8. NumbersTo(f, data, i + 1) =
        IF i + 1 \in Cook!Kept(data) /\ (~f.b \/ ch # "nl") THEN line + 1 ELSE line
  <2>1. i + 1 \in Numbered(f, data) <=> i + 1 \in Cook!Kept(data) /\ (~f.b \/ ch # "nl")
    BY <1>2 DEF Numbered
  <2>2. i \in 0 .. n /\ i < n
    OBVIOUS
  <2> QED
    BY <1>2, <2>1, <2>2, NumbersCount
<1>9. CASE prev # "nl"
  <2>1. t = [s EXCEPT !.prev = ch]
    BY <1>2, <1>4, <1>9 DEF Cook!Turn
  <2>2. t = Mid(gobble, line, ch, out)
    BY <1>1, <1>2, <2>1 DEF Mid
  <2>3. ~gobble /\ ~NewLine(data, i)
    BY <1>1, <1>9 DEF BehindEmpty, NewLine
  <2>4. NumbersTo(f, data, i + 1) = line /\ t.out = out
    BY <1>7, <1>8, <2>2, <2>3 DEF Mid
  <2>5. Knows(t, f, data, i + 1)
    <3>1. gobble \in BOOLEAN /\ (gobble <=> BehindEmpty(data, i + 1))
      BY <1>1, <1>6, <2>3
    <3>2. t = Mid(gobble, NumbersTo(f, data, i + 1), ch, out)
      BY <2>2, <2>4
    <3> QED
      BY <1>5, <3>1, <3>2 DEF Knows
  <2> QED
    BY <1>4, <1>7, <2>3, <2>4, <2>5
<1>10. CASE prev = "nl" /\ ch = "nl" /\ gobble
  <2>1. t = s
    BY <1>2, <1>3, <1>4, <1>10 DEF Cook!Turn
  <2>2. NumbersTo(f, data, i + 1) = line
    BY <1>7, <1>8, <1>10
  <2>3. Knows(t, f, data, i + 1)
    BY <1>1, <1>2, <1>5, <1>6, <1>10, <2>1, <2>2 DEF Knows
  <2> QED
    BY <1>7, <1>10, <2>1, <2>3
<1>11. CASE prev = "nl" /\ ~(ch = "nl" /\ gobble)
  <2>1. PICK number, c : number = Cook!NumberOf(f, ch, line) /\ c = Cook!Cooked(f, ch)
    OBVIOUS
  <2>2. PICK line2 : line2 = IF ~f.b \/ ch # "nl" THEN line + 1 ELSE line
    OBVIOUS
  <2>3. t = [gobble |-> ch = "nl", prev |-> c.prev, line |-> line2, out |-> out \o number \o c.put]
    BY <1>2, <1>3, <1>4, <1>11, <2>1, <2>2 DEF Cook!Turn
  <2>4. c.prev = "nl" <=> ch = "nl"
    BY <1>2, <2>1 DEF Cook!Cooked, Cook!ToAscii
  <2>5. PICK end \in BOOLEAN : end = (ch = "nl")
    OBVIOUS
  <2>6. t = Mid(end, line2, c.prev, out \o number \o c.put)
    BY <2>3, <2>5 DEF Mid
  <2>7. i + 1 \in Cook!Kept(data) /\ NumbersTo(f, data, i + 1) = line2 /\ NewLine(data, i)
    BY <1>1, <1>7, <1>8, <1>11, <2>2
  <2>8. Knows(t, f, data, i + 1)
    BY <1>5, <1>6, <2>4, <2>5, <2>6, <2>7 DEF Knows
  <2>9. t.out = out \o number \o c.put
    <3>1. PICK whole : whole = out \o number \o c.put
      OBVIOUS
    <3>2. t = Mid(end, line2, c.prev, whole)
      BY <2>6, <3>1
    <3>3. t.out = whole
      BY <3>2 DEF Mid
    <3> QED
      BY <3>1, <3>3
  <2> QED
    BY <1>2, <1>4, <2>1, <2>7, <2>8, <2>9
<1> QED
  BY <1>9, <1>10, <1>11

(* With -s and -n, and whatever else is given, cat numbers the lines it    *)
(* keeps, one of each run of empty ones, whatever the input is (cat.c:133  *)
(* to 157).                                                                *)
THEOREM CatNumbersLines ==
  ASSUME input.data \in Seq(STRING), input.f \in Flags({"b", "e", "n", "s", "t", "v"})
  PROVE  NumbersLines
<1>1. PICK f, data, n : /\ f = input.f /\ data = input.data
                        /\ n \in Nat /\ n = Len(data) /\ DOMAIN data = 1 .. n
  OBVIOUS
<1>2. SUFFICES ASSUME f.s, f.n, "metanl" \notin Cook!ToSet(data)
               PROVE  Cook!NumbersLines(f, data)
  BY <1>1 DEF NumbersLines, Cook!NumbersLines
<1>3. Flagged(f)
  BY <1>1, <1>2 DEF Flagged
<1>4. \A i \in 1 .. n : data[i] # "metanl"
  BY <1>1, <1>2 DEF Cook!ToSet
<1>5. PICK v : CookedBy(v, f, data, n)
  <2>1. Spans(data, n)
    BY <1>1 DEF Spans
  <2> QED
    BY <1>1, <2>1, CookByTurns
<1> DEFINE put(i) == Cook!Cooked(f, data[i]).put
           number(i) == Cook!NumberOf(f, data[i], NumbersTo(f, data, i - 1))
           other(i) == Number(f, data, i)
           T == {i \in Nat : i <= n => Knows(v[i], f, data, i)}
<1>6. 0 \in T
  <2>1. Fresh = Mid(FALSE, 0, "nl", <<>>)
    BY DEF Fresh, Mid
  <2>2. NumbersTo(f, data, 0) = 0
    <3>1. 0 \in 0 .. n
      BY <1>1
    <3> QED
      BY <1>1, <3>1, NumbersCount
  <2>3. NewLine(data, 0) /\ ~BehindEmpty(data, 0)
    BY DEF NewLine, BehindEmpty
  <2> QED
    BY <1>5, <2>1, <2>2, <2>3 DEF Knows, CookedBy
<1>7. ASSUME NEW i \in Nat, i < n, Knows(v[i], f, data, i)
      PROVE  /\ Knows(v[i + 1], f, data, i + 1)
             /\ v[i + 1].out = IF i + 1 \in Cook!Kept(data)
                               THEN v[i].out \o number(i + 1) \o put(i + 1)
                               ELSE v[i].out
  <2>1. i \in 0 .. n - 1 /\ i + 1 \in 1 .. n /\ (i + 1) - 1 = i
    BY <1>1, <1>7
  <2>2. PICK s, t : s = v[i] /\ t = v[i + 1] /\ t = Cook!Turn(f, s, data[i + 1])
    BY <1>5, <2>1 DEF CookedBy
  <2>3. /\ Knows(t, f, data, i + 1)
        /\ t.out = IF i + 1 \in Cook!Kept(data)
                   THEN s.out \o Cook!NumberOf(f, data[i + 1], NumbersTo(f, data, i))
                          \o Cook!Cooked(f, data[i + 1]).put
                   ELSE s.out
    BY <1>1, <1>3, <1>4, <1>7, <2>1, <2>2, KnowsNext
  <2> QED
    BY <2>1, <2>2, <2>3
<1>8. \A i \in Nat : i <= n => Knows(v[i], f, data, i)
  <2>1. \A i \in Nat : i \in T => i + 1 \in T
    BY <1>1, <1>7
  <2> HIDE DEF T
  <2>2. Nat \subseteq T
    BY <1>6, <2>1, NatInd
  <2> QED
    BY <2>2 DEF T
<1> HIDE DEF put, number, other
<1> DEFINE Kept == Cook!Kept(data)
           Shown(h) == Shows(h, f, data)
           w == [i \in 0 .. n |-> v[i].out]
<1>9. Kept \subseteq 1 .. n
  BY <1>1 DEF Cook!Kept, Cook!Starts
<1>19. \A i \in 1 .. n : other(i) = number(i)
  <2> TAKE i \in 1 .. n
  <2>1. {j \in Numbered(f, data) : j < i} = {j \in Numbered(f, data) : j <= i - 1}
    <3>1. Numbered(f, data) \subseteq 1 .. n
      BY <1>9 DEF Numbered, Kept
    <3> QED
      BY <1>1, <3>1
  <2>2. Cook!Cardinality({j \in Numbered(f, data) : j < i}) = NumbersTo(f, data, i - 1)
    <3>1. \A S : Cook!Cardinality(S) = Cardinality(S)
      BY DEF Cook!Cardinality, Cardinality
    <3> QED
      BY <2>1, <3>1 DEF NumbersTo
  <2> QED
    BY <2>2 DEF number, other, Number
<1>0. \A h : Shown(h) <=> h = [i \in 0 .. n |->
               CASE i = 0 -> <<>>
                 [] i \in Kept -> h[i - 1] \o other(i) \o put(i)
                 [] i \in DOMAIN data \ Kept -> h[i - 1]]
  BY <1>1 DEF Shows, put, other, Kept
<1> HIDE DEF Kept, Shown
<1>10. \A i \in 0 .. n : w[i] = v[i].out
  OBVIOUS
<1>11. w = [i \in 0 .. n |-> w[i]]
  OBVIOUS
<1>12. w[0] = <<>>
  BY <1>1, <1>5, <1>10 DEF Fresh, CookedBy
<1> HIDE DEF w
<1>13. ASSUME NEW i \in 1 .. n
       PROVE  w[i] = IF i \in Kept THEN w[i - 1] \o other(i) \o put(i) ELSE w[i - 1]
  <2>1. PICK k \in Nat : k = i - 1 /\ k < n /\ k + 1 = i /\ k \in 0 .. n /\ i \in 0 .. n
    BY <1>1
  <2>2. v[i].out = IF i \in Kept THEN v[k].out \o number(i) \o put(i) ELSE v[k].out
    BY <1>7, <1>8, <2>1 DEF Kept
  <2> QED
    BY <1>10, <1>19, <2>1, <2>2
<1>14. Shown(w)
  <2>1. ASSUME NEW i \in 0 .. n
        PROVE  w[i] = CASE i = 0 -> <<>>
                        [] i \in Kept -> w[i - 1] \o other(i) \o put(i)
                        [] i \in DOMAIN data \ Kept -> w[i - 1]
    <3>1. CASE i = 0
      <4>1. i \notin Kept /\ i \notin DOMAIN data
        BY <1>1, <1>9, <3>1
      <4> QED
        BY <1>12, <3>1, <4>1
    <3>2. CASE i # 0
      <4>1. i \in 1 .. n
        BY <3>2
      <4>2. i \in Kept \/ i \in DOMAIN data \ Kept
        BY <1>1, <4>1
      <4> QED
        BY <1>13, <3>2, <4>1, <4>2
    <3> QED
      BY <3>1, <3>2
  <2> QED
    BY <1>0, <1>11, <2>1
<1>15. PICK h : h = CHOOSE g : Shown(g)
  OBVIOUS
<1>16. Shown(h)
  BY <1>14, <1>15
<1>17. \A i \in 0 .. n : h[i] = w[i]
  <2> DEFINE U == {i \in 0 .. n : h[i] = w[i]}
  <2>1. 0 \in U
    <3>1. h[0] = <<>>
      <4>1. 0 \notin Kept /\ 0 \notin DOMAIN data /\ 0 \in 0 .. n
        BY <1>1, <1>9
      <4> QED
        BY <1>0, <1>16, <4>1
    <3> QED
      BY <1>1, <1>12, <3>1
  <2>2. ASSUME NEW i \in 0 .. n, i \in U, i < n PROVE i + 1 \in U
    <3>1. i + 1 \in 1 .. n /\ (i + 1) - 1 = i /\ i + 1 \in 0 .. n /\ i + 1 # 0
      BY <1>1, <2>2
    <3>2. h[i + 1] = IF i + 1 \in Kept THEN h[i] \o other(i + 1) \o put(i + 1) ELSE h[i]
      <4>1. i + 1 \in Kept \/ i + 1 \in DOMAIN data \ Kept
        BY <1>1, <3>1
      <4> QED
        BY <1>0, <1>16, <3>1, <4>1
    <3>3. w[i + 1] = IF i + 1 \in Kept THEN w[i] \o other(i + 1) \o put(i + 1) ELSE w[i]
      BY <1>13, <3>1
    <3> QED
      BY <2>2, <3>1, <3>2, <3>3
  <2> HIDE DEF U
  <2>3. 0 .. n \subseteq U
    BY <1>1, <2>1, <2>2, RangeInd
  <2> QED
    BY <2>3 DEF U
<1>18. Cook!CookBuf(f, data) = h[n]
  <2>1. n \in 0 .. n
    BY <1>1
  <2> QED
    BY <1>5, <1>10, <1>17, <2>1 DEF CookedBy
<1> QED
  BY <1>1, <1>2, <1>15, <1>18, NumbersLinesIs DEF Shown
=============================================================================
