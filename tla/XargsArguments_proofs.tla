------------------------ MODULE XargsArguments_proofs ------------------------
(***************************************************************************)
(* The proofs about the reader, for every input, every setting and every   *)
(* bound: its type invariant with the bounds of its buffer and of its      *)
(* argument vector (IInv); that every word is delivered (WordsInv); that   *)
(* the commands are as full as the limits allow (FullInv); and that with   *)
(* -L and -I they are the groups of lines (LinesInv).                      *)
(***************************************************************************)
EXTENDS XargsArguments, SequenceFacts, FiniteSetTheorems

(***************************************************************************)
(* The lemmas about the operators that the reader is built from.           *)
(***************************************************************************)

(* Every character constant is a character, and none is the null pointer. *)
LEMMA CharFacts ==
  /\ {NUL, SP, NL, SQ, DQ, BS} \subseteq Char
  /\ Plain \subseteq Char
BY DEF Char, Special

(* What a C function sees of a string is a prefix of it. *)
LEMMA CStringType ==
  ASSUME NEW s \in Seq(Char)
  PROVE  CString(s) \in Seq(Char)
<1> DEFINE K == {i \in DOMAIN s : \A j \in 1 .. i : s[j] # NUL}
<1>1. Len(s) \in Nat /\ DOMAIN s = 1 .. Len(s)
  BY LenProperties
<1>2. IsFiniteSet(1 .. Len(s)) /\ Cardinality(1 .. Len(s)) = Len(s)
  BY <1>1, FS_Interval
<1>3. K \in SUBSET (1 .. Len(s))
  BY <1>1
<1>4. IsFiniteSet(K) /\ Cardinality(K) <= Len(s)
  BY <1>2, <1>3, FS_Subset
<1>5. Cardinality(K) \in Nat
  BY <1>4, FS_CardinalityType
<1> DEFINE c == Cardinality(K)
<1> HIDE DEF K
<1>6. \A i \in 1 .. c : s[i] \in Char
  BY <1>1, <1>4, <1>5, ElementOfSeq
<1>7. SubSeq(s, 1, c) \in Seq(Char)
  BY <1>5, <1>6, SubSeqProperties
<1> QED
  BY <1>7 DEF CString, K

(* Joining an argument to the line gives a line. *)
LEMMA JoinLineType ==
  ASSUME NEW line \in Seq(Char) \cup {NULL}, NEW arg \in Seq(Char)
  PROVE  JoinLine(line, arg) \in Seq(Char)
<1>1. <<SP>> \in Seq(Char)
  BY CharFacts
<1>2. CASE line \in {NULL, <<>>}
  BY <1>2 DEF JoinLine
<1>3. CASE line \notin {NULL, <<>>}
  <2>1. line \in Seq(Char) /\ line \o <<SP>> \in Seq(Char)
    BY <1>1, <1>3, ConcatProperties
  <2> QED
    BY <1>3, <2>1, ConcatProperties DEF JoinLine
<1> QED
  BY <1>2, <1>3

CommandType == [args : Seq(Seq(Char)), line : Seq(Char) \cup {NULL}]

(* A command is made of C strings. *)
LEMMA CommandIsTyped ==
  ASSUME NEW b \in Seq(Char), NEW starts \in Seq(Nat),
         NEW line \in Seq(Char) \cup {NULL}
  PROVE  Command(b, starts, line) \in CommandType
<1> DEFINE n == Len(starts)
           f == [i \in DOMAIN starts |-> CString(SubSeq(b, starts[i] + 1, Len(b)))]
<1>1. n \in Nat /\ DOMAIN starts = 1 .. n
  BY LenProperties
<1>2. \A i \in 1 .. n : CString(SubSeq(b, starts[i] + 1, Len(b))) \in Seq(Char)
  BY <1>1, ElementOfSeq, SuffixType, CStringType
<1>3. f \in [1 .. n -> Seq(Char)]
  BY <1>1, <1>2
<1>4. f \in Seq(Seq(Char))
  BY <1>1, <1>3
<1>5. <<>> \in Seq(Seq(Char))
  BY EmptySeq
<1> QED
  BY <1>4, <1>5 DEF Command, CommandType

-----------------------------------------------------------------------------
(***************************************************************************)
(* The inductive invariant.  BufferInBounds alone is not inductive: that   *)
(* the overflow path stores a character unchecked is safe because a        *)
(* complete argument precedes argp (argp > 0), and that an argument can be *)
(* ended because p has not passed ebp while characters are read.           *)
(***************************************************************************)
StoreInv ==
  /\ argp <= Len(buf) /\ Len(buf) <= opt.nline /\ Len(xp) <= opt.nargs
  /\ pc = "parse" =>
       /\ Len(buf) <= ebp /\ Len(xp) < opt.nargs
       /\ xp # <<>> => argp > 0
  /\ pc = "run" =>
       /\ resume.kind # "none"
       /\ resume.kind = "overflow" => Len(buf) = ebp /\ argp > 0

IInv == TypeOK /\ StoreInv

(* What the settings are, one by one. *)
LEMMA SettingFacts ==
  ASSUME TypeOK
  PROVE  /\ opt \in SettingType
         /\ opt.nargs \in Nat \ {0} /\ opt.nline \in Nat \ {0}
         /\ opt.argc \in Nat /\ opt.jrest \in Nat /\ opt.Lflag \in Int
         /\ ebp \in Nat /\ ebp = opt.nline - 1
         /\ opt.jfound => opt.jrest < opt.argc
<1>1. opt \in Settings /\ opt \in SettingType
  BY SettingsAssumption DEF TypeOK
<1> QED
  BY <1>1, SettingsAssumption DEF SettingType, ebp

(* The first state. *)
LEMMA InitInv == Init => IInv
<1> SUFFICES ASSUME Init PROVE IInv
  OBVIOUS
<1>1. opt \in SettingType
  BY SettingsAssumption DEF Init
<1>3. Len(buf) = 0 /\ Len(xp) = 0 /\ Len(read) = 0
  BY DEF Init
<1>4. resume \in ResumeType
  BY DEF Init, ResumeType
<1>5. /\ read \in Seq(Char) /\ buf \in Seq(Char) /\ xp \in Seq(Nat)
      /\ cmds \in Seq([args : Seq(Seq(Char)), line : Seq(Char) \cup {NULL}])
  BY EmptySeq DEF Init
<1>6. /\ Len(read) <= MaxInput
      /\ argp \in Nat /\ count \in Nat
      /\ inpline \in Seq(Char) \cup {NULL}
      /\ pc \in {"parse", "run", "drain", "exit"}
  BY <1>3, MaxInputAssumption DEF Init
<1>7. opt \in Settings /\ {insingle, indouble, wasquoted, overlapped} \subseteq BOOLEAN
  BY Zenon DEF Init
<1>2. TypeOK
  BY <1>4, <1>5, <1>6, <1>7, Zenon DEF TypeOK
<1> QED
  BY <1>2, <1>3, SettingFacts DEF Init, IInv, StoreInv

(* What every step leaves to be shown when the input has been read from. *)
ReadTyped == read' \in Seq(Char) /\ Len(read') <= MaxInput

(* errx() leaves everything but pc as it is. *)
LEMMA FailInv ==
  ASSUME IInv, Fail, ReadTyped
  PROVE  IInv'
<1>1. TypeOK'
  BY DEF IInv, TypeOK, Fail, ReadTyped, store, quotes, pending
<1>2. StoreInv'
  BY DEF IInv, StoreInv, Fail, ebp, store, quotes, pending
<1> QED
  BY <1>1, <1>2 DEF IInv

(* The code at addch. *)
LEMMA AddCharacterInv ==
  ASSUME IInv, pc = "parse", ReadTyped, NEW ch \in Char, AddCharacter(ch)
  PROVE  IInv'
<1>1. CASE Len(buf) < ebp /\ AddCharacter(ch)
  <2>0. Fail \/ ~Fail
    OBVIOUS
  <2>1. /\ buf' = Append(buf, ch)
        /\ UNCHANGED <<opt, argp, xp, quotes, pending, control, overlapped>>
    BY <1>1, SettingFacts, LenProperties DEF AddCharacter, IInv, TypeOK
  <2>2. buf' \in Seq(Char) /\ Len(buf') = Len(buf) + 1
    BY <2>1, AppendType DEF IInv, TypeOK
  <2>3. TypeOK'
    BY <2>1, <2>2 DEF IInv, TypeOK, ReadTyped, quotes, pending, control
  <2>4. StoreInv'
    BY <1>1, <2>1, <2>2, SettingFacts, LenProperties
    DEF IInv, TypeOK, StoreInv, ebp, quotes, pending, control
  <2> QED
    BY <2>3, <2>4 DEF IInv
<1>2. CASE Fail
  BY <1>2, FailInv
<1>3. CASE /\ Len(buf) >= ebp /\ xp # <<>>
           /\ Prerun(buf, xp, inpline, [kind |-> "overflow", ch |-> ch])
           /\ UNCHANGED <<opt, store, quotes, pending, overlapped>>
  <2>1. Command(buf, xp, inpline) \in CommandType
    BY CommandIsTyped DEF IInv, TypeOK
  <2>2. cmds' \in Seq(CommandType)
    BY <1>3, <2>1, AppendType DEF IInv, TypeOK, Prerun, CommandType
  <2>3. resume' \in ResumeType /\ resume'.kind = "overflow"
    BY <1>3 DEF Prerun, ResumeType
  <2>4. TypeOK'
    BY <1>3, <2>2, <2>3
    DEF IInv, TypeOK, ReadTyped, Prerun, CommandType, store, quotes, pending
  <2>5. StoreInv'
    BY <1>3, <2>3, SettingFacts, LenProperties
    DEF IInv, TypeOK, StoreInv, Prerun, ebp, store, quotes, pending
  <2> QED
    BY <2>4, <2>5 DEF IInv
<1> QED
  BY <1>1, <1>2, <1>3 DEF AddCharacter

(* The code at arg2. *)
LEMMA EndArgumentInv ==
  ASSUME IInv, pc = "parse", ReadTyped,
         NEW atEof \in BOOLEAN, NEW lines \in Nat, EndArgument(atEof, lines)
  PROVE  IInv'
<1> DEFINE stored == (token # <<>> \/ wasquoted) /\ ~FoundEof
           b  == IF stored THEN Append(buf, NUL) ELSE buf
           xs == IF stored THEN Append(xp, argp) ELSE xp
           ln == IF stored /\ opt.Iflag THEN JoinLine(inpline, CString(token))
                                        ELSE inpline
           full == Len(b) > ebp
           last == atEof \/ FoundEof
           dispatch == \/ Len(xs) = opt.nargs
                       \/ full
                       \/ last
                       \/ opt.Lflag <= lines /\ opt.xflag
           object == opt.xflag /\ Len(xs) # opt.nargs /\ full
<1>1. /\ buf' = b /\ xp' = xs /\ inpline' = ln /\ count' = lines
      /\ UNCHANGED <<opt, insingle, indouble, overlapped>>
      /\ \/ /\ dispatch /\ object
            /\ pc' = "exit"
            /\ UNCHANGED <<argp, wasquoted, cmds, resume>>
         \/ /\ dispatch /\ ~object
            /\ Prerun(b, xs, ln, [kind |-> IF last THEN "last" ELSE "limit"])
            /\ UNCHANGED <<argp, wasquoted>>
         \/ /\ ~dispatch
            /\ argp' = Len(b) /\ wasquoted' = FALSE
            /\ UNCHANGED control
  BY DEF EndArgument
<1>2. b \in Seq(Char) /\ Len(b) \in Nat
      /\ Len(b) = Len(buf) + (IF stored THEN 1 ELSE 0)
  BY CharFacts, AppendType, LenProperties DEF IInv, TypeOK
<1>3. xs \in Seq(Nat) /\ Len(xs) \in Nat
      /\ Len(xs) = Len(xp) + (IF stored THEN 1 ELSE 0)
  BY AppendType, LenProperties DEF IInv, TypeOK
<1>4. ln \in Seq(Char) \cup {NULL}
  <2>1. token \in Seq(Char)
    BY SuffixType DEF token, IInv, TypeOK
  <2> QED
    BY <2>1, CStringType, JoinLineType DEF IInv, TypeOK
<1>5. xs # <<>> => stored \/ xp # <<>>
  OBVIOUS
<1>6. Len(buf) \in Nat /\ Len(xp) \in Nat /\ argp \in Nat
  BY LenProperties DEF IInv, TypeOK
<1> HIDE DEF stored, b, xs, ln, last
<1>7. CASE dispatch /\ object /\ pc' = "exit"
           /\ UNCHANGED <<argp, wasquoted, cmds, resume>>
  <2>1. TypeOK'
    BY <1>1, <1>2, <1>3, <1>4, <1>7 DEF IInv, TypeOK, ReadTyped
  <2>2. StoreInv'
    BY <1>1, <1>2, <1>3, <1>6, <1>7, SettingFacts, SMTT(60) DEF IInv, StoreInv, ebp
  <2> QED
    BY <2>1, <2>2 DEF IInv
<1>8. CASE dispatch /\ ~object
           /\ Prerun(b, xs, ln, [kind |-> IF last THEN "last" ELSE "limit"])
           /\ UNCHANGED <<argp, wasquoted>>
  <2>1. Command(b, xs, ln) \in CommandType
    BY <1>2, <1>3, <1>4, CommandIsTyped
  <2>2. cmds' \in Seq(CommandType)
    BY <1>8, <2>1, AppendType DEF IInv, TypeOK, Prerun, CommandType
  <2>3. resume' \in ResumeType /\ resume'.kind \in {"last", "limit"} /\ pc' = "run"
    BY <1>8 DEF Prerun, ResumeType
  <2>4. TypeOK'
    BY <1>1, <1>2, <1>3, <1>4, <1>8, <2>2, <2>3
    DEF IInv, TypeOK, ReadTyped, CommandType
  <2>5. Len(b) <= opt.nline /\ argp <= Len(b) /\ Len(xs) <= opt.nargs
    <3>1. opt.nline \in Nat /\ opt.nargs \in Nat /\ ebp = opt.nline - 1
      BY SettingFacts DEF IInv
    <3>2. Len(buf) <= ebp /\ argp <= Len(buf) /\ Len(xp) < opt.nargs
      BY Zenon DEF IInv, StoreInv
    <3>3. Len(b) <= Len(buf) + 1 /\ Len(buf) <= Len(b) /\ Len(xs) <= Len(xp) + 1
      BY <1>2, <1>3, <1>6
    <3> QED
      BY <1>2, <1>3, <1>6, <3>1, <3>2, <3>3
  <2>6. StoreInv'
    BY <1>1, <1>8, <2>3, <2>5 DEF StoreInv
  <2> QED
    BY <2>4, <2>6 DEF IInv
<1>9. CASE ~dispatch /\ argp' = Len(b) /\ wasquoted' = FALSE /\ UNCHANGED control
  <2>1. TypeOK'
    BY <1>1, <1>2, <1>3, <1>4, <1>9 DEF IInv, TypeOK, ReadTyped, control
  <2>2. Len(b) <= ebp /\ Len(xs) # opt.nargs
    BY <1>9, <1>2, SettingFacts DEF IInv
  <2>3. xs # <<>> => Len(b) > 0
    BY <1>2, <1>5, <1>6 DEF IInv, StoreInv
  <2>4. StoreInv'
    BY <1>1, <1>2, <1>3, <1>6, <1>9, <2>2, <2>3, SettingFacts
    DEF IInv, StoreInv, ebp, control
  <2> QED
    BY <2>1, <2>4 DEF IInv
<1> QED
  BY <1>1, <1>7, <1>8, <1>9

(* A character that parse_input() reads. *)
LEMMA GetCharTyped ==
  ASSUME IInv, NEW ch \in Char, GetChar(ch)
  PROVE  ReadTyped /\ pc = "parse"
<1>1. read' \in Seq(Char) /\ Len(read') = Len(read) + 1
  BY AppendType DEF GetChar, IInv, TypeOK
<1> QED
  BY <1>1, MaxInputAssumption, LenProperties DEF GetChar, ReadTyped, IInv, TypeOK

(* Steps that only open or close a quote. *)
LEMMA QuoteInv ==
  ASSUME IInv, ReadTyped, {insingle, indouble, wasquoted}' \subseteq BOOLEAN,
         UNCHANGED <<opt, store, pending, control, overlapped>>
  PROVE  IInv'
<1>1. TypeOK'
  BY DEF IInv, TypeOK, ReadTyped, store, pending, control
<1>2. StoreInv'
  BY DEF IInv, StoreInv, ebp, store, control
<1> QED
  BY <1>1, <1>2 DEF IInv

(* The steps of the reader. *)
LEMMA ParseInv == ASSUME IInv, Parse PROVE IInv'
<1>0. ReadTyped \/ read' # read
  BY DEF IInv, TypeOK, ReadTyped
<1>1. CASE EofEmpty
  <2>1. TypeOK'
    BY <1>1 DEF EofEmpty, IInv, TypeOK, store, quotes, pending
  <2>2. StoreInv'
    BY <1>1 DEF EofEmpty, IInv, StoreInv, ebp, store
  <2> QED
    BY <2>1, <2>2 DEF IInv
<1>2. CASE EofArgument
  <2>1. pc = "parse" /\ ReadTyped /\ EndArgument(TRUE, count) /\ count \in Nat
    BY <1>2, <1>0 DEF EofArgument, IInv, TypeOK
  <2> QED
    BY <2>1, EndArgumentInv
<1>3. CASE EofInQuotes
  BY <1>3, <1>0, FailInv DEF EofInQuotes
<1>4. CASE Blank
  <2>1. SP \in Char /\ GetChar(SP)
    BY <1>4, CharFacts DEF Blank
  <2>2. ReadTyped /\ pc = "parse"
    BY <2>1, GetCharTyped
  <2>3. AddCharacter(SP) \/ EndArgument(FALSE, count)
    BY <1>4 DEF Blank
  <2>4. count \in Nat
    BY DEF IInv, TypeOK
  <2> QED
    BY <2>1, <2>2, <2>3, <2>4, AddCharacterInv, EndArgumentInv
<1>5. CASE Nul
  <2>1. NUL \in Char /\ GetChar(NUL)
    BY <1>5, CharFacts DEF Nul
  <2>2. ReadTyped /\ pc = "parse"
    BY <2>1, GetCharTyped
  <2>3. AddCharacter(NUL) \/ EndArgument(FALSE, count + 1)
    BY <1>5 DEF Nul
  <2>4. count + 1 \in Nat
    BY DEF IInv, TypeOK
  <2> QED
    BY <2>1, <2>2, <2>3, <2>4, AddCharacterInv, EndArgumentInv
<1>6. CASE Newline
  <2>1. NL \in Char /\ GetChar(NL)
    BY <1>6, CharFacts DEF Newline
  <2>2. ReadTyped /\ pc = "parse"
    BY <2>1, GetCharTyped
  <2>3. AddCharacter(NL) \/ Fail \/ EndArgument(FALSE, count + 1)
    BY <1>6 DEF Newline
  <2>4. count + 1 \in Nat
    BY DEF IInv, TypeOK
  <2> QED
    BY <2>1, <2>2, <2>3, <2>4, AddCharacterInv, FailInv, EndArgumentInv
<1>7. CASE SingleQuote
  <2>1. SQ \in Char /\ GetChar(SQ)
    BY <1>7, CharFacts DEF SingleQuote
  <2>2. ReadTyped /\ pc = "parse"
    BY <2>1, GetCharTyped
  <2>3. CASE AddCharacter(SQ)
    BY <2>1, <2>2, <2>3, AddCharacterInv
  <2>4. CASE /\ insingle' = ~insingle /\ wasquoted' = TRUE
             /\ UNCHANGED <<opt, store, indouble, pending, control, overlapped>>
    <3>1. {insingle, indouble, wasquoted}' \subseteq BOOLEAN
      BY <2>4, Zenon DEF IInv, TypeOK
    <3> QED
      BY <2>2, <2>4, <3>1, QuoteInv
  <2> QED
    BY <1>7, <2>3, <2>4 DEF SingleQuote
<1>8. CASE DoubleQuote
  <2>1. DQ \in Char /\ GetChar(DQ)
    BY <1>8, CharFacts DEF DoubleQuote
  <2>2. ReadTyped /\ pc = "parse"
    BY <2>1, GetCharTyped
  <2>3. CASE AddCharacter(DQ)
    BY <2>1, <2>2, <2>3, AddCharacterInv
  <2>4. CASE /\ indouble' = ~indouble /\ wasquoted' = TRUE
             /\ UNCHANGED <<opt, store, insingle, pending, control, overlapped>>
    <3>1. {insingle, indouble, wasquoted}' \subseteq BOOLEAN
      BY <2>4, Zenon DEF IInv, TypeOK
    <3> QED
      BY <2>2, <2>4, <3>1, QuoteInv
  <2> QED
    BY <1>8, <2>3, <2>4 DEF DoubleQuote
<1>9. CASE Backslash
  <2>1. BS \in Char /\ GetChar(BS) /\ AddCharacter(BS)
    BY <1>9, CharFacts DEF Backslash
  <2> QED
    BY <2>1, GetCharTyped, AddCharacterInv
<1>10. CASE Escape
  <2>1. pc = "parse" /\ BS \in Char
    BY <1>10, CharFacts DEF Escape
  <2>2. ASSUME NEW ch \in Char, Len(read) + 1 < MaxInput,
               read' = read \o <<BS, ch>>, AddCharacter(ch)
        PROVE  IInv'
    <3>1. <<BS, ch>> \in Seq(Char) /\ Len(<<BS, ch>>) = 2
      BY <2>1
    <3>2. read' \in Seq(Char) /\ Len(read') = Len(read) + 2
      BY <2>2, <3>1, ConcatProperties DEF IInv, TypeOK
    <3>3. ReadTyped
      BY <2>2, <3>2, MaxInputAssumption, LenProperties DEF ReadTyped, IInv, TypeOK
    <3> QED
      BY <2>1, <2>2, <3>3, AddCharacterInv
  <2>3. ASSUME Len(read) < MaxInput, read' = Append(read, BS), Fail
        PROVE  IInv'
    <3>1. GetChar(BS)
      BY <2>1, <2>3 DEF GetChar
    <3> QED
      BY <2>1, <2>3, <3>1, GetCharTyped, FailInv
  <2> QED
    BY <1>10, <2>2, <2>3 DEF Escape
<1>11. CASE Ordinary
  <2>1. PICK ch \in Plain : GetChar(ch) /\ AddCharacter(ch)
    BY <1>11 DEF Ordinary
  <2> QED
    BY <2>1, CharFacts, GetCharTyped, AddCharacterInv
<1> QED
  BY <1>1, <1>2, <1>3, <1>4, <1>5, <1>6, <1>7, <1>8, <1>9, <1>10, <1>11 DEF Parse

(* What memcpy() leaves in the buffer, whichever way it copies. *)
LEMMA CopyDownType ==
  ASSUME IInv, pc = "run", Len(buf) = ebp, argp > 0,
         NEW ch \in Char, CopyDown(ebp - argp, ch)
  PROVE  buf' \in Seq(Char) /\ Len(buf') = ebp - argp + 1
<1> DEFINE cnt == ebp - argp
           Forward  == SubSeq(buf, argp + 1, argp + cnt)
           Backward == [i \in 1 .. cnt |-> buf[cnt + 1 + ((i - 1 - cnt) % argp)]]
<1>1. /\ argp \in Nat \ {0} /\ ebp \in Nat /\ cnt \in Nat /\ argp + cnt = Len(buf)
      /\ buf \in Seq(Char)
  BY SettingFacts, LenProperties DEF IInv, TypeOK, StoreInv
<1>2. Forward \in Seq(Char) /\ Len(Forward) = cnt
  BY <1>1, SuffixType
<1>3. Backward \in Seq(Char) /\ Len(Backward) = cnt
  <2>1. \A i \in 1 .. cnt : (i - 1 - cnt) % argp \in 0 .. argp - 1
    BY <1>1
  <2>2. \A i \in 1 .. cnt : cnt + 1 + ((i - 1 - cnt) % argp) \in 1 .. Len(buf)
    BY <1>1, <2>1
  <2>3. Backward \in [1 .. cnt -> Char]
    BY <1>1, <2>2, ElementOfSeq
  <2> QED
    BY <1>1, <2>3
<1>4. buf' = Append(Forward, ch) \/ buf' = Append(Backward, ch)
  BY DEF CopyDown
<1> HIDE DEF Forward, Backward, cnt
<1>5. \A s \in Seq(Char) :
        Append(s, ch) \in Seq(Char) /\ Len(Append(s, ch)) = Len(s) + 1
  BY AppendType
<1>6. CASE buf' = Append(Forward, ch)
  BY <1>2, <1>5, <1>6 DEF cnt
<1>7. CASE buf' = Append(Backward, ch)
  BY <1>3, <1>5, <1>7 DEF cnt
<1> QED
  BY <1>4, <1>6, <1>7

(* The return from prerun(). *)
LEMMA ResumeInv == ASSUME IInv, Resume PROVE IInv'
<1>1. inpline' \in Seq(Char) \cup {NULL} /\ resume' \in ResumeType
  BY DEF Resume, IInv, TypeOK, ResumeType
<1>2. CASE /\ resume.kind = "last" /\ pc' = "drain"
           /\ UNCHANGED <<store, wasquoted, count, overlapped>>
  <2>1. TypeOK'
    BY <1>1, <1>2 DEF Resume, IInv, TypeOK, store
  <2>2. StoreInv'
    BY <1>2 DEF Resume, IInv, StoreInv, ebp, store
  <2> QED
    BY <2>1, <2>2 DEF IInv
<1>3. CASE /\ resume.kind = "limit" /\ pc' = "parse"
           /\ buf' = <<>> /\ argp' = 0 /\ xp' = <<>>
           /\ count' = 0 /\ wasquoted' = FALSE
           /\ UNCHANGED overlapped
  <2>1. buf' \in Seq(Char) /\ xp' \in Seq(Nat) /\ Len(buf') = 0 /\ Len(xp') = 0
    BY <1>3
  <2>2. TypeOK'
    BY <1>1, <1>3, <2>1 DEF Resume, IInv, TypeOK
  <2>3. StoreInv'
    BY <1>3, <2>1, SettingFacts DEF Resume, IInv, StoreInv, ebp
  <2> QED
    BY <2>2, <2>3 DEF IInv
<1>4. CASE /\ resume.kind = "overflow" /\ pc' = "parse"
           /\ CopyDown(ebp - argp, resume.ch) /\ argp' = 0 /\ xp' = <<>>
           /\ overlapped' = (overlapped \/ ebp - argp > argp)
           /\ UNCHANGED <<wasquoted, count>>
  <2>1. pc = "run" /\ Len(buf) = ebp /\ argp > 0 /\ resume.ch \in Char
    BY <1>4 DEF Resume, IInv, TypeOK, StoreInv, ResumeType
  <2>2. buf' \in Seq(Char) /\ Len(buf') = ebp - argp + 1
    BY <1>4, <2>1, CopyDownType
  <2>3. xp' \in Seq(Nat) /\ Len(xp') = 0 /\ overlapped' \in BOOLEAN
    BY <1>4
  <2>4. TypeOK'
    BY <1>1, <1>4, <2>2, <2>3 DEF Resume, IInv, TypeOK
  <2>5. StoreInv'
    BY <1>4, <2>1, <2>2, <2>3, SettingFacts, SMTT(60) DEF Resume, IInv, TypeOK, StoreInv, ebp
  <2> QED
    BY <2>4, <2>5 DEF IInv
<1> QED
  BY <1>2, <1>3, <1>4 DEF Resume

(* Every step keeps the invariant. *)
LEMMA NextInv == IInv /\ [Next]_vars => IInv'
<1> SUFFICES ASSUME IInv, [Next]_vars PROVE IInv'
  OBVIOUS
<1>1. CASE Parse
  BY <1>1, ParseInv
<1>2. CASE RunExits
  <2>1. Fail /\ ReadTyped
    BY <1>2 DEF RunExits, ReadTyped, IInv, TypeOK
  <2> QED
    BY <2>1, FailInv
<1>3. CASE Resume
  BY <1>3, ResumeInv
<1>4. CASE UNCHANGED vars
  <2>1. TypeOK'
    BY <1>4 DEF IInv, TypeOK, vars, store, quotes, pending, control
  <2>2. StoreInv'
    BY <1>4 DEF IInv, StoreInv, ebp, vars, store, control
  <2> QED
    BY <2>1, <2>2 DEF IInv
<1> QED
  BY <1>1, <1>2, <1>3, <1>4 DEF Next

(* The sum that the vector needs is within the product that main() takes. *)
LEMMA SlotsSuffice ==
  ASSUME NEW m \in Nat \ {0}, NEW n \in Nat \ {0}
  PROVE  m + n <= 1 + m * n
<1>1. (m - 1) * (n - 1) \in Nat
  OBVIOUS
<1>2. (m - 1) * (n - 1) = m * n - m - n + 1
  OBVIOUS
<1> QED
  BY <1>1, <1>2

(***************************************************************************)
(* The slots of the argument vector are enough, by the limit on their      *)
(* number.                                                                 *)
(***************************************************************************)
LEMMA ArgvFollows == IInv => ArgvInBounds
<1> SUFFICES ASSUME IInv, opt.argc > 0 PROVE ArgvFits
  BY DEF ArgvInBounds
<1>1. /\ opt.argc \in Nat \ {0} /\ opt.nargs \in Nat \ {0} /\ opt.jrest \in Nat
      /\ opt.jfound => opt.jrest < opt.argc
  BY SettingFacts DEF IInv
<1>2. Len(xp) \in Nat /\ Len(xp) <= opt.nargs
  BY LenProperties DEF IInv, TypeOK, StoreInv
<1>3. opt.argc + opt.nargs <= 1 + opt.argc * opt.nargs
  BY <1>1, SlotsSuffice
<1>4. UtilityWords \in Int /\ UtilityWords + WordsAfter <= opt.argc /\ WordsAfter \in Nat
  BY <1>1 DEF UtilityWords, WordsAfter
<1>5. opt.argc * opt.nargs \in Nat
  BY <1>1
<1> QED
  BY <1>1, <1>2, <1>3, <1>4, <1>5 DEF ArgvFits, Slots

-----------------------------------------------------------------------------
(* The invariant holds in every state of the reader, whatever the input,   *)
(* the settings and the bounds.                                            *)
THEOREM Invariance == Spec => []IInv
<1>1. Init => IInv
  BY InitInv
<1>2. IInv /\ [Next]_vars => IInv'
  BY NextInv
<1> QED
  BY <1>1, <1>2, PTL DEF Spec

(* Every variable of the reader keeps its type, the commands included,     *)
(* which are cut from the buffer by offsets.                               *)
THEOREM TypeCorrect == Spec => []TypeOK
<1>1. IInv => TypeOK
  BY DEF IInv
<1> QED
  BY <1>1, Invariance, PTL

(* parse_input() never stores beyond the buffer that main() allocated, for *)
(* any -s and any input, whatever order of limits ends the commands.       *)
THEOREM BufferSafe == Spec => []BufferInBounds
<1>1. IInv => BufferInBounds
  BY DEF IInv, StoreInv, BufferInBounds
<1> QED
  BY <1>1, Invariance, PTL

(* The argument vector never outgrows what main() allocated, for any -n    *)
(* and -J, provided that the utility has a word of its own.                *)
THEOREM ArgvSafe == Spec => []ArgvInBounds
<1>1. IInv => ArgvInBounds
  BY ArgvFollows
<1> QED
  BY <1>1, Invariance, PTL
-----------------------------------------------------------------------------
(***************************************************************************)
(* Part two: every word is delivered.  The invariant relates the reader to *)
(* the scan of what it has read, character by character; first the facts   *)
(* about the scan and about the strings in the buffer.                     *)
(***************************************************************************)

(***************************************************************************)
(* Scanning one character more.                                            *)
(***************************************************************************)
WordType == [text : Seq(Char), line : Nat]
ScanType == [words : Seq(WordType), cur : Seq(Char), real : BOOLEAN,
             mode : {"plain", "esc", SQ, DQ}, line : Nat]

(* A scan starts as one. *)
LEMMA EmptyScanType == EmptyScan \in ScanType
<1>1. <<>> \in Seq(WordType) /\ <<>> \in Seq(Char)
  OBVIOUS
<1> HIDE DEF WordType
<1> QED
  BY <1>1 DEF EmptyScan, ScanType

(* Ending the word that is being read. *)
LEMMA EndWordType ==
  ASSUME NEW s \in ScanType
  PROVE  /\ EndWord(s) \in ScanType
         /\ EndWord(s).cur = <<>> /\ ~EndWord(s).real
         /\ EndWord(s).mode = s.mode /\ EndWord(s).line = s.line
         /\ EndWord(s).words =
              IF s.cur = <<>> /\ ~s.real THEN s.words
              ELSE Append(s.words, [text |-> s.cur, line |-> s.line])
<1> DEFINE word == [text |-> s.cur, line |-> s.line]
<1>1. word \in WordType
  BY DEF ScanType, WordType
<1>2. s.words \in Seq(WordType) /\ <<>> \in Seq(Char)
  BY DEF ScanType
<1>3. Append(s.words, word) \in Seq(WordType)
  BY <1>1, <1>2
<1> HIDE DEF WordType
<1>4. CASE s.cur = <<>> /\ ~s.real
  BY <1>4 DEF EndWord, ScanType
<1>5. CASE ~(s.cur = <<>> /\ ~s.real)
  <2>1. EndWord(s) = [s EXCEPT !.words = Append(s.words, word), !.cur = <<>>, !.real = FALSE]
    BY <1>5 DEF EndWord, ScanType
  <2> HIDE DEF word
  <2>2. EndWord(s) \in ScanType /\ EndWord(s).cur = <<>> /\ ~EndWord(s).real
        /\ EndWord(s).mode = s.mode /\ EndWord(s).words = Append(s.words, word)
        /\ EndWord(s).line = s.line
    BY <1>2, <1>3, <2>1 DEF ScanType
  <2> QED
    BY <1>5, <2>2 DEF word
<1> QED
  BY <1>4, <1>5

(* Ending the line. *)
LEMMA NextLineType ==
  ASSUME NEW s \in ScanType
  PROVE  /\ NextLine(s) \in ScanType
         /\ NextLine(s).words = s.words /\ NextLine(s).cur = s.cur
         /\ NextLine(s).real = s.real /\ NextLine(s).mode = s.mode
         /\ NextLine(s).line = s.line + 1
BY DEF NextLine, ScanType

(* Keeping a character. *)
LEMMA KeepType ==
  ASSUME NEW s \in ScanType, NEW ch \in Char
  PROVE  /\ Keep(s, ch) \in ScanType
         /\ Keep(s, ch).words = s.words /\ Keep(s, ch).cur = Append(s.cur, ch)
         /\ Keep(s, ch).real = s.real /\ Keep(s, ch).line = s.line
         /\ Keep(s, ch).mode = IF s.mode = "esc" THEN "plain" ELSE s.mode
<1>1. Append(s.cur, ch) \in Seq(Char)
  BY DEF ScanType
<1>2. Keep(s, ch) = [s EXCEPT !.cur = Append(s.cur, ch),
                              !.mode = IF s.mode = "esc" THEN "plain" ELSE s.mode]
  BY DEF Keep, ScanType
<1> QED
  BY <1>1, <1>2 DEF ScanType

(* A character more leaves a scan. *)
LEMMA ScanOneType ==
  ASSUME NEW nulls \in BOOLEAN, NEW s \in ScanType, NEW ch \in Char
  PROVE  ScanOne(nulls, s, ch) \in ScanType
<1>1. EndWord(s) \in ScanType /\ NextLine(EndWord(s)) \in ScanType /\ Keep(s, ch) \in ScanType
  BY EndWordType, NextLineType, KeepType
<1>2. [s EXCEPT !.mode = "esc"] \in ScanType /\ [s EXCEPT !.mode = "plain"] \in ScanType
  BY DEF ScanType
<1>3. ch \in {SQ, DQ} => [s EXCEPT !.mode = ch, !.real = TRUE] \in ScanType
  BY DEF ScanType
<1>4. ScanNulls(s, ch) \in ScanType
  BY <1>1 DEF ScanNulls
<1>5. ScanPlain(s, ch) \in ScanType
  BY <1>1, <1>2, <1>3 DEF ScanPlain
<1> QED
  BY <1>4, <1>5 DEF ScanOne

(* What Scan chooses: the characters scanned one by one. *)
Scans(f, nulls, input) ==
  /\ f[0] = EmptyScan
  /\ \A i \in 0 .. Len(input) : i < Len(input) => f[i + 1] = ScanOne(nulls, f[i], input[i + 1])

(***************************************************************************)
(* A scan is a function that grows with the input, character by character. *)
(***************************************************************************)
LEMMA ScanFunction ==
  ASSUME NEW nulls \in BOOLEAN, NEW input \in Seq(Char)
  PROVE  \E f \in [0 .. Len(input) -> ScanType] :
           Scans(f, nulls, input) /\ ScanOf(nulls, input) = f[Len(input)]
<1> DEFINE n == Len(input)
           Chain(f) == f = [i \in 0 .. n |-> IF i = 0 THEN EmptyScan
                                             ELSE ScanOne(nulls, f[i - 1], input[i])]
           one == [a \in ScanType \X Nat |->
                     IF a[2] \in 1 .. n THEN ScanOne(nulls, a[1], input[a[2]]) ELSE a[1]]
<1>1. n \in Nat /\ \A i \in 1 .. n : input[i] \in Char
  OBVIOUS
<1>2. one \in [ScanType \X Nat -> ScanType]
  <2> SUFFICES ASSUME NEW s \in ScanType, NEW i \in 1 .. n
               PROVE  ScanOne(nulls, s, input[i]) \in ScanType
    OBVIOUS
  <2> QED
    BY <1>1, ScanOneType
<1> HIDE DEF n
<1>3. PICK g \in [0 .. n -> ScanType] :
        /\ g[0] = EmptyScan
        /\ \A i \in 0 .. n : i < n => g[i + 1] = ScanOne(nulls, g[i], input[i + 1])
  <2>1. PICK g \in [0 .. n -> ScanType] : Steps(g, EmptyScan, one, n)
    <3> HIDE DEF one
    <3> QED
      BY <1>1, <1>2, EmptyScanType, RecursiveFunction, Zenon
  <2>2. ASSUME NEW i \in 0 .. n, i < n
        PROVE  g[i + 1] = ScanOne(nulls, g[i], input[i + 1])
    <3>1. <<g[i], i + 1>> \in ScanType \X Nat /\ i + 1 \in 1 .. n
      BY <1>1, <2>2
    <3>2. g[i + 1] = one[<<g[i], i + 1>>]
      BY <2>1, <2>2 DEF Steps
    <3> QED
      BY <3>1, <3>2
  <2> QED
    BY <2>1, <2>2 DEF Steps
<1>4. Chain(g)
  <2>1. ASSUME NEW i \in 0 .. n
        PROVE  g[i] = IF i = 0 THEN EmptyScan ELSE ScanOne(nulls, g[i - 1], input[i])
    <3>1. CASE i # 0
      <4>1. i - 1 \in 0 .. n /\ i - 1 < n /\ (i - 1) + 1 = i
        BY <1>1, <3>1
      <4> QED
        BY <1>3, <3>1, <4>1
    <3> QED
      BY <1>3, <3>1
  <2> QED
    BY <2>1
<1> DEFINE f == CHOOSE f : Chain(f)
<1>5. Chain(f)
  BY <1>4
<1> HIDE DEF f
<1>6. f[0] = EmptyScan /\ \A i \in 0 .. n : i < n => f[i + 1] = ScanOne(nulls, f[i], input[i + 1])
  <2>1. \A i \in 0 .. n : f[i] = IF i = 0 THEN EmptyScan ELSE ScanOne(nulls, f[i - 1], input[i])
    BY <1>5
  <2>2. ASSUME NEW i \in 0 .. n, i < n PROVE f[i + 1] = ScanOne(nulls, f[i], input[i + 1])
    <3>1. i + 1 \in 0 .. n /\ i + 1 # 0 /\ (i + 1) - 1 = i
      BY <1>1, <2>2
    <3> QED
      BY <2>1, <3>1
  <2> QED
    BY <1>1, <2>1, <2>2
<1> DEFINE T == {i \in 0 .. n : f[i] = g[i]}
<1>7. \A i \in 0 .. n : f[i] = g[i]
  <2>1. 0 \in T
    BY <1>1, <1>3, <1>6
  <2>2. ASSUME NEW i \in 0 .. n, i \in T, i < n PROVE i + 1 \in T
    <3>1. /\ i + 1 \in 0 .. n
          /\ f[i + 1] = ScanOne(nulls, f[i], input[i + 1])
          /\ g[i + 1] = ScanOne(nulls, g[i], input[i + 1])
      BY <1>1, <1>3, <1>6, <2>2
    <3> QED
      BY <2>2, <3>1
  <2> HIDE DEF T
  <2>3. 0 .. n \subseteq T
    BY <1>1, <2>1, <2>2, RangeInd
  <2> QED
    BY <2>3 DEF T
<1>8. f \in [0 .. n -> ScanType]
  <2>1. f = [i \in 0 .. n |-> f[i]]
    BY <1>5
  <2> QED
    BY <1>7, <2>1
<1>9. ScanOf(nulls, input) = f[n]
  BY DEF ScanOf, f, n
<1> QED
  BY <1>6, <1>8, <1>9 DEF Scans, n

(* The scan of nothing. *)
LEMMA ScanEmpty == \A nulls \in BOOLEAN : ScanOf(nulls, <<>>) = EmptyScan
<1> DEFINE empty == <<>>
<1>1. empty \in Seq(Char) /\ Len(empty) = 0
  OBVIOUS
<1> HIDE DEF empty
<1> SUFFICES ASSUME NEW nulls \in BOOLEAN PROVE ScanOf(nulls, empty) = EmptyScan
  BY DEF empty
<1>2. PICK f \in [0 .. Len(empty) -> ScanType] :
        Scans(f, nulls, empty) /\ ScanOf(nulls, empty) = f[Len(empty)]
  BY <1>1, ScanFunction
<1> QED
  BY <1>1, <1>2 DEF Scans

(* A character more takes the scan one step further. *)
LEMMA ScanAppend ==
  ASSUME NEW nulls \in BOOLEAN, NEW input \in Seq(Char), NEW ch \in Char
  PROVE  /\ ScanOf(nulls, input) \in ScanType
         /\ ScanOf(nulls, Append(input, ch)) = ScanOne(nulls, ScanOf(nulls, input), ch)
<1> DEFINE more == Append(input, ch)
           n == Len(input)
<1>1. /\ more \in Seq(Char) /\ Len(more) = n + 1 /\ n \in Nat
      /\ \A i \in 1 .. n : more[i] = input[i]
      /\ more[n + 1] = ch
  OBVIOUS
<1> HIDE DEF more, n
<1>2. PICK f \in [0 .. n + 1 -> ScanType] :
        Scans(f, nulls, more) /\ ScanOf(nulls, more) = f[n + 1]
  BY <1>1, ScanFunction
<1>3. PICK g \in [0 .. n -> ScanType] :
        Scans(g, nulls, input) /\ ScanOf(nulls, input) = g[n]
  BY ScanFunction DEF n
<1> DEFINE T == {i \in 0 .. n : f[i] = g[i]}
<1>4. f[n] = g[n]
  <2>1. 0 \in T
    BY <1>1, <1>2, <1>3 DEF Scans
  <2>2. ASSUME NEW i \in 0 .. n, i \in T, i < n PROVE i + 1 \in T
    <3>1. i \in 0 .. Len(more) /\ i < Len(more) /\ i + 1 \in 0 .. n /\ more[i + 1] = input[i + 1]
      BY <1>1, <2>2
    <3>2. f[i + 1] = ScanOne(nulls, f[i], more[i + 1])
      BY <1>2, <3>1 DEF Scans
    <3>3. g[i + 1] = ScanOne(nulls, g[i], input[i + 1])
      BY <1>3, <2>2 DEF Scans, n
    <3> QED
      BY <2>2, <3>1, <3>2, <3>3
  <2> HIDE DEF T
  <2>3. 0 .. n \subseteq T
    BY <1>1, <2>1, <2>2, RangeInd
  <2> QED
    BY <1>1, <2>3 DEF T
<1>5. f[n + 1] = ScanOne(nulls, f[n], ch)
  BY <1>1, <1>2 DEF Scans
<1> QED
  BY <1>1, <1>2, <1>3, <1>4, <1>5 DEF more

(***************************************************************************)
(* A C string ends at its first NUL.                                       *)
(***************************************************************************)
LEMMA CountTo == \A n \in Nat : Cardinality(1 .. n) = n
BY FS_Interval

(* Where the first NUL is, there the string is cut. *)
LEMMA CStringCut ==
  ASSUME NEW s \in Seq(Char), NEW n \in Nat, n <= Len(s),
         \A j \in 1 .. n : s[j] # NUL, n < Len(s) => s[n + 1] = NUL
  PROVE  CString(s) = SubSeq(s, 1, n)
<1> DEFINE K == {i \in DOMAIN s : \A j \in 1 .. i : s[j] # NUL}
           l == Len(s)
<1>1. l \in Nat /\ DOMAIN s = 1 .. l /\ n \in Nat
  BY LenProperties
<1>2. \A i \in 1 .. l : (\A j \in 1 .. i : s[j] # NUL) <=> i <= n
  <2> TAKE i \in 1 .. l
  <2>1. CASE i <= n
    <3>1. \A j \in 1 .. i : j \in 1 .. n
      BY <1>1, <2>1
    <3> QED
      BY <2>1, <3>1
  <2>2. CASE ~(i <= n)
    <3>1. n + 1 \in 1 .. i /\ n < Len(s)
      BY <1>1, <2>2
    <3> QED
      BY <2>2, <3>1
  <2> QED
    BY <2>1, <2>2
<1>3. K = {i \in 1 .. l : i <= n}
  BY <1>1, <1>2
<1>4. {i \in 1 .. l : i <= n} = 1 .. n
  <2>1. n <= l
    OBVIOUS
  <2> HIDE DEF l
  <2> QED
    BY <1>1, <2>1
<1> HIDE DEF K, l
<1>5. Cardinality(1 .. n) = n
  BY CountTo
<1>6. Cardinality(K) = n
  BY <1>3, <1>4, <1>5
<1> QED
  BY <1>6 DEF CString, K

(* There is such a place, if only the end. *)
LEMMA CStringEnd ==
  ASSUME NEW s \in Seq(Char)
  PROVE  \E n \in Nat :
           /\ n <= Len(s)
           /\ \A j \in 1 .. n : s[j] # NUL
           /\ n < Len(s) => s[n + 1] = NUL
<1>1. Len(s) \in Nat
  OBVIOUS
<1> DEFINE T == {n \in Nat : n = Len(s) \/ (n < Len(s) /\ s[n + 1] = NUL)}
<1>2. Len(s) \in T /\ T \subseteq Nat
  BY <1>1
<1>3. PICK n \in T : \A m \in T : n <= m
  <2> HIDE DEF T
  <2> QED
    BY <1>2, LeastElement
<1>4. n \in Nat /\ n <= Len(s) /\ (n = Len(s) \/ s[n + 1] = NUL)
  BY <1>2, <1>3
<1>5. ASSUME NEW j \in 1 .. n PROVE s[j] # NUL
  <2>1. j - 1 \in Nat /\ j - 1 < n /\ j - 1 < Len(s) /\ (j - 1) + 1 = j
    BY <1>1, <1>4
  <2>2. ~(j - 1 \in T)
    BY <1>3, <2>1
  <2> QED
    BY <2>1, <2>2
<1> HIDE DEF T
<1> QED
  BY <1>1, <1>4, <1>5

(* What follows a NUL is not seen. *)
LEMMA CStringOfLonger ==
  ASSUME NEW s \in Seq(Char), NEW ch \in Char, \E j \in 1 .. Len(s) : s[j] = NUL
  PROVE  CString(Append(s, ch)) = CString(s)
<1>1. PICK n \in Nat :
        /\ n <= Len(s)
        /\ \A j \in 1 .. n : s[j] # NUL
        /\ n < Len(s) => s[n + 1] = NUL
  BY CStringEnd
<1>2. /\ Append(s, ch) \in Seq(Char) /\ Len(Append(s, ch)) = Len(s) + 1 /\ Len(s) \in Nat
      /\ \A i \in 1 .. Len(s) : Append(s, ch)[i] = s[i]
  OBVIOUS
<1>3. n < Len(s)
  BY <1>1, <1>2
<1>4. CString(s) = SubSeq(s, 1, n)
  BY <1>1, CStringCut
<1>5. CString(Append(s, ch)) = SubSeq(Append(s, ch), 1, n)
  <2>1. n <= Len(Append(s, ch)) /\ \A j \in 1 .. n : Append(s, ch)[j] # NUL
    BY <1>1, <1>2, <1>3
  <2>2. Append(s, ch)[n + 1] = NUL
    BY <1>1, <1>2, <1>3
  <2> QED
    BY <1>2, <2>1, <2>2, CStringCut
<1>6. SubSeq(Append(s, ch), 1, n) = SubSeq(s, 1, n)
  BY <1>2, <1>3, AppendPrefix
<1> QED
  BY <1>4, <1>5, <1>6

(* The terminator is not seen either. *)
LEMMA CStringOfTerminated ==
  ASSUME NEW s \in Seq(Char)
  PROVE  CString(Append(s, NUL)) = CString(s)
<1>0. NUL \in Char
  BY CharFacts
<1>1. PICK n \in Nat :
        /\ n <= Len(s)
        /\ \A j \in 1 .. n : s[j] # NUL
        /\ n < Len(s) => s[n + 1] = NUL
  BY CStringEnd
<1>2. /\ Append(s, NUL) \in Seq(Char) /\ Len(Append(s, NUL)) = Len(s) + 1 /\ Len(s) \in Nat
      /\ \A i \in 1 .. Len(s) : Append(s, NUL)[i] = s[i]
      /\ Append(s, NUL)[Len(s) + 1] = NUL
  BY <1>0
<1>4. CString(s) = SubSeq(s, 1, n)
  BY <1>1, CStringCut
<1>5. CString(Append(s, NUL)) = SubSeq(Append(s, NUL), 1, n)
  <2>1. n <= Len(Append(s, NUL)) /\ \A j \in 1 .. n : Append(s, NUL)[j] # NUL
    BY <1>1, <1>2
  <2>2. Append(s, NUL)[n + 1] = NUL
    BY <1>1, <1>2
  <2> QED
    BY <1>2, <2>1, <2>2, CStringCut
<1>6. SubSeq(Append(s, NUL), 1, n) = SubSeq(s, 1, n)
  <2>1. n <= Len(s)
    BY <1>1
  <2> QED
    BY <1>0, <2>1, AppendPrefix
<1> QED
  BY <1>4, <1>5, <1>6

-----------------------------------------------------------------------------
(* The arguments of a list of commands. *)
ArgumentsOf(list) == FlattenSeq([k \in DOMAIN list |-> list[k].args])

(* The arguments of a list of commands, and of one command more. *)
LEMMA ArgumentsAppend ==
  ASSUME NEW list \in Seq(CommandType), NEW c \in CommandType
  PROVE  /\ ArgumentsOf(list) \in Seq(Seq(Char))
         /\ ArgumentsOf(Append(list, c)) = ArgumentsOf(list) \o c.args
<1> DEFINE args == [k \in DOMAIN list |-> list[k].args]
           more == [k \in DOMAIN Append(list, c) |-> Append(list, c)[k].args]
<1>1. Len(list) \in Nat /\ DOMAIN list = 1 .. Len(list)
      /\ \A k \in 1 .. Len(list) : list[k] \in CommandType
  OBVIOUS
<1>2. \A k \in 1 .. Len(list) : list[k].args \in Seq(Seq(Char))
  BY <1>1 DEF CommandType
<1>3. c.args \in Seq(Seq(Char))
  BY DEF CommandType
<1>4. args \in Seq(Seq(Seq(Char))) /\ Len(args) = Len(list)
      /\ \A k \in 1 .. Len(list) : args[k] = list[k].args
  BY <1>1, <1>2
<1>5. DOMAIN Append(list, c) = 1 .. Len(list) + 1
      /\ \A k \in 1 .. Len(list) : Append(list, c)[k] = list[k]
      /\ Append(list, c)[Len(list) + 1] = c
  BY <1>1
<1>6. more = Append(args, c.args)
  <2>1. more \in [1 .. Len(list) + 1 -> Seq(Seq(Char))]
    <3>1. ASSUME NEW k \in 1 .. Len(list) + 1 PROVE Append(list, c)[k].args \in Seq(Seq(Char))
      <4>1. k \in 1 .. Len(list) \/ k = Len(list) + 1
        BY <1>1
      <4> QED
        BY <1>2, <1>3, <1>5, <4>1
    <3> QED
      BY <1>5, <3>1
  <2>2. more \in Seq(Seq(Seq(Char))) /\ Len(more) = Len(list) + 1
    BY <1>1, <2>1
  <2>3. Append(args, c.args) \in Seq(Seq(Seq(Char))) /\ Len(Append(args, c.args)) = Len(list) + 1
        /\ \A k \in 1 .. Len(list) : Append(args, c.args)[k] = args[k]
        /\ Append(args, c.args)[Len(list) + 1] = c.args
    <3> HIDE DEF args, more
    <3> QED
      BY <1>3, <1>4, AppendProperties
  <2>4. ASSUME NEW k \in 1 .. Len(list) + 1 PROVE more[k] = Append(args, c.args)[k]
    <3>1. more[k] = Append(list, c)[k].args
      BY <1>5
    <3>2. k \in 1 .. Len(list) \/ k = Len(list) + 1
      BY <1>1
    <3> HIDE DEF args, more
    <3> QED
      BY <1>4, <1>5, <2>3, <3>1, <3>2
  <2> HIDE DEF args, more
  <2> QED
    BY <2>2, <2>3, <2>4, SeqEqual
<1> HIDE DEF args, more
<1>7. FlattenSeq(Append(args, c.args)) = FlattenSeq(args) \o c.args
  BY <1>3, <1>4, FlattenAppend
<1>8. FlattenSeq(args) \in Seq(Seq(Char))
  BY <1>4, FlattenType
<1> QED
  BY <1>6, <1>7, <1>8 DEF ArgumentsOf, args, more

(* The arguments of no command. *)
LEMMA ArgumentsEmpty == ArgumentsOf(<<>>) = <<>>
<1>1. [k \in DOMAIN <<>> |-> <<>>[k].args] = <<>>
  OBVIOUS
<1> QED
  BY <1>1, FlattenEmpty DEF ArgumentsOf

(* The words as the utility sees them. *)
LEMMA CStringsAppend ==
  ASSUME NEW words \in Seq(WordType), NEW w \in WordType
  PROVE  /\ CStrings(words) \in Seq(Seq(Char)) /\ Len(CStrings(words)) = Len(words)
         /\ CStrings(Append(words, w)) = Append(CStrings(words), CString(w.text))
<1>1. Len(words) \in Nat /\ DOMAIN words = 1 .. Len(words)
      /\ \A i \in 1 .. Len(words) : words[i] \in WordType
  OBVIOUS
<1>2. \A i \in 1 .. Len(words) : CString(words[i].text) \in Seq(Char)
  BY <1>1, CStringType DEF WordType
<1>3. CString(w.text) \in Seq(Char)
  BY CStringType DEF WordType
<1>4. CStrings(words) \in Seq(Seq(Char)) /\ Len(CStrings(words)) = Len(words)
      /\ \A i \in 1 .. Len(words) : CStrings(words)[i] = CString(words[i].text)
  BY <1>1, <1>2 DEF CStrings
<1>5. Append(words, w) \in Seq(WordType)
      /\ DOMAIN Append(words, w) = 1 .. Len(words) + 1
      /\ \A i \in 1 .. Len(words) : Append(words, w)[i] = words[i]
      /\ Append(words, w)[Len(words) + 1] = w
  BY <1>1
<1>6. CStrings(Append(words, w)) \in Seq(Seq(Char))
      /\ Len(CStrings(Append(words, w))) = Len(words) + 1
      /\ \A i \in 1 .. Len(words) + 1 :
           CStrings(Append(words, w))[i] = CString(Append(words, w)[i].text)
  <2>1. ASSUME NEW i \in 1 .. Len(words) + 1
        PROVE  CString(Append(words, w)[i].text) \in Seq(Char)
    <3>1. i \in 1 .. Len(words) \/ i = Len(words) + 1
      BY <1>1
    <3> QED
      BY <1>2, <1>3, <1>5, <3>1
  <2> QED
    BY <1>1, <1>5, <2>1 DEF CStrings
<1> DEFINE a == CStrings(words)
           e == CString(w.text)
           b == CStrings(Append(words, w))
<1> HIDE DEF a, e, b, WordType
<1>7. \A i \in 1 .. Len(words) : b[i] = a[i]
  <2> TAKE i \in 1 .. Len(words)
  <2>1. i \in 1 .. Len(words) + 1
    BY <1>1
  <2> QED
    BY <1>4, <1>5, <1>6, <2>1 DEF a, b
<1>8. b[Len(words) + 1] = e
  <2>1. Len(words) + 1 \in 1 .. Len(words) + 1
    BY <1>1
  <2> QED
    BY <1>5, <1>6, <2>1 DEF b, e
<1>9. b = Append(a, e)
  <2>1. a \in Seq(Seq(Char)) /\ Len(a) = Len(words) /\ e \in Seq(Char)
    BY <1>3, <1>4 DEF a, e
  <2>2. b \in Seq(Seq(Char)) /\ Len(b) = Len(words) + 1
    BY <1>6 DEF b
  <2> QED
    BY <1>7, <1>8, <2>1, <2>2, IsAppended
<1> QED
  BY <1>4, <1>9 DEF a, b, e

(* The arguments of the next command. *)
ArgsOf(b, starts) == [i \in DOMAIN starts |-> CString(SubSeq(b, starts[i] + 1, Len(b)))]

(* What the buffer holds from the starts on are strings. *)
LEMMA ArgsOfType ==
  ASSUME NEW b \in Seq(Char), NEW starts \in Seq(Nat)
  PROVE  /\ ArgsOf(b, starts) \in Seq(Seq(Char))
         /\ Len(ArgsOf(b, starts)) = Len(starts)
         /\ \A i \in 1 .. Len(starts) :
              ArgsOf(b, starts)[i] = CString(SubSeq(b, starts[i] + 1, Len(b)))
<1>1. Len(starts) \in Nat /\ DOMAIN starts = 1 .. Len(starts)
  OBVIOUS
<1>2. \A i \in 1 .. Len(starts) : CString(SubSeq(b, starts[i] + 1, Len(b))) \in Seq(Char)
  BY <1>1, ElementOfSeq, SuffixType, CStringType
<1> QED
  BY <1>1, <1>2 DEF ArgsOf

(* What the arguments are does not depend on what is stored after them. *)
LEMMA ArgsOfLonger ==
  ASSUME NEW b \in Seq(Char), NEW starts \in Seq(Nat), NEW ch \in Char,
         \A i \in DOMAIN starts : \E j \in starts[i] + 1 .. Len(b) : b[j] = NUL
  PROVE  ArgsOf(Append(b, ch), starts) = ArgsOf(b, starts)
<1> DEFINE more == Append(b, ch)
<1>1. /\ more \in Seq(Char) /\ Len(more) = Len(b) + 1 /\ Len(b) \in Nat
      /\ \A i \in 1 .. Len(b) : more[i] = b[i]
      /\ more[Len(b) + 1] = ch
  OBVIOUS
<1>0. DOMAIN starts = 1 .. Len(starts)
  OBVIOUS
<1> HIDE DEF more
<1>2. ASSUME NEW i \in 1 .. Len(starts)
      PROVE  CString(SubSeq(more, starts[i] + 1, Len(more)))
             = CString(SubSeq(b, starts[i] + 1, Len(b)))
  <2>1. starts[i] \in Nat /\ Len(starts) \in Nat
    OBVIOUS
  <2>2. PICK j \in starts[i] + 1 .. Len(b) : b[j] = NUL
    BY <1>0
  <2> DEFINE m == starts[i]
             s == SubSeq(b, m + 1, Len(b))
             t == SubSeq(more, m + 1, Len(more))
  <2> HIDE DEF m
  <2>3. m \in Nat /\ m < Len(b) /\ j \in m + 1 .. Len(b)
    BY <1>1, <2>1, <2>2 DEF m
  <2>4. s \in Seq(Char) /\ Len(s) = Len(b) - m
    BY <1>1, <2>3, SuffixType
  <2>6. j - m \in 1 .. Len(s) /\ s[j - m] = NUL
    <3>1. j - m \in 1 .. (Len(b) - (m + 1)) + 1 /\ (m + 1) + (j - m) - 1 = j
      BY <1>1, <2>3
    <3>2. SubSeq(b, m + 1, Len(b))[j - m] = b[j]
      BY <1>1, <2>3, <3>1, SubSeqProperties
    <3> QED
      BY <1>1, <2>2, <2>3, <2>4, <3>2
  <2>7. t = Append(s, ch)
    <3>1. m <= Len(b) /\ m \in Nat
      BY <1>1, <2>3
    <3> HIDE DEF m
    <3>2. SubSeq(Append(b, ch), m + 1, Len(Append(b, ch)))
          = Append(SubSeq(b, m + 1, Len(b)), ch)
      BY <3>1, SuffixAppend
    <3> QED
      BY <3>2 DEF more
  <2> HIDE DEF s, t
  <2>8. CString(Append(s, ch)) = CString(s)
    BY <2>4, <2>6, CStringOfLonger
  <2> QED
    BY <2>7, <2>8 DEF s, t, m
<1>3. ArgsOf(more, starts) = ArgsOf(b, starts)
  BY <1>0, <1>2 DEF ArgsOf
<1> QED
  BY <1>3 DEF more

(* Storing the argument that starts at m adds it. *)
LEMMA ArgsOfStored ==
  ASSUME NEW b \in Seq(Char), NEW starts \in Seq(Nat), NEW m \in Nat, m <= Len(b),
         \A i \in DOMAIN starts : \E j \in starts[i] + 1 .. Len(b) : b[j] = NUL
  PROVE  ArgsOf(Append(b, NUL), Append(starts, m))
         = Append(ArgsOf(b, starts), CString(SubSeq(b, m + 1, Len(b))))
<1> DEFINE more == Append(b, NUL)
           longer == Append(starts, m)
           a == ArgsOf(b, starts)
           e == CString(SubSeq(b, m + 1, Len(b)))
           c == ArgsOf(more, longer)
<1>1. /\ more \in Seq(Char) /\ Len(more) = Len(b) + 1 /\ Len(b) \in Nat
      /\ \A i \in 1 .. Len(b) : more[i] = b[i]
      /\ more[Len(b) + 1] = NUL
  BY CharFacts
<1>2. /\ longer \in Seq(Nat) /\ Len(longer) = Len(starts) + 1 /\ Len(starts) \in Nat
      /\ \A i \in 1 .. Len(starts) : longer[i] = starts[i]
      /\ longer[Len(starts) + 1] = m
  OBVIOUS
<1>3. ArgsOf(more, starts) = a
  BY CharFacts, ArgsOfLonger
<1> HIDE DEF more, longer
<1>4. CString(SubSeq(more, m + 1, Len(more))) = e
  <2> DEFINE s == SubSeq(b, m + 1, Len(b))
             t == SubSeq(more, m + 1, Len(more))
  <2>1. s \in Seq(Char)
    BY SuffixType
  <2>3. t = Append(s, NUL)
    BY CharFacts, SuffixAppend DEF more
  <2> HIDE DEF s, t
  <2>4. CString(Append(s, NUL)) = CString(s)
    BY <2>1, CStringOfTerminated
  <2> QED
    BY <2>3, <2>4 DEF s, t, e
<1>5. /\ a \in Seq(Seq(Char)) /\ Len(a) = Len(starts)
      /\ \A i \in 1 .. Len(starts) : a[i] = CString(SubSeq(more, starts[i] + 1, Len(more)))
  BY <1>1, <1>3, ArgsOfType
<1>6. /\ c \in Seq(Seq(Char)) /\ Len(c) = Len(starts) + 1
      /\ \A i \in 1 .. Len(starts) + 1 : c[i] = CString(SubSeq(more, longer[i] + 1, Len(more)))
  BY <1>1, <1>2, ArgsOfType
<1>7. e \in Seq(Char)
  BY SuffixType, CStringType
<1> HIDE DEF a, c, e
<1>8. \A i \in 1 .. Len(starts) : c[i] = a[i]
  <2> TAKE i \in 1 .. Len(starts)
  <2>1. i \in 1 .. Len(starts) + 1 /\ longer[i] = starts[i]
    BY <1>2
  <2> QED
    BY <1>5, <1>6, <2>1
<1>9. c[Len(starts) + 1] = e
  <2>1. Len(starts) + 1 \in 1 .. Len(starts) + 1
    BY <1>2
  <2> QED
    BY <1>2, <1>4, <1>6, <2>1
<1>10. c = Append(a, e)
  BY <1>5, <1>6, <1>7, <1>8, <1>9, IsAppended
<1> QED
  BY <1>10 DEF a, c, e, more, longer

(***************************************************************************)
(* The inductive invariant of the delivery of words.  The reader and the   *)
(* scan agree, character by character, on the words that have ended, on    *)
(* the word being read and on the open quote.  While a command runs, what  *)
(* Resume will make of the buffer is what has to agree, and resume tells   *)
(* which of the three continuations it is.                                 *)
(***************************************************************************)
OpenQuote == IF insingle THEN SQ ELSE IF indouble THEN DQ ELSE "plain"

QuotesAgree ==
  /\ ~(insingle /\ indouble)
  /\ quoted => wasquoted /\ ~opt.zflag

(* Every argument stored is terminated before the one being read. *)
Ended == \A i \in DOMAIN xp : \E j \in xp[i] + 1 .. argp : buf[j] = NUL

NoEof(words) ==
  opt.eofstr # <<>> => \A i \in DOMAIN words : ~StartsLike(words[i].text, opt.eofstr)

Follows(s, cur) ==
  s.cur = cur /\ s.real = wasquoted /\ s.mode = OpenQuote /\ QuotesAgree /\ NoEof(s.words)

Parsing(s) ==
  Delivered \o ArgsOf(buf, xp) = CStrings(s.words) /\ Follows(s, token) /\ Ended

Overflowing(s) ==
  Delivered = CStrings(s.words) /\ Follows(s, Append(token, resume.ch))

Limited(s) ==
  /\ Delivered = CStrings(s.words)
  /\ s.cur = <<>> /\ ~s.real /\ s.mode = "plain" /\ ~quoted /\ NoEof(s.words)

Given(words) == IF LoneEmptyWord THEN Front(words) ELSE words

Finished(words) ==
  IF opt.eofstr = <<>> THEN Delivered = CStrings(Given(words))
  ELSE /\ IsPrefix(Delivered, CStrings(words))
       /\ \A i \in DOMAIN Delivered : ~StartsLike(words[i].text, opt.eofstr)

WordsAt(s) ==
  /\ pc = "parse" => Parsing(s)
  /\ pc = "run" /\ resume.kind = "overflow" => Overflowing(s)
  /\ pc = "run" /\ resume.kind = "limit" => Limited(s)
  /\ pc = "run" /\ resume.kind = "last" =>
       (opt.eofstr = <<>> => buf # <<>>) /\ Finished(EndWord(s).words)
  /\ pc = "drain" => Finished(EndWord(s).words)

WordsInv ==
  ~overlapped /\ ~opt.Iflag => \E s \in ScanType : s = Scan(read) /\ WordsAt(s)

(* The invariant says what the property says. *)
LEMMA WordsInvSuffices == WordsInv => AllWordsDelivered
<1> SUFFICES ASSUME WordsInv, pc = "drain", ~overlapped, ~opt.Iflag
             PROVE  LET words == Words(read)
                        given == IF LoneEmptyWord THEN Front(words) ELSE words
                    IN  \/ opt.eofstr = <<>> /\ Delivered = CStrings(given)
                        \/ /\ opt.eofstr # <<>>
                           /\ IsPrefix(Delivered, CStrings(words))
                           /\ \A i \in DOMAIN Delivered : ~StartsLike(words[i].text, opt.eofstr)
  BY DEF AllWordsDelivered
<1>1. Finished(Words(read))
  BY DEF WordsInv, WordsAt, Words
<1> QED
  BY <1>1 DEF Finished, Given

(* What is known of the state in each step. *)
LEMMA StoreFacts ==
  ASSUME IInv
  PROVE  /\ buf \in Seq(Char) /\ Len(buf) \in Nat /\ argp \in Nat /\ argp <= Len(buf)
         /\ xp \in Seq(Nat) /\ Len(xp) \in Nat /\ DOMAIN xp = 1 .. Len(xp)
         /\ token \in Seq(Char) /\ Len(token) = Len(buf) - argp
         /\ cmds \in Seq(CommandType) /\ Delivered \in Seq(Seq(Char))
         /\ read \in Seq(Char) /\ opt.zflag \in BOOLEAN
         /\ insingle \in BOOLEAN /\ indouble \in BOOLEAN /\ wasquoted \in BOOLEAN
         /\ inpline \in Seq(Char) \cup {NULL}
<1>1. /\ buf \in Seq(Char) /\ Len(buf) \in Nat /\ argp \in Nat /\ argp <= Len(buf)
      /\ xp \in Seq(Nat) /\ Len(xp) \in Nat /\ DOMAIN xp = 1 .. Len(xp)
      /\ read \in Seq(Char)
  BY LenProperties DEF IInv, TypeOK, StoreInv
<1>2. token \in Seq(Char) /\ Len(token) = Len(buf) - argp
  BY <1>1, SuffixType DEF token
<1>3. cmds \in Seq(CommandType)
  BY DEF IInv, TypeOK, CommandType
<1>4. Delivered \in Seq(Seq(Char))
  <2>1. ArgumentsOf(cmds) \in Seq(Seq(Char))
    <3>1. CommandType # {}
      <4>1. [args |-> <<>>, line |-> NULL] \in CommandType
        BY DEF CommandType
      <4> QED
        BY <4>1
    <3> QED
      BY <1>3, <3>1, ArgumentsAppend
  <2> QED
    BY <2>1 DEF Delivered, ArgumentsOf
<1>5. opt.zflag \in BOOLEAN
  BY SettingFacts DEF IInv, SettingType
<1>6. /\ insingle \in BOOLEAN /\ indouble \in BOOLEAN /\ wasquoted \in BOOLEAN
      /\ inpline \in Seq(Char) \cup {NULL}
  BY Zenon DEF IInv, TypeOK
<1> QED
  BY <1>1, <1>2, <1>3, <1>4, <1>5, <1>6

(* A command more delivers its arguments. *)
LEMMA PrerunDelivers ==
  ASSUME IInv, ~opt.Iflag, NEW b \in Seq(Char), NEW starts \in Seq(Nat),
         NEW line \in Seq(Char) \cup {NULL}, NEW after, Prerun(b, starts, line, after)
  PROVE  Delivered' = Delivered \o ArgsOf(b, starts)
<1>1. Command(b, starts, line) \in CommandType
      /\ Command(b, starts, line).args = ArgsOf(b, starts)
  BY CommandIsTyped DEF Command, ArgsOf
<1>2. ArgumentsOf(Append(cmds, Command(b, starts, line)))
      = ArgumentsOf(cmds) \o ArgsOf(b, starts)
  BY <1>1, StoreFacts, ArgumentsAppend
<1>3. cmds' = Append(cmds, Command(b, starts, line))
  BY DEF Prerun
<1> QED
  BY <1>2, <1>3 DEF Delivered, ArgumentsOf

(* The arguments end inside the buffer. *)
LEMMA TerminatedInBuffer ==
  ASSUME IInv, Ended
  PROVE  \A i \in DOMAIN xp : \E j \in xp[i] + 1 .. Len(buf) : buf[j] = NUL
<1> SUFFICES ASSUME NEW i \in DOMAIN xp PROVE \E j \in xp[i] + 1 .. Len(buf) : buf[j] = NUL
  OBVIOUS
<1>1. PICK j \in xp[i] + 1 .. argp : buf[j] = NUL
  BY DEF Ended
<1>2. xp[i] \in Nat /\ argp \in Nat /\ Len(buf) \in Nat /\ argp <= Len(buf)
  BY StoreFacts
<1> QED
  BY <1>1, <1>2

(* The open quote is told by two variables. *)
LEMMA OpenQuoteKept == UNCHANGED <<insingle, indouble>> => OpenQuote' = OpenQuote
BY DEF OpenQuote

(* The end-of-file string is a setting. *)
LEMMA NoEofKept ==
  \A words : UNCHANGED opt => (NoEof(words)' <=> NoEof(words))
BY DEF NoEof

(* A character more belongs to the argument that is being read. *)
LEMMA CharacterStored ==
  ASSUME IInv, Ended, QuotesAgree, NEW ch \in Char, buf' = Append(buf, ch),
         UNCHANGED <<opt, argp, xp, quotes>>
  PROVE  /\ ArgsOf(buf, xp)' = ArgsOf(buf, xp) /\ token' = Append(token, ch)
         /\ Ended' /\ OpenQuote' = OpenQuote /\ QuotesAgree'
<1>1. xp' = xp /\ argp' = argp /\ opt' = opt
      /\ insingle' = insingle /\ indouble' = indouble /\ wasquoted' = wasquoted
  BY DEF quotes
<1>2. ArgsOf(buf, xp)' = ArgsOf(buf, xp)
  <2>1. ArgsOf(Append(buf, ch), xp) = ArgsOf(buf, xp)
    BY StoreFacts, TerminatedInBuffer, ArgsOfLonger
  <2> QED
    BY <1>1, <2>1 DEF ArgsOf
<1>3. token' = Append(token, ch)
  <2>1. SubSeq(Append(buf, ch), argp + 1, Len(Append(buf, ch))) = Append(SubSeq(buf, argp + 1, Len(buf)), ch)
    <3>1. buf \in Seq(Char) /\ argp \in Nat /\ argp <= Len(buf)
      BY StoreFacts
    <3> QED
      BY <3>1, SuffixAppend
  <2> QED
    BY <1>1, <2>1 DEF token
<1>4. Ended'
  <2> SUFFICES ASSUME NEW i \in DOMAIN xp PROVE \E j \in xp[i] + 1 .. argp : buf'[j] = NUL
    BY <1>1 DEF Ended
  <2>1. PICK j \in xp[i] + 1 .. argp : buf[j] = NUL
    BY DEF Ended
  <2>2. j \in 1 .. Len(buf)
    BY <2>1, StoreFacts
  <2>3. buf'[j] = buf[j]
    BY <2>2, StoreFacts, AppendProperties
  <2> QED
    BY <2>1, <2>3
<1>5. OpenQuote' = OpenQuote
  BY <1>1, OpenQuoteKept
<1>6. QuotesAgree'
  BY <1>1 DEF QuotesAgree, quoted
<1> QED
  BY <1>2, <1>3, <1>4, <1>5, <1>6

(* The code at addch, when the scan keeps the character. *)
LEMMA AddCharacterAgrees ==
  ASSUME IInv, ~overlapped, ~opt.Iflag, pc = "parse",
         NEW s \in ScanType, Parsing(s), NEW ch \in Char, AddCharacter(ch),
         NEW t \in ScanType, t.words = s.words, t.cur = Append(s.cur, ch),
         t.real = s.real, t.mode = s.mode
  PROVE  WordsAt(t)'
<1>0. s.cur = token /\ s.real = wasquoted /\ s.mode = OpenQuote /\ QuotesAgree /\ NoEof(s.words)
      /\ Ended /\ Delivered \o ArgsOf(buf, xp) = CStrings(s.words)
  BY DEF Parsing, Follows
<1>1. CASE /\ Len(buf) < ebp
           /\ buf' = Append(buf, ch)
           /\ UNCHANGED <<opt, argp, xp, quotes, pending, control, overlapped>>
  <2>1. pc' = "parse" /\ cmds' = cmds /\ xp' = xp /\ argp' = argp /\ opt' = opt
        /\ insingle' = insingle /\ indouble' = indouble /\ wasquoted' = wasquoted
    BY <1>1 DEF control, quotes
  <2>2. /\ ArgsOf(buf, xp)' = ArgsOf(buf, xp) /\ token' = Append(token, ch)
        /\ Ended' /\ OpenQuote' = OpenQuote /\ QuotesAgree'
    BY <1>0, <1>1, CharacterStored
  <2>5. Follows(t, token)'
    <3>1. NoEof(t.words)'
      BY <1>0, <2>1 DEF NoEof
    <3> QED
      BY <1>0, <2>1, <2>2, <3>1 DEF Follows
  <2>6. Delivered' = Delivered
    BY <2>1 DEF Delivered
  <2>7. Parsing(t)'
    BY <1>0, <2>2, <2>5, <2>6 DEF Parsing
  <2> QED
    BY <2>1, <2>7 DEF WordsAt
<1>2. CASE Fail
  BY <1>2 DEF Fail, WordsAt
<1>3. CASE /\ Len(buf) >= ebp
           /\ xp # <<>> /\ ~opt.xflag
           /\ Prerun(buf, xp, inpline, [kind |-> "overflow", ch |-> ch])
           /\ UNCHANGED <<opt, store, quotes, pending, overlapped>>
  <2>1. pc' = "run" /\ resume' = [kind |-> "overflow", ch |-> ch]
        /\ buf' = buf /\ argp' = argp /\ opt' = opt
        /\ insingle' = insingle /\ indouble' = indouble /\ wasquoted' = wasquoted
    BY <1>3 DEF Prerun, store, quotes
  <2>2. Delivered' = Delivered \o ArgsOf(buf, xp)
    BY <1>3, StoreFacts, PrerunDelivers
  <2>3. token' = token
    BY <2>1 DEF token
  <2>4. OpenQuote' = OpenQuote
    BY <2>1, OpenQuoteKept
  <2>5. QuotesAgree'
    BY <1>0, <2>1 DEF QuotesAgree, quoted
  <2>6. NoEof(t.words)'
    BY <1>0, <2>1 DEF NoEof
  <2>7. resume'.kind = "overflow" /\ resume'.ch = ch
    BY <2>1
  <2>8. Overflowing(t)'
    BY <1>0, <2>1, <2>2, <2>3, <2>4, <2>5, <2>6, <2>7 DEF Overflowing, Follows
  <2> QED
    BY <2>1, <2>7, <2>8 DEF WordsAt
<1> QED
  BY <1>1, <1>2, <1>3 DEF AddCharacter

(* An end of a word that changes no word: what the scan will end with. *)
LEMMA EndWordAgain ==
  ASSUME NEW t \in ScanType, t.cur = <<>>, ~t.real
  PROVE  EndWord(t) = t
BY DEF EndWord

(* What the reader has given when the last command has been issued. *)
LEMMA GivenAtLast ==
  ASSUME IInv, NEW s \in ScanType, NoEof(s.words),
         Delivered' = CStrings(s.words), opt' = opt
  PROVE  /\ s.cur = <<>> /\ ~s.real /\ buf' # <<>> => Finished(EndWord(s).words)'
         /\ opt.eofstr # <<>> => Finished(EndWord(s).words)'
<1> DEFINE w == [text |-> s.cur, line |-> s.line]
           all == EndWord(s).words
<1>1. s.words \in Seq(WordType) /\ w \in WordType
  BY DEF ScanType, WordType
<1>2. all = s.words \/ all = Append(s.words, w)
  BY EndWordType
<1>3. s.cur = <<>> /\ ~s.real => all = s.words
  BY EndWordAgain
<1> HIDE DEF all, w
<1>4. CStrings(s.words) \in Seq(Seq(Char)) /\ Len(CStrings(s.words)) = Len(s.words)
      /\ CStrings(Append(s.words, w)) = Append(CStrings(s.words), CString(w.text))
  BY <1>1, CStringsAppend
<1>5. CString(w.text) \in Seq(Char)
  BY <1>1, CStringType DEF WordType
<1>6. IsPrefix(CStrings(s.words), CStrings(all))
  BY <1>2, <1>4, <1>5, PrefixFacts
<1>7. \A i \in 1 .. Len(s.words) : all[i] = s.words[i]
  BY <1>1, <1>2, AppendProperties
<1>8. DOMAIN CStrings(s.words) = 1 .. Len(s.words) /\ DOMAIN s.words = 1 .. Len(s.words)
  BY <1>1, <1>4
<1>9. ASSUME opt.eofstr # <<>> PROVE Finished(all)'
  <2>1. \A i \in DOMAIN CStrings(s.words) : ~StartsLike(all[i].text, opt.eofstr)
    BY <1>7, <1>8, <1>9 DEF NoEof
  <2> QED
    BY <1>6, <1>9, <2>1 DEF Finished
<1>10. ASSUME s.cur = <<>>, ~s.real, buf' # <<>> PROVE Finished(all)'
  <2>1. CASE opt.eofstr # <<>>
    BY <1>9, <2>1
  <2>2. CASE opt.eofstr = <<>>
    <3>1. Given(all)' = all
      BY <1>10 DEF Given, LoneEmptyWord
    <3> QED
      BY <1>3, <1>10, <2>2, <3>1 DEF Finished
  <2> QED
    BY <2>1, <2>2
<1> QED
  BY <1>9, <1>10 DEF all

(* After the end of an argument the next one starts, with nothing in it. *)
LEMMA ArgumentEnded ==
  ASSUME IInv, Ended, NEW stored \in BOOLEAN,
         buf' = IF stored THEN Append(buf, NUL) ELSE buf,
         xp' = IF stored THEN Append(xp, argp) ELSE xp,
         argp' = Len(buf')
  PROVE  token' = <<>> /\ Ended'
<1> DEFINE b == buf'
           xs == xp'
<1>1. token' = <<>>
  <2>1. token' = SubSeq(b, Len(b) + 1, Len(b))
    BY DEF token
  <2>2. b \in Seq(Char)
    BY StoreFacts, CharFacts, AppendType
  <2>3. Len(b) \in Nat
    BY <2>2
  <2> QED
    BY <2>1, <2>3, SubSeqEmpty
<1>2. Ended'
  <2> SUFFICES ASSUME NEW i \in DOMAIN xs PROVE \E j \in xs[i] + 1 .. Len(b) : b[j] = NUL
    BY DEF Ended
  <2>1. CASE ~stored
    <3>1. b = buf /\ xs = xp
      BY <2>1
    <3> QED
      BY <3>1, TerminatedInBuffer
  <2>2. CASE stored
    <3>1. b = Append(buf, NUL) /\ xs = Append(xp, argp)
      BY <2>2
    <3> HIDE DEF b, xs
    <3>2. Len(b) = Len(buf) + 1 /\ b[Len(buf) + 1] = NUL
          /\ \A j \in 1 .. Len(buf) : b[j] = buf[j]
      BY <3>1, StoreFacts, CharFacts, AppendProperties
    <3>3. i \in 1 .. Len(xp) \/ i = Len(xp) + 1
      <4>1. Len(Append(xp, argp)) = Len(xp) + 1 /\ DOMAIN Append(xp, argp) = 1 .. Len(xp) + 1
        BY StoreFacts, AppendProperties
      <4>2. i \in 1 .. Len(xp) + 1 /\ Len(xp) \in Nat
        BY <3>1, <4>1, StoreFacts
      <4> QED
        BY <4>2
    <3>4. CASE i \in 1 .. Len(xp)
      <4>1. xs[i] = xp[i] /\ i \in DOMAIN xp /\ xp[i] \in Nat
        BY <3>1, <3>4, StoreFacts
      <4>2. PICK j \in xp[i] + 1 .. Len(buf) : buf[j] = NUL
        BY <4>1, TerminatedInBuffer
      <4>3. j \in 1 .. Len(buf) /\ j \in xs[i] + 1 .. Len(b)
        BY <3>2, <4>1, <4>2, StoreFacts
      <4> QED
        BY <3>2, <4>2, <4>3
    <3>5. CASE i = Len(xp) + 1
      <4>1. xs[i] = argp
        BY <3>1, <3>5, StoreFacts
      <4>2. Len(buf) + 1 \in xs[i] + 1 .. Len(b)
        BY <3>2, <4>1, StoreFacts
      <4> QED
        BY <3>2, <4>2
    <3> QED
      BY <3>3, <3>4, <3>5
  <2> QED
    BY <2>1, <2>2
<1> QED
  BY <1>1, <1>2

(* The code at arg2, when the scan ends the word. *)
LEMMA EndArgumentAgrees ==
  ASSUME IInv, ~overlapped, ~opt.Iflag, pc = "parse",
         NEW s \in ScanType, Parsing(s), opt.zflag \/ ~quoted,
         NEW atEof \in BOOLEAN, NEW lines \in Nat, EndArgument(atEof, lines),
         atEof => buf # <<>>,
         NEW t \in ScanType,
         IF atEof THEN t = s
         ELSE t.words = EndWord(s).words /\ t.cur = <<>> /\ ~t.real /\ t.mode = s.mode
  PROVE  WordsAt(t)'
<1> DEFINE stored == (token # <<>> \/ wasquoted) /\ ~FoundEof
           b  == IF stored THEN Append(buf, NUL) ELSE buf
           xs == IF stored THEN Append(xp, argp) ELSE xp
           ln == IF stored /\ opt.Iflag THEN JoinLine(inpline, CString(token))
                                        ELSE inpline
           last == atEof \/ FoundEof
           after == [kind |-> IF last THEN "last" ELSE "limit"]
           w == [text |-> s.cur, line |-> s.line]
<1>0. s.cur = token /\ s.real = wasquoted /\ s.mode = OpenQuote /\ QuotesAgree /\ NoEof(s.words)
      /\ Ended /\ Delivered \o ArgsOf(buf, xp) = CStrings(s.words)
  BY DEF Parsing, Follows
<1>1. /\ buf' = b /\ xp' = xs /\ inpline' = ln /\ opt' = opt
      /\ insingle' = insingle /\ indouble' = indouble
      /\ \/ pc' = "exit"
         \/ Prerun(b, xs, ln, after) /\ argp' = argp /\ wasquoted' = wasquoted
         \/ /\ ~last /\ argp' = Len(b) /\ wasquoted' = FALSE
            /\ pc' = pc /\ cmds' = cmds
  BY DEF EndArgument, control
<1>2. ~quoted /\ OpenQuote = "plain" /\ s.mode = "plain"
  BY <1>0 DEF QuotesAgree, OpenQuote, quoted
<1>3. b \in Seq(Char) /\ xs \in Seq(Nat) /\ ln \in Seq(Char) \cup {NULL}
  BY StoreFacts, CharFacts, AppendType
<1>4. ArgsOf(b, xs) = IF stored THEN Append(ArgsOf(buf, xp), CString(token)) ELSE ArgsOf(buf, xp)
  BY <1>0, StoreFacts, TerminatedInBuffer, ArgsOfStored DEF token
<1>5. ArgsOf(buf, xp) \in Seq(Seq(Char)) /\ CString(token) \in Seq(Char)
  BY StoreFacts, ArgsOfType, CStringType
<1>6. EndWord(s).words = IF token = <<>> /\ ~wasquoted THEN s.words ELSE Append(s.words, w)
  BY <1>0, EndWordType
<1>7. w \in WordType /\ s.words \in Seq(WordType) /\ w.text = token
  BY <1>0 DEF ScanType, WordType
<1>8. stored => Delivered \o ArgsOf(b, xs) = CStrings(EndWord(s).words)
  <2>1. Delivered \o Append(ArgsOf(buf, xp), CString(token))
        = Append(Delivered \o ArgsOf(buf, xp), CString(token))
    <3>1. Delivered \in Seq(Seq(Char))
      BY StoreFacts
    <3>2. \A f, a \in Seq(Seq(Char)), e \in Seq(Char) : f \o Append(a, e) = Append(f \o a, e)
      BY ConcatAppend
    <3> QED
      BY <1>5, <3>1, <3>2, Zenon
  <2>2. CStrings(Append(s.words, w)) = Append(CStrings(s.words), CString(token))
    BY <1>7, CStringsAppend
  <2> QED
    BY <1>0, <1>4, <1>6, <2>1, <2>2
<1>9. ~stored => Delivered \o ArgsOf(b, xs) = CStrings(s.words)
  BY <1>0, <1>4
<1>10. ~FoundEof => Delivered \o ArgsOf(b, xs) = CStrings(EndWord(s).words)
  BY <1>6, <1>8, <1>9
<1>11. NoEof(EndWord(s).words) \/ FoundEof
  <2> SUFFICES ASSUME ~FoundEof, opt.eofstr # <<>>, NEW i \in DOMAIN EndWord(s).words
               PROVE  ~StartsLike(EndWord(s).words[i].text, opt.eofstr)
    BY DEF NoEof
  <2>1. ~StartsLike(token, opt.eofstr)
    BY DEF FoundEof
  <2>2. CASE token = <<>> /\ ~wasquoted
    BY <1>0, <1>6, <2>2 DEF NoEof
  <2>3. CASE ~(token = <<>> /\ ~wasquoted)
    <3>1. EndWord(s).words = Append(s.words, w)
      BY <1>6, <2>3
    <3>2. i \in 1 .. Len(s.words) \/ i = Len(s.words) + 1
      BY <1>7, <3>1
    <3>3. CASE i \in 1 .. Len(s.words)
      <4>1. EndWord(s).words[i] = s.words[i] /\ i \in DOMAIN s.words
        BY <1>7, <3>1, <3>3
      <4> QED
        BY <1>0, <4>1 DEF NoEof
    <3>4. CASE i = Len(s.words) + 1
      <4>1. EndWord(s).words[i] = w
        BY <1>7, <3>1, <3>4
      <4> QED
        BY <1>7, <2>1, <4>1
    <3> QED
      BY <3>2, <3>3, <3>4
  <2> QED
    BY <2>2, <2>3
<1> HIDE DEF stored, b, xs, ln, w
<1>12. CASE Prerun(b, xs, ln, after) /\ argp' = argp /\ wasquoted' = wasquoted
  <2>1. Delivered' = Delivered \o ArgsOf(b, xs)
    BY <1>3, <1>12, PrerunDelivers
  <2>2. pc' = "run" /\ resume'.kind = IF last THEN "last" ELSE "limit"
    BY <1>12 DEF Prerun
  <2>3. CASE ~last
    <3>1. t.words = EndWord(s).words /\ t.cur = <<>> /\ ~t.real /\ t.mode = "plain"
      BY <1>2, <2>3
    <3>2. ~quoted'
      BY <1>1, <1>2 DEF quoted
    <3>3. NoEof(t.words)'
      BY <1>1, <1>11, <2>3, <3>1 DEF NoEof
    <3>4. Limited(t)'
      BY <1>10, <2>1, <2>3, <3>1, <3>2, <3>3 DEF Limited
    <3> QED
      BY <2>2, <2>3, <3>4 DEF WordsAt
  <2>4. CASE last
    <3>1. EndWord(t).words = EndWord(s).words
      BY EndWordAgain
    <3>2. opt.eofstr = <<>> => atEof /\ ~FoundEof
      BY <2>4 DEF FoundEof
    <3>3. opt.eofstr = <<>> => buf' # <<>>
      <4>1. Append(buf, NUL) # <<>>
        BY StoreFacts, CharFacts, AppendIsNotEmpty
      <4>2. atEof => b # <<>>
        BY <4>1 DEF b
      <4> QED
        BY <1>1, <3>2, <4>2
    <3>4. Finished(EndWord(s).words)'
      <4>1. CASE FoundEof
        <5>1. opt.eofstr # <<>> /\ ~stored
          BY <4>1 DEF FoundEof, stored
        <5>2. Delivered' = CStrings(s.words)
          BY <1>9, <2>1, <5>1
        <5> QED
          BY <1>0, <1>1, <5>1, <5>2, GivenAtLast
      <4>2. CASE ~FoundEof
        <5> DEFINE u == EndWord(s)
        <5>1. u \in ScanType /\ u.cur = <<>> /\ ~u.real
          BY EndWordType
        <5>2. NoEof(u.words) /\ Delivered' = CStrings(u.words)
          BY <1>10, <1>11, <2>1, <4>2
        <5>3. EndWord(u) = u
          BY <5>1, EndWordAgain
        <5> HIDE DEF u
        <5>4. Finished(EndWord(u).words)'
          BY <1>1, <3>3, <5>1, <5>2, GivenAtLast
        <5> QED
          BY <5>3, <5>4 DEF u
      <4> QED
        BY <4>1, <4>2
    <3>5. Finished(EndWord(t).words)'
      BY <3>1, <3>4 DEF Finished
    <3>6. opt' = opt
      BY <1>1
    <3> QED
      BY <2>2, <2>4, <3>3, <3>5, <3>6 DEF WordsAt
  <2> QED
    BY <2>3, <2>4
<1>13. CASE ~last /\ argp' = Len(b) /\ wasquoted' = FALSE /\ pc' = pc /\ cmds' = cmds
  <2>1. t.words = EndWord(s).words /\ t.cur = <<>> /\ ~t.real /\ t.mode = "plain" /\ ~FoundEof
    BY <1>2, <1>13
  <2>2. Delivered' = Delivered
    BY <1>13 DEF Delivered
  <2>3. ArgsOf(buf, xp)' = ArgsOf(b, xs)
    BY <1>1 DEF ArgsOf
  <2>4. token' = <<>> /\ Ended'
    <3>1. stored \in BOOLEAN
      BY DEF stored
    <3> QED
      BY <1>0, <1>1, <1>13, <3>1, ArgumentEnded DEF b, xs
  <2>6. OpenQuote' = "plain" /\ QuotesAgree'
    BY <1>0, <1>1, <1>2, OpenQuoteKept DEF QuotesAgree, quoted
  <2>7. NoEof(t.words)'
    BY <1>1, <1>11, <2>1 DEF NoEof
  <2>9. t.real = FALSE
    BY <2>1 DEF ScanType
  <2>8. Parsing(t)'
    BY <1>10, <1>13, <2>9, <2>1, <2>2, <2>3, <2>4, <2>6, <2>7 DEF Parsing, Follows
  <2> QED
    BY <1>13, <2>8 DEF WordsAt
<1>14. CASE pc' = "exit"
  BY <1>14 DEF WordsAt
<1> QED
  BY <1>1, <1>12, <1>13, <1>14

(* The characters that parse_input() tells apart are different. *)
LEMMA CharsDiffer ==
  /\ \A ch \in Plain : ch \notin {NUL, SP, NL, SQ, DQ, BS}
  /\ "plain" \notin {SQ, DQ} /\ "esc" \notin {SQ, DQ} /\ SQ # DQ
  /\ NUL \notin {SP, NL, SQ, DQ, BS} /\ SP \notin {NL, SQ, DQ, BS}
  /\ NL \notin {SQ, DQ, BS} /\ BS \notin {SQ, DQ}
BY CharAssumption DEF Special, NUL, SP, NL, SQ, DQ, BS

(* The scan reads what the reader has read. *)
LEMMA ScanStep ==
  ASSUME IInv, UNCHANGED opt, NEW s \in ScanType, s = Scan(read),
         NEW ch \in Char, read' = Append(read, ch)
  PROVE  /\ ScanOne(opt.zflag, s, ch) \in ScanType
         /\ ScanOne(opt.zflag, s, ch) = Scan(read)'
<1>1. ScanOf(opt.zflag, Append(read, ch)) = ScanOne(opt.zflag, ScanOf(opt.zflag, read), ch)
  BY StoreFacts, ScanAppend
<1>2. ScanOne(opt.zflag, s, ch) \in ScanType
  BY StoreFacts, ScanOneType
<1> QED
  BY <1>1, <1>2 DEF Scan

(* When the scan keeps a character, as the reader does. *)
Kept(ch) ==
  IF opt.zflag THEN ch # NUL
  ELSE \/ ch \in Plain \cup {NUL}
       \/ quoted /\ ch \in {SP, BS}
       \/ insingle /\ ch = DQ
       \/ indouble /\ ch = SQ

(* Then the scan keeps it too. *)
LEMMA ScanKeeps ==
  ASSUME IInv, NEW s \in ScanType, s.mode = OpenQuote, QuotesAgree,
         NEW ch \in Char, Kept(ch)
  PROVE  LET t == ScanOne(opt.zflag, s, ch)
         IN  /\ t.words = s.words /\ t.cur = Append(s.cur, ch)
             /\ t.real = s.real /\ t.mode = s.mode /\ t.line = s.line
<1>1. s.mode \in {"plain", SQ, DQ} /\ "esc" \notin {"plain", SQ, DQ}
  BY CharsDiffer DEF OpenQuote
<1>2. ScanOne(opt.zflag, s, ch) = Keep(s, ch)
  <2>1. CASE opt.zflag
    BY <2>1 DEF Kept, ScanOne, ScanNulls
  <2>2. CASE ~opt.zflag /\ ~quoted
    <3>1. s.mode = "plain" /\ ch \notin {SP, NL, BS, SQ, DQ}
      BY <2>2, CharsDiffer DEF Kept, OpenQuote, quoted
    <3> QED
      BY <2>2, <3>1, CharsDiffer DEF ScanOne, ScanPlain
  <2>3. CASE ~opt.zflag /\ quoted
    <3>1. s.mode \in {SQ, DQ} /\ s.mode # "plain" /\ ch # s.mode
      BY <2>3, CharsDiffer DEF Kept, OpenQuote, quoted, QuotesAgree
    <3> QED
      BY <2>3, <3>1 DEF ScanOne, ScanPlain
  <2> QED
    BY <2>1, <2>2, <2>3
<1> QED
  BY <1>1, <1>2, KeepType

(* A step that reads a character and keeps it. *)
LEMMA KeepAgrees ==
  ASSUME IInv, WordsInv, NEW ch \in Char, GetChar(ch), Kept(ch), AddCharacter(ch)
  PROVE  WordsInv'
<1>1. UNCHANGED <<opt, overlapped>>
  BY DEF AddCharacter, Fail, control
<1> SUFFICES ASSUME ~overlapped, ~opt.Iflag
             PROVE  \E t \in ScanType : t = Scan(read)' /\ WordsAt(t)'
  BY <1>1 DEF WordsInv
<1>2. PICK s \in ScanType : s = Scan(read) /\ WordsAt(s)
  BY DEF WordsInv
<1> DEFINE t == ScanOne(opt.zflag, s, ch)
<1>3. pc = "parse" /\ read' = Append(read, ch)
  BY DEF GetChar
<1>4. t \in ScanType /\ t = Scan(read)'
  BY <1>1, <1>2, <1>3, ScanStep
<1>5. Parsing(s)
  BY <1>2, <1>3 DEF WordsAt
<1>6. t.words = s.words /\ t.cur = Append(s.cur, ch) /\ t.real = s.real /\ t.mode = s.mode
  BY <1>5, ScanKeeps DEF Parsing, Follows
<1> HIDE DEF t
<1>7. \A x \in ScanType : x = t => WordsAt(x)'
  BY <1>3, <1>5, <1>6, AddCharacterAgrees
<1> QED
  BY <1>4, <1>7

(* When the scan ends a word, as the reader does. *)
LEMMA EndedByScan ==
  ASSUME NEW s \in ScanType, s.mode = OpenQuote, opt.zflag \in BOOLEAN, NEW ch,
         IF opt.zflag THEN ch = NUL ELSE ~quoted /\ ch \in {SP, NL}
  PROVE  LET t == ScanOne(opt.zflag, s, ch)
         IN  /\ t.words = EndWord(s).words /\ t.cur = <<>> /\ ~t.real /\ t.mode = s.mode
             /\ t.line = IF ch = SP THEN s.line ELSE s.line + 1
<1> DEFINE t == ScanOne(opt.zflag, s, ch)
<1> SUFFICES /\ t.words = EndWord(s).words /\ t.cur = <<>> /\ ~t.real /\ t.mode = s.mode
             /\ t.line = IF ch = SP THEN s.line ELSE s.line + 1
  OBVIOUS
<1>1. t = IF ch = SP THEN EndWord(s) ELSE NextLine(EndWord(s))
  <2>1. CASE opt.zflag
    BY <2>1, CharsDiffer DEF ScanOne, ScanNulls
  <2>2. CASE ~opt.zflag
    <3>1. s.mode = "plain"
      BY <2>2 DEF OpenQuote, quoted
    <3> QED
      BY <2>2, <3>1, CharsDiffer DEF ScanOne, ScanPlain
  <2> QED
    BY <2>1, <2>2
<1> DEFINE u == EndWord(s)
<1>2. u \in ScanType /\ u.cur = <<>> /\ ~u.real /\ u.mode = s.mode /\ u.line = s.line
  BY EndWordType
<1>3. t = IF ch = SP THEN u ELSE NextLine(u)
  BY <1>1
<1> HIDE DEF t, u
<1>4. /\ NextLine(u).words = u.words /\ NextLine(u).cur = u.cur
      /\ NextLine(u).real = u.real /\ NextLine(u).mode = u.mode
      /\ NextLine(u).line = u.line + 1
  BY <1>2, NextLineType
<1>5. /\ t.words = u.words /\ t.cur = <<>> /\ ~t.real /\ t.mode = s.mode
      /\ t.line = IF ch = SP THEN s.line ELSE s.line + 1
  BY <1>2, <1>3, <1>4
<1> QED
  BY <1>5 DEF u

(* A step that reads a character and ends the word. *)
LEMMA EndAgrees ==
  ASSUME IInv, WordsInv, NEW ch \in Char, GetChar(ch), NEW lines \in Nat,
         EndArgument(FALSE, lines),
         IF opt.zflag THEN ch = NUL ELSE ~quoted /\ ch \in {SP, NL}
  PROVE  WordsInv'
<1>1. UNCHANGED <<opt, overlapped>>
  BY DEF EndArgument
<1> SUFFICES ASSUME ~overlapped, ~opt.Iflag
             PROVE  \E t \in ScanType : t = Scan(read)' /\ WordsAt(t)'
  BY <1>1 DEF WordsInv
<1>2. PICK s \in ScanType : s = Scan(read) /\ WordsAt(s)
  BY DEF WordsInv
<1> DEFINE t == ScanOne(opt.zflag, s, ch)
<1>3. pc = "parse" /\ read' = Append(read, ch)
  BY DEF GetChar
<1>4. t \in ScanType /\ t = Scan(read)'
  BY <1>1, <1>2, <1>3, ScanStep
<1>5. Parsing(s)
  BY <1>2, <1>3 DEF WordsAt
<1>7. t.words = EndWord(s).words /\ t.cur = <<>> /\ ~t.real /\ t.mode = s.mode
  BY <1>5, StoreFacts, EndedByScan DEF Parsing, Follows
<1> HIDE DEF t
<1>8. \A x \in ScanType : x = t => WordsAt(x)'
  BY <1>3, <1>5, <1>7, EndArgumentAgrees
<1> QED
  BY <1>4, <1>8

(* The scan reads the backslash and the character it takes. *)
LEMMA ScanEscapes ==
  ASSUME IInv, ~opt.zflag, ~quoted, UNCHANGED opt, NEW ch \in Char,
         read' = read \o <<BS, ch>>, NEW s \in ScanType, s = Scan(read), s.mode = OpenQuote
  PROVE  \E t \in ScanType :
           /\ t = Scan(read)'
           /\ t.words = s.words /\ t.cur = Append(s.cur, ch)
           /\ t.real = s.real /\ t.mode = s.mode /\ t.line = s.line
<1> DEFINE e == ScanOne(opt.zflag, s, BS)
           t == ScanOne(opt.zflag, e, ch)
<1>1. s.mode = "plain" /\ BS \in Char
  BY CharFacts DEF OpenQuote, quoted
<1>2. e = [s EXCEPT !.mode = "esc"]
  BY <1>1, CharsDiffer DEF ScanOne, ScanPlain
<1>3. e \in ScanType
  BY <1>1, StoreFacts, ScanOneType
<1>4. e.words = s.words /\ e.cur = s.cur /\ e.real = s.real /\ e.mode = "esc"
      /\ e.line = s.line
  BY <1>2 DEF ScanType
<1> HIDE DEF e
<1>5. t \in ScanType
  BY <1>3, StoreFacts, ScanOneType
<1>6. t = Keep(e, ch)
  BY <1>4, CharsDiffer DEF ScanOne, ScanPlain
<1>7. t = Scan(read)'
  <2>1. Append(read, BS) \in Seq(Char) /\ read \o <<BS, ch>> = Append(Append(read, BS), ch)
    BY <1>1, StoreFacts, ConcatTwo
  <2>2. ScanOf(opt.zflag, Append(read, BS)) = e
    BY <1>1, StoreFacts, ScanAppend DEF Scan, e
  <2>3. ScanOf(opt.zflag, Append(Append(read, BS), ch)) = t
    BY <2>1, <2>2, StoreFacts, ScanAppend
  <2> QED
    BY <2>1, <2>3 DEF Scan
<1>8. /\ t.words = s.words /\ t.cur = Append(s.cur, ch)
      /\ t.real = s.real /\ t.mode = s.mode /\ t.line = s.line
  BY <1>1, <1>3, <1>4, <1>6, KeepType
<1> HIDE DEF t
<1> QED
  BY <1>5, <1>7, <1>8

(* The backslash and the character it takes. *)
LEMMA EscapeAgrees ==
  ASSUME IInv, WordsInv, pc = "parse", ~opt.zflag, ~quoted, NEW ch \in Char,
         read' = read \o <<BS, ch>>, AddCharacter(ch)
  PROVE  WordsInv'
<1>1. UNCHANGED <<opt, overlapped>>
  BY DEF AddCharacter, Fail, control
<1> SUFFICES ASSUME ~overlapped, ~opt.Iflag
             PROVE  \E t \in ScanType : t = Scan(read)' /\ WordsAt(t)'
  BY <1>1 DEF WordsInv
<1>2. PICK s \in ScanType : s = Scan(read) /\ WordsAt(s)
  BY DEF WordsInv
<1>3. Parsing(s)
  BY <1>2 DEF WordsAt
<1>4. PICK t \in ScanType :
        /\ t = Scan(read)'
        /\ t.words = s.words /\ t.cur = Append(s.cur, ch)
        /\ t.real = s.real /\ t.mode = s.mode
  BY <1>1, <1>2, <1>3, ScanEscapes DEF Parsing, Follows
<1>5. WordsAt(t)'
  BY <1>3, <1>4, AddCharacterAgrees
<1> QED
  BY <1>4, <1>5

(* A quote is opened or closed. *)
LEMMA QuoteAgrees ==
  ASSUME IInv, WordsInv, NEW q \in {SQ, DQ}, GetChar(q), ~opt.zflag,
         q = SQ => ~indouble /\ insingle' = ~insingle /\ indouble' = indouble,
         q = DQ => ~insingle /\ indouble' = ~indouble /\ insingle' = insingle,
         wasquoted' = TRUE, UNCHANGED <<opt, store, pending, control, overlapped>>
  PROVE  WordsInv'
<1> SUFFICES ASSUME ~overlapped, ~opt.Iflag
             PROVE  \E t \in ScanType : t = Scan(read)' /\ WordsAt(t)'
  BY DEF WordsInv
<1>1. PICK s \in ScanType : s = Scan(read) /\ WordsAt(s)
  BY DEF WordsInv
<1> DEFINE t == ScanOne(opt.zflag, s, q)
<1>2. pc = "parse" /\ read' = Append(read, q) /\ q \in Char
  BY CharFacts DEF GetChar
<1>3. t \in ScanType /\ t = Scan(read)'
  BY <1>1, <1>2, ScanStep
<1>4. Delivered \o ArgsOf(buf, xp) = CStrings(s.words) /\ Ended
      /\ s.cur = token /\ s.real = wasquoted /\ s.mode = OpenQuote /\ QuotesAgree /\ NoEof(s.words)
  BY <1>1, <1>2 DEF WordsAt, Parsing, Follows
<1>5. s.mode = IF quoted THEN q ELSE "plain"
  BY <1>4, CharsDiffer DEF OpenQuote, quoted
<1>6. t = IF quoted THEN [s EXCEPT !.mode = "plain"] ELSE [s EXCEPT !.mode = q, !.real = TRUE]
  BY <1>5, CharsDiffer DEF ScanOne, ScanPlain
<1>7. quoted => s.real = TRUE
  BY <1>4, StoreFacts DEF QuotesAgree
<1>8. t.words = s.words /\ t.cur = s.cur /\ t.real = TRUE /\ t.mode = IF quoted THEN "plain" ELSE q
  BY <1>6, <1>7 DEF ScanType
<1>9. OpenQuote' = t.mode /\ QuotesAgree'
  BY <1>4, <1>8, StoreFacts, CharsDiffer DEF OpenQuote, QuotesAgree, quoted
<1> HIDE DEF t
<1>10. Delivered' = Delivered /\ ArgsOf(buf, xp)' = ArgsOf(buf, xp) /\ token' = token /\ pc' = pc
  BY DEF Delivered, ArgsOf, token, store, control
<1>11. Ended'
  BY <1>4 DEF Ended, store
<1>13. \A x \in ScanType : x = t => WordsAt(x)'
  <2> TAKE x \in ScanType
  <2> HAVE x = t
  <2>1. NoEof(x.words)'
    BY <1>4, <1>8 DEF NoEof
  <2>2. Parsing(x)'
    BY <1>4, <1>8, <1>9, <1>10, <1>11, <2>1 DEF Parsing, Follows
  <2> QED
    BY <1>2, <1>10, <2>2 DEF WordsAt
<1> QED
  BY <1>3, <1>13

(* errx(): whatever was read, nothing more is promised. *)
LEMMA FailAgrees ==
  ASSUME IInv, Fail, read' \in Seq(Char)
  PROVE  WordsInv'
<1>1. pc' = "exit" /\ opt' = opt
  BY DEF Fail
<1>2. Scan(read)' \in ScanType
  <2>1. \E ch \in Char : TRUE
    BY CharFacts
  <2>2. ScanOf(opt.zflag, read') \in ScanType
    BY <2>1, StoreFacts, ScanAppend
  <2> QED
    BY <1>1, <2>2 DEF Scan
<1>3. \A s \in ScanType : WordsAt(s)'
  BY <1>1 DEF WordsAt
<1> QED
  BY <1>2, <1>3 DEF WordsInv

(* The end of the input, with nothing in the buffer. *)
LEMMA EofEmptyAgrees ==
  ASSUME IInv, WordsInv, EofEmpty
  PROVE  WordsInv'
<1>1. /\ pc = "parse" /\ buf = <<>> /\ pc' = "drain"
      /\ UNCHANGED <<opt, read, buf, xp, wasquoted, cmds, overlapped>>
  BY DEF EofEmpty, store, quotes
<1> SUFFICES ASSUME ~overlapped, ~opt.Iflag
             PROVE  \E s \in ScanType : s = Scan(read)' /\ WordsAt(s)'
  BY <1>1 DEF WordsInv
<1>2. PICK s \in ScanType : s = Scan(read) /\ WordsAt(s)
  BY DEF WordsInv
<1>3. Delivered \o ArgsOf(buf, xp) = CStrings(s.words) /\ Ended
      /\ s.cur = token /\ s.real = wasquoted /\ NoEof(s.words)
  BY <1>1, <1>2 DEF WordsAt, Parsing, Follows
<1>4. Len(buf) = 0 /\ argp = 0 /\ token = <<>>
  <2>1. Len(buf) = 0
    BY <1>1
  <2>2. argp = 0 /\ Len(token) = 0 /\ token \in Seq(Char)
    BY <2>1, StoreFacts
  <2> QED
    BY <2>1, <2>2
<1>5. xp = <<>>
  <2>1. \A i \in DOMAIN xp : xp[i] + 1 .. argp = {}
    BY <1>4, StoreFacts
  <2>2. DOMAIN xp = {}
    BY <1>3, <2>1 DEF Ended
  <2> QED
    BY <2>2, StoreFacts
<1>6. ArgsOf(buf, xp) = <<>>
  BY <1>5 DEF ArgsOf
<1>7. Delivered = CStrings(s.words) /\ Delivered \in Seq(Seq(Char))
  <2>1. \A f \in Seq(Seq(Char)) : f \o <<>> = f
    OBVIOUS
  <2> QED
    BY <1>3, <1>6, <2>1, StoreFacts
<1>8. Delivered' = Delivered
  BY <1>1 DEF Delivered
<1>9. LoneEmptyWord' = wasquoted
  BY <1>1, StoreFacts DEF LoneEmptyWord
<1> DEFINE w == [text |-> s.cur, line |-> s.line]
           all == EndWord(s).words
<1>10. all = IF wasquoted THEN Append(s.words, w) ELSE s.words
  BY <1>3, <1>4, EndWordType
<1>11. s.words \in Seq(WordType) /\ w \in WordType
  BY DEF ScanType, WordType
<1> HIDE DEF all, w
<1>12. Given(all)' = s.words
  <2>1. Front(Append(s.words, w)) = s.words
    BY <1>11, FrontOfAppend
  <2> QED
    BY <1>9, <1>10, <2>1 DEF Given
<1>13. Finished(all)'
  <2>1. CASE opt.eofstr = <<>>
    BY <1>1, <1>7, <1>8, <1>12, <2>1 DEF Finished
  <2>2. CASE opt.eofstr # <<>>
    <3>1. NoEof(s.words) /\ Delivered' = CStrings(s.words) /\ opt' = opt
      BY <1>1, <1>3, <1>7, <1>8
    <3> QED
      BY <2>2, <3>1, GivenAtLast DEF all
  <2> QED
    BY <2>1, <2>2
<1>14. WordsAt(s)'
  BY <1>1, <1>13 DEF WordsAt, all
<1>15. s = Scan(read)'
  BY <1>1, <1>2 DEF Scan
<1> QED
  BY <1>14, <1>15

(* The end of the input, with an argument to end. *)
LEMMA EofArgumentAgrees ==
  ASSUME IInv, WordsInv, EofArgument
  PROVE  WordsInv'
<1>1. pc = "parse" /\ buf # <<>> /\ ~quoted /\ EndArgument(TRUE, count) /\ read' = read
  BY DEF EofArgument
<1>2. UNCHANGED <<opt, overlapped>>
  BY <1>1 DEF EndArgument
<1> SUFFICES ASSUME ~overlapped, ~opt.Iflag
             PROVE  \E s \in ScanType : s = Scan(read)' /\ WordsAt(s)'
  BY <1>2 DEF WordsInv
<1>3. PICK s \in ScanType : s = Scan(read) /\ WordsAt(s)
  BY DEF WordsInv
<1>4. Parsing(s) /\ count \in Nat
  BY <1>1, <1>3 DEF WordsAt, IInv, TypeOK
<1>5. WordsAt(s)'
  BY <1>1, <1>4, EndArgumentAgrees
<1>6. s = Scan(read)'
  BY <1>1, <1>2, <1>3 DEF Scan
<1> QED
  BY <1>5, <1>6

(* The return from prerun(). *)
LEMMA ResumeAgrees ==
  ASSUME IInv, WordsInv, Resume
  PROVE  WordsInv'
<1>1. /\ pc = "run"
      /\ UNCHANGED <<opt, read, insingle, indouble, cmds>>
  BY DEF Resume
<1>2. overlapped => overlapped'
  BY DEF Resume
<1> SUFFICES ASSUME ~overlapped', ~opt.Iflag
             PROVE  \E s \in ScanType : s = Scan(read)' /\ WordsAt(s)'
  BY <1>1 DEF WordsInv
<1>3. PICK s \in ScanType : s = Scan(read) /\ WordsAt(s)
  BY <1>2 DEF WordsInv
<1>4. s = Scan(read)'
  BY <1>1, <1>3 DEF Scan
<1>5. Delivered' = Delivered
  BY <1>1 DEF Delivered
<1>6. CASE resume.kind = "last" /\ pc' = "drain"
           /\ UNCHANGED <<store, wasquoted, count, overlapped>>
  <2>1. Finished(EndWord(s).words)
    BY <1>1, <1>3, <1>6 DEF WordsAt
  <2>2. Finished(EndWord(s).words)'
    BY <1>1, <1>5, <1>6, <2>1 DEF Finished, Given, LoneEmptyWord, store
  <2>3. WordsAt(s)'
    BY <1>6, <2>2 DEF WordsAt
  <2> QED
    BY <1>4, <2>3
<1>7. CASE /\ resume.kind = "limit" /\ pc' = "parse"
           /\ buf' = <<>> /\ argp' = 0 /\ xp' = <<>>
           /\ wasquoted' = FALSE
  <2>1. Delivered = CStrings(s.words) /\ s.cur = <<>> /\ ~s.real /\ s.mode = "plain"
        /\ ~quoted /\ NoEof(s.words)
    BY <1>1, <1>3, <1>7 DEF WordsAt, Limited
  <2>2. s.real = FALSE
    BY <2>1 DEF ScanType
  <2>3. OpenQuote' = "plain" /\ QuotesAgree' /\ NoEof(s.words)'
    BY <1>1, <2>1 DEF OpenQuote, QuotesAgree, quoted, NoEof
  <2>4. token' = <<>>
    BY <1>7, SubSeqEmpty DEF token
  <2>5. ArgsOf(buf, xp)' = <<>> /\ Ended'
    BY <1>7 DEF ArgsOf, Ended
  <2>6. Delivered' \o <<>> = Delivered'
    BY <1>5, StoreFacts
  <2>7. Parsing(s)'
    BY <1>5, <1>7, <2>1, <2>2, <2>3, <2>4, <2>5, <2>6 DEF Parsing, Follows
  <2>8. WordsAt(s)'
    BY <1>7, <2>7 DEF WordsAt
  <2> QED
    BY <1>4, <2>8
<1>8. CASE /\ resume.kind = "overflow" /\ pc' = "parse"
           /\ CopyDown(ebp - argp, resume.ch) /\ argp' = 0 /\ xp' = <<>>
           /\ overlapped' = (overlapped \/ ebp - argp > argp)
           /\ wasquoted' = wasquoted
  <2>1. Delivered = CStrings(s.words) /\ s.cur = Append(token, resume.ch)
        /\ s.real = wasquoted /\ s.mode = OpenQuote /\ QuotesAgree /\ NoEof(s.words)
    BY <1>1, <1>3, <1>8 DEF WordsAt, Overflowing, Follows
  <2>2. OpenQuote' = OpenQuote
    BY <1>1, OpenQuoteKept
  <2>3. QuotesAgree' /\ NoEof(s.words)'
    BY <1>1, <1>8, <2>1 DEF QuotesAgree, quoted, NoEof
  <2>4. buf' = Append(token, resume.ch)
    <3>1. ebp = Len(buf) /\ ebp \in Nat
      BY <1>1, <1>8, SettingFacts DEF IInv, StoreInv
    <3>2. argp + (ebp - argp) = Len(buf)
      BY <3>1, StoreFacts
    <3>3. ~(ebp - argp > argp)
      BY <1>8
    <3>4. buf' = Append(SubSeq(buf, argp + 1, argp + (ebp - argp)), resume.ch)
      BY <1>8, <3>3 DEF CopyDown
    <3> QED
      BY <3>2, <3>4 DEF token
  <2>5. resume.ch \in Char
    BY <1>8 DEF IInv, TypeOK, ResumeType
  <2>6. buf' \in Seq(Char)
    BY <2>4, <2>5, StoreFacts
  <2>7. token' = buf'
    <3>1. SubSeq(buf', 1, Len(buf')) = buf'
      BY <2>6, SubSeqFull
    <3> QED
      BY <1>8, <3>1 DEF token
  <2>8. ArgsOf(buf, xp)' = <<>> /\ Ended'
    BY <1>8 DEF ArgsOf, Ended
  <2>9. Delivered' \o <<>> = Delivered'
    BY <1>5, StoreFacts
  <2>10. Parsing(s)'
    BY <1>5, <1>8, <2>1, <2>2, <2>3, <2>4, <2>7, <2>8, <2>9 DEF Parsing, Follows
  <2>11. WordsAt(s)'
    BY <1>8, <2>10 DEF WordsAt
  <2> QED
    BY <1>4, <2>11
<1> QED
  BY <1>6, <1>7, <1>8 DEF Resume

(* The steps of the reader. *)
LEMMA ParseAgrees == ASSUME IInv, WordsInv, Parse PROVE WordsInv'
<1>1. CASE EofEmpty
  BY <1>1, EofEmptyAgrees
<1>2. CASE EofArgument
  BY <1>2, EofArgumentAgrees
<1>3. CASE EofInQuotes
  BY <1>3, StoreFacts, FailAgrees DEF EofInQuotes
<1>4. CASE Blank
  <2>1. GetChar(SP) /\ SP \in Char /\ SP # NUL
    BY <1>4, CharFacts, CharsDiffer DEF Blank
  <2>2. CASE quoted \/ opt.zflag
    <3>1. AddCharacter(SP) /\ Kept(SP)
      BY <1>4, <2>1, <2>2 DEF Blank, Kept
    <3> QED
      BY <2>1, <3>1, KeepAgrees
  <2>3. CASE ~(quoted \/ opt.zflag)
    <3>1. EndArgument(FALSE, count) /\ count \in Nat
      BY <1>4, <2>3 DEF Blank, IInv, TypeOK
    <3> QED
      BY <2>1, <2>3, <3>1, EndAgrees
  <2> QED
    BY <2>2, <2>3
<1>5. CASE Nul
  <2>1. GetChar(NUL) /\ NUL \in Char
    BY <1>5, CharFacts DEF Nul
  <2>2. CASE opt.zflag
    <3>1. EndArgument(FALSE, count + 1)
      BY <1>5, <2>2 DEF Nul
    <3>2. count + 1 \in Nat
      BY DEF IInv, TypeOK
    <3> QED
      BY <2>1, <2>2, <3>1, <3>2, EndAgrees
  <2>3. CASE ~opt.zflag
    <3>1. AddCharacter(NUL) /\ Kept(NUL)
      BY <1>5, <2>3 DEF Nul, Kept
    <3> QED
      BY <2>1, <3>1, KeepAgrees
  <2> QED
    BY <2>2, <2>3
<1>6. CASE Newline
  <2>1. GetChar(NL) /\ NL \in Char /\ NL # NUL /\ read' \in Seq(Char)
    BY <1>6, CharFacts, CharsDiffer, StoreFacts, AppendType DEF Newline, GetChar
  <2>2. CASE opt.zflag /\ AddCharacter(NL)
    <3>1. Kept(NL)
      BY <2>1, <2>2 DEF Kept
    <3> QED
      BY <2>1, <2>2, <3>1, KeepAgrees
  <2>3. CASE Fail
    BY <2>1, <2>3, FailAgrees
  <2>4. CASE ~opt.zflag /\ ~quoted /\ EndArgument(FALSE, count + 1)
    <3>1. count + 1 \in Nat
      BY DEF IInv, TypeOK
    <3> QED
      BY <2>1, <2>4, <3>1, EndAgrees
  <2> QED
    BY <1>6, <2>2, <2>3, <2>4 DEF Newline
<1>7. CASE SingleQuote
  <2>1. GetChar(SQ) /\ SQ \in Char /\ SQ # NUL /\ SQ # DQ
    BY <1>7, CharFacts, CharsDiffer DEF SingleQuote
  <2>2. CASE (indouble \/ opt.zflag) /\ AddCharacter(SQ)
    <3>1. Kept(SQ)
      BY <2>1, <2>2 DEF Kept
    <3> QED
      BY <2>1, <2>2, <3>1, KeepAgrees
  <2>3. CASE /\ ~indouble /\ ~opt.zflag
             /\ insingle' = ~insingle /\ wasquoted' = TRUE
             /\ UNCHANGED <<opt, store, indouble, pending, control, overlapped>>
    BY <2>1, <2>3, QuoteAgrees
  <2> QED
    BY <1>7, <2>2, <2>3 DEF SingleQuote
<1>8. CASE DoubleQuote
  <2>1. GetChar(DQ) /\ DQ \in Char /\ DQ # NUL /\ SQ # DQ
    BY <1>8, CharFacts, CharsDiffer DEF DoubleQuote
  <2>2. CASE (insingle \/ opt.zflag) /\ AddCharacter(DQ)
    <3>1. Kept(DQ)
      BY <2>1, <2>2 DEF Kept
    <3> QED
      BY <2>1, <2>2, <3>1, KeepAgrees
  <2>3. CASE /\ ~insingle /\ ~opt.zflag
             /\ indouble' = ~indouble /\ wasquoted' = TRUE
             /\ UNCHANGED <<opt, store, insingle, pending, control, overlapped>>
    BY <2>1, <2>3, QuoteAgrees
  <2> QED
    BY <1>8, <2>2, <2>3 DEF DoubleQuote
<1>9. CASE Backslash
  <2>1. GetChar(BS) /\ AddCharacter(BS) /\ BS \in Char /\ Kept(BS)
    BY <1>9, CharFacts, CharsDiffer DEF Backslash, Kept
  <2> QED
    BY <2>1, KeepAgrees
<1>10. CASE Escape
  <2>1. pc = "parse" /\ ~opt.zflag /\ ~quoted /\ BS \in Char
    BY <1>10, CharFacts DEF Escape
  <2>2. ASSUME NEW ch \in Char, read' = read \o <<BS, ch>>, AddCharacter(ch)
        PROVE  WordsInv'
    BY <2>1, <2>2, EscapeAgrees
  <2>3. ASSUME read' = Append(read, BS), Fail
        PROVE  WordsInv'
    <3>1. read' \in Seq(Char)
      BY <2>1, <2>3, StoreFacts, AppendType
    <3> QED
      BY <2>3, <3>1, FailAgrees
  <2> QED
    BY <1>10, <2>2, <2>3 DEF Escape
<1>11. CASE Ordinary
  <2>1. PICK ch \in Plain : GetChar(ch) /\ AddCharacter(ch)
    BY <1>11 DEF Ordinary
  <2>2. ch \in Char /\ Kept(ch)
    BY CharFacts, CharsDiffer DEF Kept
  <2> QED
    BY <2>1, <2>2, KeepAgrees
<1> QED
  BY <1>1, <1>2, <1>3, <1>4, <1>5, <1>6, <1>7, <1>8, <1>9, <1>10, <1>11 DEF Parse

(* The first state: nothing was read, and nothing was delivered. *)
LEMMA InitAgrees == Init => WordsInv
<1> SUFFICES ASSUME Init PROVE \E s \in ScanType : s = Scan(read) /\ WordsAt(s)
  BY DEF WordsInv
<1>0. IInv
  BY InitInv
<1>1. Scan(read) = EmptyScan /\ EmptyScan \in ScanType
  BY <1>0, StoreFacts, ScanEmpty, EmptyScanType DEF Init, Scan
<1>2. Delivered = <<>> /\ ArgsOf(buf, xp) = <<>> /\ <<>> \o <<>> = <<>>
  BY ArgumentsEmpty DEF Init, Delivered, ArgumentsOf, ArgsOf
<1>3. CStrings(EmptyScan.words) = <<>>
  BY DEF CStrings, EmptyScan
<1>4. token = <<>>
  BY SubSeqEmpty DEF Init, token
<1>5. NoEof(EmptyScan.words) /\ Ended /\ QuotesAgree /\ OpenQuote = "plain"
  BY DEF Init, NoEof, EmptyScan, Ended, QuotesAgree, OpenQuote, quoted
<1>6. wasquoted = FALSE /\ pc = "parse"
  BY DEF Init
<1>7. Parsing(EmptyScan)
  <2>1. EmptyScan.cur = <<>> /\ EmptyScan.real = FALSE /\ EmptyScan.mode = "plain"
    BY DEF EmptyScan
  <2> QED
    BY <1>2, <1>3, <1>4, <1>5, <1>6, <2>1 DEF Parsing, Follows
<1> QED
  BY <1>1, <1>6, <1>7 DEF WordsAt

(* Every step. *)
LEMMA NextAgrees == IInv /\ WordsInv /\ [Next]_vars => WordsInv'
<1> SUFFICES ASSUME IInv, WordsInv, [Next]_vars PROVE WordsInv'
  OBVIOUS
<1>1. CASE Parse
  BY <1>1, ParseAgrees
<1>2. CASE RunExits
  BY <1>2, StoreFacts, FailAgrees DEF RunExits
<1>3. CASE Resume
  BY <1>3, ResumeAgrees
<1>4. CASE UNCHANGED vars
  <2>1. UNCHANGED <<opt, read, buf, argp, xp, insingle, indouble, wasquoted, cmds, resume,
                    pc, overlapped>>
    BY <1>4 DEF vars, store, quotes, control
  <2> SUFFICES ASSUME NEW s \in ScanType, s = Scan(read), WordsAt(s)
               PROVE  s = Scan(read)' /\ WordsAt(s)'
    BY <2>1 DEF WordsInv
  <2>2. s = Scan(read)'
    BY <2>1 DEF Scan
  <2>3. Delivered' = Delivered /\ ArgsOf(buf, xp)' = ArgsOf(buf, xp) /\ token' = token
    BY <2>1 DEF Delivered, ArgsOf, token
  <2>4. OpenQuote' = OpenQuote /\ (QuotesAgree' <=> QuotesAgree) /\ (Ended' <=> Ended)
        /\ (NoEof(s.words)' <=> NoEof(s.words)) /\ (quoted' <=> quoted)
    BY <2>1 DEF OpenQuote, QuotesAgree, quoted, Ended, NoEof
  <2>5. Parsing(s) => Parsing(s)'
    BY <2>1, <2>3, <2>4 DEF Parsing, Follows
  <2>6. Overflowing(s) => Overflowing(s)'
    BY <2>1, <2>3, <2>4 DEF Overflowing, Follows
  <2>7. Limited(s) => Limited(s)'
    BY <2>3, <2>4 DEF Limited
  <2>8. Finished(EndWord(s).words) => Finished(EndWord(s).words)'
    BY <2>1, <2>3 DEF Finished, Given, LoneEmptyWord
  <2> QED
    BY <2>1, <2>2, <2>5, <2>6, <2>7, <2>8 DEF WordsAt
<1> QED
  BY <1>1, <1>2, <1>3, <1>4 DEF Next

(***************************************************************************)
(* At the end of the input every word has been in a command, in order, for *)
(* every input, every setting and every bound (with -E: what was given is  *)
(* a prefix, and does not hold the end-of-file string).                    *)
(***************************************************************************)
THEOREM EveryWordIsDelivered == Spec => []AllWordsDelivered
<1>1. Init => WordsInv
  BY InitAgrees
<1>2. IInv /\ WordsInv /\ [Next]_vars => WordsInv'
  BY NextAgrees
<1>3. WordsInv => AllWordsDelivered
  BY WordsInvSuffices
<1> QED
  BY <1>1, <1>2, <1>3, Invariance, PTL DEF Spec
-----------------------------------------------------------------------------
(***************************************************************************)
(* Part three: the limits.                                                 *)
(***************************************************************************)

(***************************************************************************)
(* The inductive invariant of the limits.  A command is full when it has   *)
(* -n arguments or when the word that follows it, whether it has ended or  *)
(* is still being read, would not have fitted: a word being read only gets *)
(* longer.  The bytes of the arguments that wait are what precedes argp.   *)
(***************************************************************************)
Mine(words, k) == SubSeq(words, Before(k - 1) + 1, Before(k))

Fits(words, k) == Len(Mine(words, k)) <= opt.nargs /\ Bytes(Mine(words, k)) <= opt.nline

FullBefore(words, k, next) ==
  Len(Mine(words, k)) = opt.nargs \/ Bytes(Mine(words, k)) + Len(next) + 1 > opt.nline

FollowingText(s, n) == IF n < Len(s.words) THEN s.words[n + 1].text ELSE s.cur

FullCommand(s, k) ==
  /\ Before(k) <= Len(s.words)
  /\ Fits(s.words, k)
  /\ FullBefore(s.words, k, FollowingText(s, Before(k)))

Room(s) == \A k \in DOMAIN cmds : FullCommand(s, k)

AllFull(s) ==
  LET all == EndWord(s).words
  IN  \A k \in DOMAIN cmds :
        /\ Fits(all, k)
        /\ Before(k) < Len(s.words) =>
             FullBefore(all, k, s.words[Before(k) + 1].text)

WaitingWords(s) == SubSeq(s.words, Len(Delivered) + 1, Len(s.words))

FullAt(s) ==
  /\ AllFull(s)
  /\ pc = "parse" => Room(s) /\ Bytes(WaitingWords(s)) = argp
  /\ pc = "run" /\ resume.kind # "last" => Room(s)

OnlyLimits == ~overlapped /\ ~opt.Iflag /\ opt.Lflag = 0 /\ opt.eofstr = <<>>

FullInv == OnlyLimits => \E s \in ScanType : s = Scan(read) /\ FullAt(s)

(* The invariant says what the property says. *)
LEMMA FullInvSuffices == FullInv => CommandsAreFull
<1> SUFFICES ASSUME FullInv, OnlyLimits, NEW k \in DOMAIN cmds
             PROVE  LET words == Scan(read).words
                        mine  == SubSeq(Words(read), Before(k - 1) + 1, Before(k))
                    IN  /\ Len(mine) <= opt.nargs
                        /\ Bytes(mine) <= opt.nline
                        /\ Before(k) < Len(words) =>
                             \/ Len(mine) = opt.nargs
                             \/ Bytes(mine) + Len(words[Before(k) + 1].text) + 1 > opt.nline
  BY DEF CommandsAreFull, OnlyLimits
<1>1. AllFull(Scan(read))
  BY DEF FullInv, FullAt
<1> QED
  BY <1>1 DEF AllFull, Fits, FullBefore, Mine, Words

-----------------------------------------------------------------------------
(* The bytes of a word more. *)
LEMMA BytesAppend ==
  ASSUME NEW words \in Seq(WordType), NEW w \in WordType
  PROVE  /\ Bytes(words) \in Nat
         /\ Bytes(Append(words, w)) = Bytes(words) + Len(w.text) + 1
<1> DEFINE sizes(x) == [i \in DOMAIN x |-> Len(x[i].text) + 1]
           more == Append(words, w)
<1>1. Len(words) \in Nat /\ DOMAIN words = 1 .. Len(words)
      /\ \A i \in 1 .. Len(words) : words[i] \in WordType
  OBVIOUS
<1>2. /\ DOMAIN more = 1 .. Len(words) + 1
      /\ \A i \in 1 .. Len(words) : more[i] = words[i]
      /\ more[Len(words) + 1] = w
  OBVIOUS
<1>3. \A x \in WordType : Len(x.text) + 1 \in Nat
  BY DEF WordType
<1> HIDE DEF more, WordType
<1>4. sizes(words) \in Seq(Nat) /\ Len(sizes(words)) = Len(words)
      /\ \A i \in 1 .. Len(words) : sizes(words)[i] = Len(words[i].text) + 1
  BY <1>1, <1>3
<1>5. \A i \in 1 .. Len(words) + 1 : Len(more[i].text) + 1 \in Nat
  <2> TAKE i \in 1 .. Len(words) + 1
  <2>1. i \in 1 .. Len(words) \/ i = Len(words) + 1
    BY <1>1
  <2> QED
    BY <1>1, <1>2, <1>3, <2>1
<1>6. sizes(more) \in Seq(Nat) /\ Len(sizes(more)) = Len(words) + 1
      /\ \A i \in 1 .. Len(words) + 1 : sizes(more)[i] = Len(more[i].text) + 1
  BY <1>1, <1>2, <1>5
<1>7. Bytes(words) = Total(sizes(words)) /\ Bytes(more) = Total(sizes(more))
  BY DEF Bytes
<1> DEFINE a == sizes(words)
           b == sizes(more)
           e == Len(w.text) + 1
<1>8. e \in Nat
  BY <1>3
<1>9. \A i \in 1 .. Len(words) : b[i] = a[i]
  <2> TAKE i \in 1 .. Len(words)
  <2>1. i \in 1 .. Len(words) + 1
    BY <1>1
  <2> QED
    BY <1>2, <1>4, <1>6, <2>1
<1>10. b[Len(words) + 1] = e
  <2>1. Len(words) + 1 \in 1 .. Len(words) + 1
    BY <1>1
  <2> QED
    BY <1>2, <1>6, <2>1
<1> HIDE DEF a, b, e, sizes
<1>11. b = Append(a, e)
  <2>1. a \in Seq(Nat) /\ Len(a) = Len(words) /\ b \in Seq(Nat) /\ Len(b) = Len(words) + 1
    BY <1>4, <1>6 DEF a, b
  <2> QED
    BY <1>8, <1>9, <1>10, <2>1, IsAppended
<1>12. Total(a) \in Nat /\ Total(b) = Total(a) + e
  <2>1. a \in Seq(Nat)
    BY <1>4 DEF a
  <2> QED
    BY <1>8, <1>11, <2>1, TotalAppend
<1>13. Len(w.text) \in Nat
  BY DEF WordType
<1> QED
  BY <1>7, <1>12, <1>13 DEF a, b, e, more

(* No word has no bytes. *)
LEMMA BytesEmpty == Bytes(<<>>) = 0
<1>1. [i \in DOMAIN <<>> |-> Len(<<>>[i].text) + 1] = <<>>
  OBVIOUS
<1> QED
  BY <1>1, TotalEmpty DEF Bytes

(* How many arguments the first commands had. *)
LEMMA BeforeFacts ==
  ASSUME IInv
  PROVE  /\ Len(cmds) \in Nat /\ DOMAIN cmds = 1 .. Len(cmds)
         /\ \A k \in 0 .. Len(cmds) : Before(k) \in Nat
         /\ Before(Len(cmds)) = Len(Delivered)
<1>1. cmds \in Seq(CommandType) /\ Len(cmds) \in Nat /\ DOMAIN cmds = 1 .. Len(cmds)
      /\ \A k \in 1 .. Len(cmds) : cmds[k] \in CommandType
  BY StoreFacts, LenProperties, ElementOfSeq
<1>2. \A k \in 1 .. Len(cmds) : cmds[k].args \in Seq(Seq(Char))
  BY <1>1 DEF CommandType
<1>3. ASSUME NEW k \in 0 .. Len(cmds) PROVE Before(k) \in Nat
  <2> DEFINE f == [j \in 1 .. k |-> cmds[j].args]
  <2>1. k \in Nat /\ f \in Seq(Seq(Seq(Char)))
    BY <1>1, <1>2
  <2> HIDE DEF f
  <2>2. FlattenSeq(f) \in Seq(Seq(Char))
    BY <2>1, FlattenType
  <2>3. Len(FlattenSeq(f)) \in Nat
    BY <2>2
  <2> QED
    BY <2>3 DEF Before, f
<1>4. Before(Len(cmds)) = Len(Delivered)
  BY <1>1 DEF Before, Delivered
<1> QED
  BY <1>1, <1>3, <1>4

(* A command more changes nothing about those before it. *)
LEMMA BeforeKept ==
  ASSUME IInv, NEW c \in CommandType, cmds' = Append(cmds, c)
  PROVE  \A k \in 0 .. Len(cmds) : Before(k)' = Before(k)
<1> TAKE k \in 0 .. Len(cmds)
<1>1. cmds \in Seq(CommandType) /\ Len(cmds) \in Nat
  BY StoreFacts, BeforeFacts
<1>2. \A j \in 1 .. k : cmds'[j] = cmds[j]
  <2> TAKE j \in 1 .. k
  <2>1. j \in 1 .. Len(cmds)
    BY <1>1
  <2> QED
    BY <1>1, <2>1, AppendProperties
<1>3. [j \in 1 .. k |-> cmds'[j].args] = [j \in 1 .. k |-> cmds[j].args]
  BY <1>2
<1> QED
  BY <1>3 DEF Before

(* How many arguments came before is told by the commands. *)
LEMMA BeforeUnchanged ==
  ASSUME UNCHANGED cmds
  PROVE  \A k : Before(k)' = Before(k)
BY DEF Before

(* A part of the words that have ended stays what it is. *)
LEMMA PartKept ==
  ASSUME NEW words \in Seq(WordType), NEW w \in WordType,
         NEW a \in Nat, NEW b \in Nat, b <= Len(words)
  PROVE  SubSeq(Append(words, w), a + 1, b) = SubSeq(words, a + 1, b)
<1>1. <<w>> \in Seq(WordType) /\ Append(words, w) = words \o <<w>> /\ a + 1 \in Nat \ {0}
  OBVIOUS
<1>2. SubSeq(words \o <<w>>, a + 1, b) = SubSeq(words, a + 1, b)
  BY <1>1, ConcatParts
<1> QED
  BY <1>1, <1>2

-----------------------------------------------------------------------------
(* The scan only grows. *)
Grows(s, t) ==
  \/ t.words = s.words /\ Len(s.cur) <= Len(t.cur)
  \/ \E w \in WordType : t.words = Append(s.words, w) /\ w.text = s.cur

(* Ending a word makes the scan grow. *)
LEMMA EndWordGrows ==
  ASSUME NEW s \in ScanType, NEW t \in ScanType,
         t.words = EndWord(s).words
  PROVE  Grows(s, t)
<1> DEFINE w == [text |-> s.cur, line |-> s.line]
<1>1. w \in WordType /\ w.text = s.cur
  BY DEF ScanType, WordType
<1>2. CASE s.cur = <<>> /\ ~s.real
  <2>1. t.words = s.words
    BY <1>2, EndWordAgain
  <2>2. t.cur \in Seq(Char)
    BY DEF ScanType
  <2>3. Len(s.cur) = 0 /\ Len(t.cur) \in Nat
    BY <1>2, <2>2
  <2> QED
    BY <2>1, <2>3 DEF Grows
<1>3. CASE ~(s.cur = <<>> /\ ~s.real)
  <2>1. t.words = Append(s.words, w)
    BY <1>3, EndWordType
  <2> HIDE DEF w
  <2> QED
    BY <1>1, <2>1 DEF Grows
<1> QED
  BY <1>2, <1>3

(* So does every character. *)
LEMMA ScanGrows ==
  ASSUME NEW nulls \in BOOLEAN, NEW s \in ScanType, NEW ch \in Char
  PROVE  Grows(s, ScanOne(nulls, s, ch))
<1> DEFINE t == ScanOne(nulls, s, ch)
<1>1. t \in ScanType
  BY ScanOneType
<1>2. \/ t = EndWord(s) \/ t = NextLine(EndWord(s)) \/ t = Keep(s, ch)
      \/ t = [s EXCEPT !.mode = "esc"] \/ t = [s EXCEPT !.mode = "plain"]
      \/ t = [s EXCEPT !.mode = ch, !.real = TRUE]
  BY DEF ScanOne, ScanNulls, ScanPlain
<1> SUFFICES Grows(s, t)
  OBVIOUS
<1> HIDE DEF t
<1>3. CASE t = EndWord(s)
  BY <1>1, <1>3, EndWordGrows
<1>4. CASE t = NextLine(EndWord(s))
  <2>1. t.words = EndWord(s).words
    <3>1. EndWord(s) \in ScanType
      BY EndWordType
    <3> QED
      BY <1>4, <3>1, NextLineType
  <2> QED
    BY <1>1, <2>1, EndWordGrows
<1>5. CASE t = Keep(s, ch)
  <2>1. t.words = s.words /\ t.cur = Append(s.cur, ch)
    BY <1>5, KeepType
  <2>2. s.cur \in Seq(Char)
    BY DEF ScanType
  <2>3. Len(s.cur) <= Len(t.cur)
    BY <2>1, <2>2
  <2> QED
    BY <2>1, <2>3 DEF Grows
<1>6. CASE t.words = s.words /\ t.cur = s.cur
  <2>1. Len(s.cur) \in Nat
    BY DEF ScanType
  <2> QED
    BY <1>6, <2>1 DEF Grows
<1>7. CASE \/ t = [s EXCEPT !.mode = "esc"] \/ t = [s EXCEPT !.mode = "plain"]
           \/ t = [s EXCEPT !.mode = ch, !.real = TRUE]
  BY <1>6, <1>7 DEF ScanType
<1> QED
  BY <1>2, <1>3, <1>4, <1>5, <1>7

(* The first arguments of a command precede the others. *)
LEMMA MineKept ==
  ASSUME IInv, NEW words \in Seq(WordType), NEW w \in WordType,
         NEW k \in DOMAIN cmds, Before(k) <= Len(words)
  PROVE  Mine(Append(words, w), k) = Mine(words, k)
<1>1. k \in 0 .. Len(cmds) /\ k - 1 \in 0 .. Len(cmds)
  BY BeforeFacts
<1>2. Before(k - 1) \in Nat /\ Before(k) \in Nat
  BY <1>1, BeforeFacts
<1> QED
  BY <1>2, PartKept DEF Mine

(* A command that is full stays full as the scan grows. *)
LEMMA FullCommandGrows ==
  ASSUME IInv, NEW s \in ScanType, NEW t \in ScanType, Grows(s, t),
         NEW k \in DOMAIN cmds, FullCommand(s, k)
  PROVE  FullCommand(t, k)
<1> DEFINE n == Before(k)
<1>0. n \in Nat /\ n <= Len(s.words)
  <2>1. k \in 0 .. Len(cmds)
    BY BeforeFacts
  <2> QED
    BY <2>1, BeforeFacts DEF FullCommand
<1>1. s.words \in Seq(WordType) /\ Len(s.words) \in Nat
  BY DEF ScanType
<1>2. Fits(s.words, k) /\ FullBefore(s.words, k, FollowingText(s, n))
  BY DEF FullCommand
<1>3. CASE t.words = s.words /\ Len(s.cur) <= Len(t.cur)
  <2>1. CASE n < Len(s.words)
    <3>1. FollowingText(t, n) = FollowingText(s, n)
      BY <1>3, <2>1 DEF FollowingText
    <3> QED
      BY <1>0, <1>2, <1>3, <3>1 DEF FullCommand
  <2>2. CASE ~(n < Len(s.words))
    <3>1. FollowingText(t, n) = t.cur /\ FollowingText(s, n) = s.cur
      BY <1>3, <2>2 DEF FollowingText
    <3>2. Mine(s.words, k) \in Seq(WordType)
      <4>1. k \in 0 .. Len(cmds) /\ k - 1 \in 0 .. Len(cmds)
        BY BeforeFacts
      <4>2. Before(k - 1) \in Nat
        BY <4>1, BeforeFacts
      <4>3. SubSeq(s.words, Before(k - 1) + 1, n) \in Seq(WordType)
        <5>1. \A i \in Before(k - 1) + 1 .. n : s.words[i] \in WordType
          BY <1>0, <1>1, <4>2
        <5> HIDE DEF n
        <5> QED
          BY <1>0, <1>1, <4>2, <5>1, SubSeqProperties
      <4> QED
        BY <4>3 DEF Mine
    <3>3. Bytes(Mine(s.words, k)) \in Nat
      <4>1. [text |-> <<>>, line |-> 0] \in WordType
        BY DEF WordType
      <4> QED
        BY <3>2, <4>1, BytesAppend
    <3>4. Len(s.cur) \in Nat /\ Len(t.cur) \in Nat /\ opt.nline \in Nat
      BY SettingFacts DEF ScanType, IInv
    <3>5. FullBefore(s.words, k, t.cur)
      BY <1>2, <1>3, <3>1, <3>3, <3>4 DEF FullBefore
    <3> QED
      BY <1>0, <1>2, <1>3, <3>1, <3>5 DEF FullCommand
  <2> QED
    BY <2>1, <2>2
<1>4. ASSUME NEW w \in WordType, t.words = Append(s.words, w), w.text = s.cur
      PROVE  FullCommand(t, k)
  <2>1. Mine(t.words, k) = Mine(s.words, k)
    BY <1>0, <1>1, <1>4, MineKept
  <2>2. Len(t.words) = Len(s.words) + 1 /\ t.words[Len(s.words) + 1] = w
        /\ \A i \in 1 .. Len(s.words) : t.words[i] = s.words[i]
    BY <1>1, <1>4, AppendProperties
  <2>3. FollowingText(t, n) = FollowingText(s, n)
    <3>1. CASE n < Len(s.words)
      <4>1. n + 1 \in 1 .. Len(s.words) /\ n < Len(t.words)
        BY <1>0, <1>1, <2>2, <3>1
      <4> QED
        BY <2>2, <3>1, <4>1 DEF FollowingText
    <3>2. CASE n = Len(s.words)
      <4>1. n < Len(t.words) /\ ~(n < Len(s.words))
        BY <1>1, <2>2, <3>2
      <4> QED
        BY <1>4, <2>2, <3>2, <4>1 DEF FollowingText
    <3> QED
      BY <1>0, <1>1, <3>1, <3>2
  <2>4. n <= Len(t.words)
    BY <1>0, <1>1, <2>2
  <2> QED
    BY <1>2, <2>1, <2>3, <2>4 DEF FullCommand, Fits, FullBefore
<1> QED
  BY <1>3, <1>4 DEF Grows

(* And so do they all. *)
LEMMA RoomGrows ==
  ASSUME IInv, NEW s \in ScanType, NEW t \in ScanType, Grows(s, t), Room(s)
  PROVE  Room(t)
BY FullCommandGrows DEF Room

(* A full command is what the property asks for. *)
LEMMA RoomIsFull ==
  ASSUME IInv, NEW s \in ScanType, Room(s)
  PROVE  AllFull(s)
<1> DEFINE u == EndWord(s)
<1>1. u \in ScanType
  BY EndWordType
<1>2. Grows(s, u)
  BY <1>1, EndWordGrows
<1> HIDE DEF u
<1> SUFFICES ASSUME NEW k \in DOMAIN cmds
             PROVE  /\ Fits(u.words, k)
                    /\ Before(k) < Len(s.words) =>
                         FullBefore(u.words, k, s.words[Before(k) + 1].text)
  BY DEF AllFull, u
<1>3. FullCommand(s, k) /\ FullCommand(u, k)
  BY <1>1, <1>2, RoomGrows DEF Room
<1>4. Mine(u.words, k) = Mine(s.words, k)
  <2>1. u.words = s.words \/ \E w \in WordType : u.words = Append(s.words, w)
    BY <1>2 DEF Grows
  <2>2. s.words \in Seq(WordType) /\ Before(k) <= Len(s.words)
    BY <1>3 DEF ScanType, FullCommand
  <2> QED
    BY <2>1, <2>2, MineKept
<1>5. Fits(u.words, k)
  BY <1>3 DEF FullCommand
<1>6. ASSUME Before(k) < Len(s.words)
      PROVE  FullBefore(u.words, k, s.words[Before(k) + 1].text)
  <2>1. FullBefore(s.words, k, s.words[Before(k) + 1].text)
    BY <1>3, <1>6 DEF FullCommand, FollowingText
  <2> QED
    BY <1>4, <2>1 DEF FullBefore
<1> QED
  BY <1>5, <1>6

(* Room is kept when no command is added. *)
LEMMA RoomUnchanged ==
  ASSUME UNCHANGED <<cmds, opt>>
  PROVE  \A s \in ScanType : Room(s) => Room(s)'
<1> TAKE s \in ScanType
<1>1. \A k : Before(k)' = Before(k)
  BY BeforeUnchanged
<1>2. \A k : Mine(s.words, k)' = Mine(s.words, k)
  BY <1>1 DEF Mine
<1>3. \A k : FullCommand(s, k) => FullCommand(s, k)'
  BY <1>1, <1>2 DEF FullCommand, Fits, FullBefore, FollowingText
<1> QED
  BY <1>3 DEF Room

(* A command more, whose words are those that the others left. *)
LEMMA NewCommand ==
  ASSUME IInv, UNCHANGED opt, NEW c \in CommandType, cmds' = Append(cmds, c)
  PROVE  /\ DOMAIN cmds' = 1 .. Len(cmds) + 1 /\ Len(cmds) \in Nat
         /\ \A k \in 1 .. Len(cmds) :
              /\ Before(k)' = Before(k)
              /\ \A words : /\ Mine(words, k)' = Mine(words, k)
                            /\ Fits(words, k)' <=> Fits(words, k)
                            /\ \A next : FullBefore(words, k, next)'
                                         <=> FullBefore(words, k, next)
         /\ \A k : k = Len(cmds) + 1 =>
              /\ Before(k)' = Len(Delivered')
              /\ \A words : Mine(words, k)'
                            = SubSeq(words, Len(Delivered) + 1, Len(Delivered'))
<1>1. cmds \in Seq(CommandType) /\ Len(cmds) \in Nat /\ DOMAIN cmds = 1 .. Len(cmds)
  BY StoreFacts, BeforeFacts
<1>2. DOMAIN cmds' = 1 .. Len(cmds) + 1
  BY <1>1, AppendProperties
<1>3. \A k \in 0 .. Len(cmds) : Before(k)' = Before(k)
  BY BeforeKept
<1>4. ASSUME NEW k \in 1 .. Len(cmds)
      PROVE  Before(k)' = Before(k) /\ \A words : Mine(words, k)' = Mine(words, k)
  <2>1. k \in 0 .. Len(cmds) /\ k - 1 \in 0 .. Len(cmds)
    BY <1>1
  <2>2. Before(k)' = Before(k) /\ Before(k - 1)' = Before(k - 1)
    BY <1>3, <2>1
  <2> QED
    BY <2>2 DEF Mine
<1>5. ASSUME NEW k, k = Len(cmds) + 1 PROVE Before(k)' = Len(Delivered')
  BY <1>2, <1>5 DEF Before, Delivered
<1>6. ASSUME NEW k, k = Len(cmds) + 1, NEW words
      PROVE  Mine(words, k)' = SubSeq(words, Len(Delivered) + 1, Len(Delivered'))
  <2>1. k - 1 = Len(cmds) /\ k - 1 \in 0 .. Len(cmds)
    BY <1>1, <1>6
  <2>2. Before(k - 1) = Len(Delivered)
    BY <2>1, BeforeFacts
  <2>3. Before(k - 1)' = Before(k - 1)
    BY <1>3, <2>1
  <2> QED
    BY <1>5, <1>6, <2>2, <2>3 DEF Mine
<1>7. ASSUME NEW k \in 1 .. Len(cmds), NEW words
      PROVE  /\ Fits(words, k)' <=> Fits(words, k)
             /\ \A next : FullBefore(words, k, next)' <=> FullBefore(words, k, next)
  BY <1>4 DEF Fits, FullBefore
<1> QED
  BY <1>1, <1>2, <1>4, <1>5, <1>6, <1>7

(* A command more that is full. *)
LEMMA RoomMore ==
  ASSUME IInv, UNCHANGED opt, NEW c \in CommandType, cmds' = Append(cmds, c),
         NEW s \in ScanType, NEW t \in ScanType, Grows(s, t), Room(s),
         Len(Delivered') = Len(t.words),
         Len(WaitingWords(t)) <= opt.nargs, Bytes(WaitingWords(t)) <= opt.nline,
         \/ Len(WaitingWords(t)) = opt.nargs
         \/ Bytes(WaitingWords(t)) + Len(t.cur) + 1 > opt.nline
  PROVE  Room(t)'
<1>1. Room(t)
  BY RoomGrows
<1> SUFFICES ASSUME NEW k \in 1 .. Len(cmds) + 1 PROVE FullCommand(t, k)'
  BY NewCommand DEF Room
<1>2. CASE k \in 1 .. Len(cmds)
  <2>1. FullCommand(t, k)
    BY <1>1, <1>2, BeforeFacts DEF Room
  <2>2. Before(k)' = Before(k) /\ (Fits(t.words, k)' <=> Fits(t.words, k))
        /\ \A next : FullBefore(t.words, k, next)' <=> FullBefore(t.words, k, next)
    BY <1>2, NewCommand
  <2> QED
    BY <2>1, <2>2 DEF FullCommand, FollowingText
<1>3. CASE k = Len(cmds) + 1
  <2>0. Before(k)' = Len(Delivered')
        /\ Mine(t.words, k)' = SubSeq(t.words, Len(Delivered) + 1, Len(Delivered'))
    BY <1>3, NewCommand
  <2>1. Before(k)' = Len(t.words) /\ Mine(t.words, k)' = WaitingWords(t)
    BY <2>0 DEF WaitingWords
  <2>2. Len(t.words) \in Nat
    BY DEF ScanType
  <2>3. FollowingText(t, Len(t.words)) = t.cur
    BY <2>2 DEF FollowingText
  <2> QED
    BY <2>1, <2>2, <2>3 DEF FullCommand, Fits, FullBefore, FollowingText
<1> QED
  BY <1>2, <1>3, NewCommand

(* The last command takes the words that are left. *)
LEMMA FullAtLast ==
  ASSUME IInv, UNCHANGED opt, NEW c \in CommandType, cmds' = Append(cmds, c),
         NEW s \in ScanType, NEW u \in ScanType, u = EndWord(s), Room(s),
         Len(Delivered') = Len(u.words),
         Len(WaitingWords(u)) <= opt.nargs, Bytes(WaitingWords(u)) <= opt.nline
  PROVE  AllFull(s)'
<1>1. AllFull(s)
  BY RoomIsFull
<1>2. Len(s.words) <= Len(u.words) /\ Len(s.words) \in Nat /\ Len(u.words) \in Nat
  <2>1. s.words \in Seq(WordType) /\ u.words \in Seq(WordType)
    BY DEF ScanType
  <2>2. u.words = s.words \/ \E w \in WordType : u.words = Append(s.words, w)
    BY EndWordGrows DEF Grows
  <2> QED
    BY <2>1, <2>2
<1> SUFFICES ASSUME NEW k \in 1 .. Len(cmds) + 1
             PROVE  /\ Fits(u.words, k)'
                    /\ (Before(k) < Len(s.words))' =>
                         FullBefore(u.words, k, s.words[Before(k) + 1].text)'
  BY NewCommand DEF AllFull
<1>3. CASE k \in 1 .. Len(cmds)
  <2>1. /\ Fits(u.words, k)
        /\ Before(k) < Len(s.words) => FullBefore(u.words, k, s.words[Before(k) + 1].text)
    BY <1>1, <1>3, BeforeFacts DEF AllFull
  <2>2. Before(k)' = Before(k) /\ (Fits(u.words, k)' <=> Fits(u.words, k))
        /\ \A next : FullBefore(u.words, k, next)' <=> FullBefore(u.words, k, next)
    BY <1>3, NewCommand
  <2> QED
    BY <2>1, <2>2 DEF FullBefore
<1>4. CASE k = Len(cmds) + 1
  <2>0. Before(k)' = Len(Delivered')
        /\ Mine(u.words, k)' = SubSeq(u.words, Len(Delivered) + 1, Len(Delivered'))
    BY <1>4, NewCommand
  <2>1. Before(k)' = Len(u.words) /\ Mine(u.words, k)' = WaitingWords(u)
    BY <2>0 DEF WaitingWords
  <2>2. Fits(u.words, k)'
    BY <2>1 DEF Fits
  <2>3. ~(Before(k)' < Len(s.words))
    BY <1>2, <2>1
  <2> QED
    BY <2>2, <2>3
<1> QED
  BY <1>3, <1>4, NewCommand

(* The words that wait, the one that ends included, are what p has passed. *)
LEMMA WaitingFacts ==
  ASSUME IInv, NEW s \in ScanType, Parsing(s)
  PROVE  /\ Len(Delivered) \in Nat
         /\ Len(Delivered) + Len(xp) = Len(s.words)
         /\ WaitingWords(s) \in Seq(WordType)
         /\ Len(WaitingWords(s)) = Len(xp)
<1>1. Delivered \in Seq(Seq(Char)) /\ ArgsOf(buf, xp) \in Seq(Seq(Char))
      /\ Len(ArgsOf(buf, xp)) = Len(xp) /\ Len(xp) \in Nat
  BY StoreFacts, ArgsOfType
<1>2. Delivered \o ArgsOf(buf, xp) = CStrings(s.words)
  BY DEF Parsing
<1>3. s.words \in Seq(WordType) /\ [text |-> <<>>, line |-> 0] \in WordType
  BY DEF ScanType, WordType
<1>4. Len(CStrings(s.words)) = Len(s.words) /\ Len(s.words) \in Nat
  BY <1>3, CStringsAppend
<1>5. Len(Delivered) \in Nat /\ Len(Delivered \o ArgsOf(buf, xp)) = Len(Delivered) + Len(xp)
  <2>1. \A f, a \in Seq(Seq(Char)) : Len(f \o a) = Len(f) + Len(a) /\ Len(f) \in Nat
    BY ConcatProperties
  <2> QED
    BY <1>1, <2>1
<1>6. Len(Delivered) + Len(xp) = Len(s.words)
  BY <1>2, <1>4, <1>5
<1>7. /\ SubSeq(s.words, Len(Delivered) + 1, Len(s.words)) \in Seq(WordType)
      /\ Len(SubSeq(s.words, Len(Delivered) + 1, Len(s.words))) = Len(s.words) - Len(Delivered)
  BY <1>1, <1>3, <1>4, <1>5, <1>6, SuffixType
<1> QED
  BY <1>1, <1>5, <1>6, <1>7 DEF WaitingWords

(* The bytes of the words that wait, when one ends. *)
LEMMA EndWordBytes ==
  ASSUME IInv, NEW s \in ScanType, Parsing(s), Bytes(WaitingWords(s)) = argp,
         NEW u \in ScanType, u.words = EndWord(s).words
  PROVE  IF token = <<>> /\ ~wasquoted
         THEN Bytes(WaitingWords(u)) = Len(buf) /\ Len(WaitingWords(u)) = Len(xp)
         ELSE Bytes(WaitingWords(u)) = Len(buf) + 1 /\ Len(WaitingWords(u)) = Len(xp) + 1
<1> DEFINE w == [text |-> s.cur, line |-> s.line]
<1>1. s.cur = token /\ s.real = wasquoted
  BY DEF Parsing, Follows
<1>2. u.words = IF token = <<>> /\ ~wasquoted THEN s.words ELSE Append(s.words, w)
  BY <1>1, EndWordType
<1>3. w \in WordType /\ w.text = token /\ s.words \in Seq(WordType) /\ Len(s.words) \in Nat
  BY <1>1 DEF ScanType, WordType
<1> HIDE DEF w
<1>4. argp \in Nat /\ Len(buf) \in Nat /\ Len(token) = Len(buf) - argp
  BY StoreFacts
<1>5. /\ Len(Delivered) \in Nat /\ Len(Delivered) <= Len(s.words)
      /\ WaitingWords(s) \in Seq(WordType) /\ Len(WaitingWords(s)) = Len(xp)
  BY WaitingFacts, StoreFacts
<1>6. CASE token = <<>> /\ ~wasquoted
  <2>1. WaitingWords(u) = WaitingWords(s)
    BY <1>2, <1>6 DEF WaitingWords
  <2>2. Len(token) = 0
    BY <1>6
  <2> QED
    BY <1>4, <1>5, <1>6, <2>1, <2>2
<1>7. CASE ~(token = <<>> /\ ~wasquoted)
  <2>1. WaitingWords(u) = Append(WaitingWords(s), w)
    BY <1>2, <1>3, <1>5, <1>7, SuffixAppend DEF WaitingWords
  <2>2. Bytes(WaitingWords(u)) = argp + Len(token) + 1
    BY <1>3, <1>5, <2>1, BytesAppend
  <2>3. Len(WaitingWords(u)) = Len(xp) + 1
    BY <1>3, <1>5, <2>1, AppendProperties
  <2> QED
    BY <1>4, <1>7, <2>2, <2>3
<1> QED
  BY <1>6, <1>7

(* The same of the next state. *)
RoomSuffices == IInv => \A s \in ScanType : Room(s) => AllFull(s)

(***************************************************************************)
(* That a state with room is full holds in every state, and so in the      *)
(* next.                                                                   *)
(***************************************************************************)
LEMMA RoomAlwaysSuffices == RoomSuffices
BY RoomIsFull DEF RoomSuffices

(* What follows from that for the next state. *)
LEMMA RoomIsFullNext ==
  ASSUME IInv', NEW s \in ScanType, Room(s)'
  PROVE  AllFull(s)'
<1>1. RoomSuffices'
  BY RoomAlwaysSuffices, PTL
<1> QED
  BY <1>1 DEF RoomSuffices

(* What is full stays so when no command is added. *)
LEMMA AllFullUnchanged ==
  ASSUME UNCHANGED <<cmds, opt>>
  PROVE  \A s \in ScanType : AllFull(s) => AllFull(s)'
<1> TAKE s \in ScanType
<1>1. \A k : Before(k)' = Before(k)
  BY BeforeUnchanged
<1>2. \A words, k : Mine(words, k)' = Mine(words, k)
  BY <1>1 DEF Mine
<1>3. \A words, k : (Fits(words, k) => Fits(words, k)')
                    /\ \A next : FullBefore(words, k, next) => FullBefore(words, k, next)'
  BY <1>2 DEF Fits, FullBefore
<1>4. DOMAIN cmds' = DOMAIN cmds
  OBVIOUS
<1> DEFINE all == EndWord(s).words
<1> HIDE DEF all
<1> SUFFICES ASSUME NEW k \in DOMAIN cmds, AllFull(s)
             PROVE  /\ Fits(all, k)'
                    /\ (Before(k) < Len(s.words))' =>
                         FullBefore(all, k, s.words[Before(k) + 1].text)'
  BY <1>4 DEF AllFull, all
<1>5. /\ Fits(all, k)
      /\ Before(k) < Len(s.words) => FullBefore(all, k, s.words[Before(k) + 1].text)
  BY DEF AllFull, all
<1>6. Fits(all, k)'
  BY <1>3, <1>5
<1>7. ASSUME (Before(k) < Len(s.words))'
      PROVE  FullBefore(all, k, s.words[Before(k) + 1].text)'
  <2>1. FullBefore(all, k, s.words[Before(k) + 1].text)
    BY <1>1, <1>5, <1>7
  <2>2. Mine(all, k)' = Mine(all, k)
    BY <1>2
  <2> QED
    BY <1>1, <2>1, <2>2 DEF FullBefore
<1> QED
  BY <1>6, <1>7

(* A step that adds no command. *)
LEMMA NoCommandFills ==
  ASSUME IInv, IInv', UNCHANGED <<cmds, opt>>, NEW s \in ScanType, Room(s),
         NEW t \in ScanType, Grows(s, t), pc' # "run",
         pc' = "parse" => Bytes(WaitingWords(t)) = argp'
  PROVE  FullAt(t)'
<1>1. Room(t)'
  BY RoomGrows, RoomUnchanged
<1>2. AllFull(t)'
  BY <1>1, RoomIsFullNext
<1>3. WaitingWords(t)' = WaitingWords(t)
  BY DEF WaitingWords, Delivered
<1> QED
  BY <1>1, <1>2, <1>3 DEF FullAt

(* With these settings a full buffer is never objected to. *)
LEMMA OnlyLimitsFacts ==
  ASSUME IInv, OnlyLimits
  PROVE  ~opt.xflag /\ ~FoundEof /\ ~opt.Iflag /\ ~overlapped
<1>1. opt \in Settings /\ opt \in SettingType
  BY SettingsAssumption DEF IInv, TypeOK
<1> QED
  BY <1>1, SettingsAssumption DEF OnlyLimits, FoundEof

(* There are as many strings as words. *)
LEMMA StringsCount ==
  ASSUME NEW s \in ScanType, NEW d, d = CStrings(s.words)
  PROVE  Len(d) = Len(s.words)
<1>1. s.words \in Seq(WordType) /\ [text |-> <<>>, line |-> 0] \in WordType
  BY DEF ScanType, WordType
<1> QED
  BY <1>1, CStringsAppend

(* The code at addch: the character is stored, or ends the command. *)
LEMMA AddCharacterFills ==
  ASSUME IInv, IInv', OnlyLimits, pc = "parse",
         NEW s \in ScanType, Parsing(s), Room(s), Bytes(WaitingWords(s)) = argp,
         NEW ch \in Char, AddCharacter(ch),
         NEW t \in ScanType, t.words = s.words, t.cur = Append(s.cur, ch), WordsAt(t)'
  PROVE  FullAt(t)'
<1>1. s.cur = token /\ token \in Seq(Char) /\ Len(token) = Len(buf) - argp
      /\ Len(buf) \in Nat /\ argp \in Nat
  BY StoreFacts DEF Parsing, Follows
<1>2. Len(t.cur) = Len(s.cur) + 1
  BY <1>1, AppendType, SMTT(60)
<1>3. Grows(s, t)
  BY <1>1, <1>2 DEF Grows
<1>4. WaitingWords(t) = WaitingWords(s)
  BY DEF WaitingWords
<1>5. CASE /\ Len(buf) < ebp
           /\ buf' = Append(buf, ch)
           /\ UNCHANGED <<opt, argp, xp, quotes, pending, control, overlapped>>
  <2>1. pc' = "parse" /\ argp' = argp /\ UNCHANGED <<cmds, opt>>
    BY <1>5 DEF control
  <2> QED
    BY <1>3, <1>4, <2>1, NoCommandFills
<1>6. CASE Fail
  <2>1. pc' = "exit" /\ UNCHANGED <<cmds, opt>>
    BY <1>6 DEF Fail
  <2> QED
    BY <1>3, <2>1, NoCommandFills
<1>7. CASE /\ Len(buf) >= ebp
           /\ xp # <<>> /\ ~opt.xflag
           /\ Prerun(buf, xp, inpline, [kind |-> "overflow", ch |-> ch])
           /\ UNCHANGED <<opt, store, quotes, pending, overlapped>>
  <2>1. pc' = "run" /\ resume' = [kind |-> "overflow", ch |-> ch]
        /\ resume'.kind = "overflow"
        /\ cmds' = Append(cmds, Command(buf, xp, inpline)) /\ UNCHANGED opt
    BY <1>7 DEF Prerun
  <2>2. Delivered' = CStrings(t.words)
    BY <2>1 DEF WordsAt, Overflowing
  <2>3. Len(Delivered') = Len(t.words)
    BY <2>2, StringsCount
  <2>4. Command(buf, xp, inpline) \in CommandType
    BY StoreFacts, CommandIsTyped
  <2>5. Len(WaitingWords(t)) <= opt.nargs
    BY <1>4, WaitingFacts DEF IInv, StoreInv
  <2>6. argp <= Len(buf) /\ Len(buf) <= opt.nline /\ ebp = opt.nline - 1 /\ opt.nline \in Nat
    BY SettingFacts DEF IInv, StoreInv
  <2>7. Bytes(WaitingWords(t)) <= opt.nline
        /\ Bytes(WaitingWords(t)) + Len(t.cur) + 1 > opt.nline
    BY <1>1, <1>2, <1>4, <1>7, <2>6
  <2>8. Room(t)'
    BY <1>3, <2>1, <2>3, <2>4, <2>5, <2>7, RoomMore
  <2>9. AllFull(t)'
    BY <2>8, RoomIsFullNext
  <2> QED
    BY <2>1, <2>8, <2>9 DEF FullAt
<1> QED
  BY <1>5, <1>6, <1>7 DEF AddCharacter

(* The code at arg2: the argument is stored, and may end the command. *)
LEMMA EndArgumentFills ==
  ASSUME IInv, IInv', OnlyLimits, pc = "parse",
         NEW s \in ScanType, Parsing(s), Room(s), Bytes(WaitingWords(s)) = argp,
         NEW atEof \in BOOLEAN, NEW lines, EndArgument(atEof, lines),
         NEW t \in ScanType,
         IF atEof THEN t = s ELSE t.words = EndWord(s).words /\ t.cur = <<>>,
         WordsAt(t)'
  PROVE  FullAt(t)'
<1> DEFINE stored == token # <<>> \/ wasquoted
           b  == IF stored THEN Append(buf, NUL) ELSE buf
           xs == IF stored THEN Append(xp, argp) ELSE xp
           u  == EndWord(s)
<1>0. ~opt.xflag /\ ~FoundEof /\ ~opt.Iflag /\ opt.eofstr = <<>>
  BY OnlyLimitsFacts DEF OnlyLimits
<1>1. /\ buf' = b /\ xp' = xs /\ opt' = opt
      /\ \/ /\ atEof \/ Len(xs) = opt.nargs \/ Len(b) > ebp
            /\ Prerun(b, xs, inpline, [kind |-> IF atEof THEN "last" ELSE "limit"])
         \/ ~atEof /\ argp' = Len(b) /\ pc' = pc /\ cmds' = cmds
  BY <1>0 DEF EndArgument, control
<1>2. u \in ScanType
  BY EndWordType
<1> HIDE DEF u
<1>3. Bytes(WaitingWords(u)) = Len(b) /\ Len(WaitingWords(u)) = Len(xs)
  <2>1. Len(Append(buf, NUL)) = Len(buf) + 1 /\ Len(Append(xp, argp)) = Len(xp) + 1
    BY StoreFacts, CharFacts, AppendType
  <2>2. u.words = EndWord(s).words
    BY DEF u
  <2> QED
    BY <1>2, <2>1, <2>2, EndWordBytes
<1>4. b \in Seq(Char) /\ xs \in Seq(Nat) /\ inpline \in Seq(Char) \cup {NULL}
  BY StoreFacts, CharFacts, AppendType
<1>5. Len(b) <= opt.nline /\ Len(xs) <= opt.nargs /\ Len(b) \in Nat
  <2>1. Len(buf') <= opt'.nline /\ Len(xp') <= opt'.nargs
    BY DEF IInv, StoreInv
  <2> QED
    BY <1>1, <1>4, <2>1
<1> HIDE DEF b, xs
<1>6. CASE ~atEof /\ argp' = Len(b) /\ pc' = pc /\ cmds' = cmds
  <2>1. t.words = u.words
    BY <1>6 DEF u
  <2>2. Grows(s, t)
    BY <2>1, EndWordGrows DEF u
  <2>3. WaitingWords(t) = WaitingWords(u)
    BY <2>1 DEF WaitingWords
  <2> QED
    BY <1>1, <1>3, <1>6, <2>2, <2>3, NoCommandFills
<1>7. CASE /\ atEof \/ Len(xs) = opt.nargs \/ Len(b) > ebp
           /\ Prerun(b, xs, inpline, [kind |-> IF atEof THEN "last" ELSE "limit"])
  <2> DEFINE c == Command(b, xs, inpline)
  <2>1. pc' = "run" /\ cmds' = Append(cmds, c)
        /\ resume'.kind = IF atEof THEN "last" ELSE "limit"
    BY <1>7 DEF Prerun
  <2>2. c \in CommandType
    BY <1>4, CommandIsTyped
  <2> HIDE DEF c
  <2>3. CASE atEof
    <3>1. t = s /\ resume'.kind = "last"
      BY <2>1, <2>3
    <3>2. opt'.eofstr = <<>> /\ buf' # <<>> /\ Finished(EndWord(t).words)'
      BY <1>0, <1>1, <2>1, <3>1 DEF WordsAt
    <3>3. Delivered' = CStrings(u.words)
      <4>1. EndWord(t).words = u.words
        BY <3>1 DEF u
      <4>2. Given(EndWord(t).words)' = EndWord(t).words
        BY <3>2 DEF Given, LoneEmptyWord
      <4> QED
        BY <3>2, <4>1, <4>2 DEF Finished
    <3>4. Len(Delivered') = Len(u.words)
      BY <1>2, <3>3, StringsCount
    <3>5. AllFull(s)'
      <4>1. Len(WaitingWords(u)) <= opt.nargs /\ Bytes(WaitingWords(u)) <= opt.nline
        BY <1>3, <1>5
      <4>2. u = EndWord(s)
        BY DEF u
      <4> QED
        BY <1>1, <1>2, <2>1, <2>2, <3>4, <4>1, <4>2, FullAtLast
    <3> QED
      BY <2>1, <3>1, <3>5 DEF FullAt
  <2>4. CASE ~atEof
    <3>1. t.words = u.words /\ t.cur = <<>> /\ resume'.kind = "limit"
      BY <2>1, <2>4 DEF u
    <3>2. Grows(s, t)
      BY <3>1, EndWordGrows DEF u
    <3>3. WaitingWords(t) = WaitingWords(u)
      BY <3>1 DEF WaitingWords
    <3>4. Delivered' = CStrings(t.words)
      BY <2>1, <3>1 DEF WordsAt, Limited
    <3>5. Len(Delivered') = Len(t.words)
      BY <3>4, StringsCount
    <3>6. Len(t.cur) = 0 /\ ebp = opt.nline - 1 /\ opt.nline \in Nat
      BY <3>1, SettingFacts DEF IInv
    <3>7. /\ Len(WaitingWords(t)) <= opt.nargs /\ Bytes(WaitingWords(t)) <= opt.nline
          /\ \/ Len(WaitingWords(t)) = opt.nargs
             \/ Bytes(WaitingWords(t)) + Len(t.cur) + 1 > opt.nline
      BY <1>3, <1>5, <1>7, <2>4, <3>3, <3>6
    <3>8. Room(t)'
      BY <1>1, <2>1, <2>2, <3>2, <3>5, <3>7, RoomMore
    <3>9. AllFull(t)'
      BY <3>8, RoomIsFullNext
    <3> QED
      BY <2>1, <3>8, <3>9 DEF FullAt
  <2> QED
    BY <2>3, <2>4
<1> QED
  BY <1>1, <1>6, <1>7

(* What is known in a state and in the next one. *)
Known == IInv /\ WordsInv /\ FullInv

(* The scan of what was read, with what is known of it. *)
LEMMA KnownFacts ==
  ASSUME Known, OnlyLimits
  PROVE  /\ IInv
         /\ \E s \in ScanType : s = Scan(read) /\ WordsAt(s) /\ FullAt(s)
BY OnlyLimitsFacts DEF Known, WordsInv, FullInv

(* The scan of what will have been read. *)
LEMMA WordsNext ==
  ASSUME WordsInv', OnlyLimits', NEW s, s = Scan(read)'
  PROVE  s \in ScanType /\ WordsAt(s)'
<1>1. PICK x \in ScanType : x = Scan(read)' /\ WordsAt(x)'
  BY DEF WordsInv, OnlyLimits
<1> QED
  BY <1>1

(* The settings are those of the next state, and no copy has overlapped. *)
LEMMA LimitsKept ==
  ASSUME UNCHANGED opt, overlapped => overlapped', OnlyLimits'
  PROVE  OnlyLimits
BY DEF OnlyLimits

(* What the invariants say while characters are read. *)
LEMMA ParsingFacts ==
  ASSUME NEW s \in ScanType, WordsAt(s), FullAt(s), pc = "parse"
  PROVE  Parsing(s) /\ Room(s) /\ Bytes(WaitingWords(s)) = argp
BY DEF WordsAt, FullAt

(* A step that reads a character and keeps it. *)
LEMMA KeepFills ==
  ASSUME Known, IInv', WordsInv', NEW ch \in Char, GetChar(ch), Kept(ch), AddCharacter(ch)
  PROVE  FullInv'
<1>1. UNCHANGED <<opt, overlapped>>
  BY DEF AddCharacter, Fail, control
<1> SUFFICES ASSUME OnlyLimits'
             PROVE  \E t \in ScanType : t = Scan(read)' /\ FullAt(t)'
  BY DEF FullInv
<1>2. OnlyLimits /\ IInv
  BY <1>1, LimitsKept, KnownFacts
<1>3. PICK s \in ScanType : s = Scan(read) /\ WordsAt(s) /\ FullAt(s)
  BY <1>2, KnownFacts
<1> DEFINE t == ScanOne(opt.zflag, s, ch)
<1>4. pc = "parse" /\ read' = Append(read, ch)
  BY DEF GetChar
<1>5. t \in ScanType /\ t = Scan(read)'
  BY <1>1, <1>2, <1>3, <1>4, ScanStep
<1>6. Parsing(s) /\ Room(s) /\ Bytes(WaitingWords(s)) = argp
  BY <1>3, <1>4, ParsingFacts
<1>7. t.words = s.words /\ t.cur = Append(s.cur, ch)
  BY <1>2, <1>6, ScanKeeps DEF Parsing, Follows
<1> HIDE DEF t
<1>8. \A x \in ScanType : x = t => FullAt(x)'
  <2> TAKE x \in ScanType
  <2> HAVE x = t
  <2>1. WordsAt(x)'
    BY <1>5, WordsNext
  <2> QED
    BY <1>2, <1>4, <1>6, <1>7, <2>1, AddCharacterFills
<1> QED
  BY <1>5, <1>8

(* A step that reads a character and ends the word. *)
LEMMA EndFills ==
  ASSUME Known, IInv', WordsInv', NEW ch \in Char, GetChar(ch), NEW lines,
         EndArgument(FALSE, lines),
         IF opt.zflag THEN ch = NUL ELSE ~quoted /\ ch \in {SP, NL}
  PROVE  FullInv'
<1>1. UNCHANGED <<opt, overlapped>>
  BY DEF EndArgument
<1> SUFFICES ASSUME OnlyLimits'
             PROVE  \E t \in ScanType : t = Scan(read)' /\ FullAt(t)'
  BY DEF FullInv
<1>2. OnlyLimits /\ IInv
  BY <1>1, LimitsKept, KnownFacts
<1>3. PICK s \in ScanType : s = Scan(read) /\ WordsAt(s) /\ FullAt(s)
  BY <1>2, KnownFacts
<1> DEFINE t == ScanOne(opt.zflag, s, ch)
<1>4. pc = "parse" /\ read' = Append(read, ch)
  BY DEF GetChar
<1>5. t \in ScanType /\ t = Scan(read)'
  BY <1>1, <1>2, <1>3, <1>4, ScanStep
<1>6. Parsing(s) /\ Room(s) /\ Bytes(WaitingWords(s)) = argp
  BY <1>3, <1>4, ParsingFacts
<1>7. t.words = EndWord(s).words /\ t.cur = <<>>
  BY <1>2, <1>6, StoreFacts, EndedByScan DEF Parsing, Follows
<1> HIDE DEF t
<1>8. \A x \in ScanType : x = t => FullAt(x)'
  <2> TAKE x \in ScanType
  <2> HAVE x = t
  <2>1. WordsAt(x)'
    BY <1>5, WordsNext
  <2> QED
    BY <1>2, <1>4, <1>6, <1>7, <2>1, EndArgumentFills
<1> QED
  BY <1>5, <1>8

(* The end of the input, with an argument to end. *)
LEMMA EofArgumentFills ==
  ASSUME Known, IInv', WordsInv', EofArgument
  PROVE  FullInv'
<1>1. pc = "parse" /\ EndArgument(TRUE, count) /\ read' = read
  BY DEF EofArgument
<1>2. UNCHANGED <<opt, overlapped>>
  BY <1>1 DEF EndArgument
<1> SUFFICES ASSUME OnlyLimits'
             PROVE  \E t \in ScanType : t = Scan(read)' /\ FullAt(t)'
  BY DEF FullInv
<1>3. OnlyLimits /\ IInv
  BY <1>2, LimitsKept, KnownFacts
<1>4. PICK s \in ScanType : s = Scan(read) /\ WordsAt(s) /\ FullAt(s)
  BY <1>3, KnownFacts
<1>5. s = Scan(read)'
  BY <1>1, <1>2, <1>4 DEF Scan
<1>6. Parsing(s) /\ Room(s) /\ Bytes(WaitingWords(s)) = argp
  BY <1>1, <1>4, ParsingFacts
<1>7. WordsAt(s)'
  BY <1>5, WordsNext
<1>8. FullAt(s)'
  BY <1>1, <1>3, <1>6, <1>7, EndArgumentFills
<1> QED
  BY <1>5, <1>8

(* A step that adds no command and lets the words be. *)
LEMMA SameWordsFill ==
  ASSUME Known, IInv', UNCHANGED <<opt, read, cmds>>, overlapped => overlapped',
         pc = "parse", pc' # "run", pc' = "parse" => argp' = argp
  PROVE  FullInv'
<1> SUFFICES ASSUME OnlyLimits'
             PROVE  \E t \in ScanType : t = Scan(read)' /\ FullAt(t)'
  BY DEF FullInv
<1>1. OnlyLimits /\ IInv
  BY LimitsKept, KnownFacts
<1>2. PICK s \in ScanType : s = Scan(read) /\ WordsAt(s) /\ FullAt(s)
  BY <1>1, KnownFacts
<1>3. s = Scan(read)'
  BY <1>2 DEF Scan
<1>4. Room(s) /\ Bytes(WaitingWords(s)) = argp
  BY <1>2, ParsingFacts
<1>5. Grows(s, s)
  BY DEF Grows, ScanType
<1>6. FullAt(s)'
  BY <1>1, <1>4, <1>5, NoCommandFills
<1> QED
  BY <1>3, <1>6

(* A character that is read and neither kept nor ends an argument. *)
LEMMA ReadFills ==
  ASSUME Known, IInv', UNCHANGED <<opt, cmds, overlapped>>, NEW ch \in Char,
         read' = Append(read, ch), pc = "parse",
         \/ pc' = "exit"
         \/ /\ pc' = "parse" /\ argp' = argp
            /\ \A s \in ScanType : Parsing(s) => ScanOne(opt.zflag, s, ch).words = s.words
  PROVE  FullInv'
<1> SUFFICES ASSUME OnlyLimits'
             PROVE  \E t \in ScanType : t = Scan(read)' /\ FullAt(t)'
  BY DEF FullInv
<1>1. OnlyLimits /\ IInv
  BY LimitsKept, KnownFacts
<1>2. PICK s \in ScanType : s = Scan(read) /\ WordsAt(s) /\ FullAt(s)
  BY <1>1, KnownFacts
<1> DEFINE t == ScanOne(opt.zflag, s, ch)
<1>3. t \in ScanType /\ t = Scan(read)'
  BY <1>1, <1>2, ScanStep
<1>4. Parsing(s) /\ Room(s) /\ Bytes(WaitingWords(s)) = argp
  BY <1>2, ParsingFacts
<1>5. Grows(s, t)
  BY <1>1, StoreFacts, ScanGrows
<1>6. pc' = "parse" => argp' = argp /\ t.words = s.words
  BY <1>4
<1> HIDE DEF t
<1>7. pc' = "parse" => Bytes(WaitingWords(t)) = argp'
  BY <1>4, <1>6 DEF WaitingWords
<1>8. \A x \in ScanType : x = t => FullAt(x)'
  BY <1>1, <1>4, <1>5, <1>7, NoCommandFills
<1> QED
  BY <1>3, <1>8

(* A quote is opened or closed. *)
LEMMA QuoteFills ==
  ASSUME Known, IInv', NEW q \in {SQ, DQ}, GetChar(q), ~opt.zflag,
         q = SQ => ~indouble, q = DQ => ~insingle,
         UNCHANGED <<opt, store, control, overlapped>>
  PROVE  FullInv'
<1>1. pc = "parse" /\ read' = Append(read, q) /\ q \in Char
  BY CharFacts DEF GetChar
<1>2. UNCHANGED <<opt, cmds, overlapped, pc, argp>>
  BY DEF store, control
<1>3. ASSUME NEW s \in ScanType, Parsing(s)
      PROVE  ScanOne(opt.zflag, s, q).words = s.words
  <2>1. s.mode = IF quoted THEN q ELSE "plain"
    BY <1>3, CharsDiffer DEF Parsing, Follows, OpenQuote, quoted
  <2>2. \/ ScanOne(opt.zflag, s, q) = [s EXCEPT !.mode = "plain"]
        \/ ScanOne(opt.zflag, s, q) = [s EXCEPT !.mode = q, !.real = TRUE]
    BY <2>1, CharsDiffer DEF ScanOne, ScanPlain
  <2> QED
    BY <2>2 DEF ScanType
<1> QED
  BY <1>1, <1>2, <1>3, ReadFills

(* The backslash and the character it takes. *)
LEMMA EscapeFills ==
  ASSUME Known, IInv', WordsInv', pc = "parse", ~opt.zflag, ~quoted, NEW ch \in Char,
         read' = read \o <<BS, ch>>, AddCharacter(ch)
  PROVE  FullInv'
<1>1. UNCHANGED <<opt, overlapped>>
  BY DEF AddCharacter, Fail, control
<1> SUFFICES ASSUME OnlyLimits'
             PROVE  \E t \in ScanType : t = Scan(read)' /\ FullAt(t)'
  BY DEF FullInv
<1>2. OnlyLimits /\ IInv
  BY <1>1, LimitsKept, KnownFacts
<1>3. PICK s \in ScanType : s = Scan(read) /\ WordsAt(s) /\ FullAt(s)
  BY <1>2, KnownFacts
<1>4. Parsing(s) /\ Room(s) /\ Bytes(WaitingWords(s)) = argp
  BY <1>3, ParsingFacts
<1>5. PICK t \in ScanType : t = Scan(read)' /\ t.words = s.words /\ t.cur = Append(s.cur, ch)
  BY <1>1, <1>2, <1>3, <1>4, ScanEscapes DEF Parsing, Follows
<1>6. WordsAt(t)'
  BY <1>5, WordsNext
<1>7. FullAt(t)'
  BY <1>2, <1>4, <1>5, <1>6, AddCharacterFills
<1> QED
  BY <1>5, <1>7

(* The return from prerun(): what waits is nothing, or the word being read. *)
LEMMA ResumeFills ==
  ASSUME Known, IInv', WordsInv', Resume
  PROVE  FullInv'
<1>0. overlapped => overlapped'
  BY DEF Resume
<1>1. pc = "run" /\ UNCHANGED <<opt, read, cmds>>
      /\ \/ resume.kind = "last" /\ pc' = "drain"
         \/ resume.kind # "last" /\ pc' = "parse" /\ argp' = 0
  BY SMT DEF Resume
<1> SUFFICES ASSUME OnlyLimits'
             PROVE  \E t \in ScanType : t = Scan(read)' /\ FullAt(t)'
  BY DEF FullInv
<1>2. OnlyLimits /\ IInv
  BY <1>0, <1>1, LimitsKept, KnownFacts
<1>3. PICK s \in ScanType : s = Scan(read) /\ WordsAt(s) /\ FullAt(s)
  BY <1>2, KnownFacts
<1>4. s = Scan(read)'
  BY <1>1, <1>3 DEF Scan
<1>5. AllFull(s)'
  BY <1>1, <1>3, AllFullUnchanged DEF FullAt
<1>6. CASE resume.kind = "last" /\ pc' = "drain"
  <2>1. FullAt(s)'
    BY <1>5, <1>6 DEF FullAt
  <2> QED
    BY <1>4, <2>1
<1>7. CASE resume.kind # "last" /\ pc' = "parse" /\ argp' = 0
  <2>1. Room(s)'
    <3>1. Room(s)
      BY <1>1, <1>3, <1>7 DEF FullAt
    <3> QED
      BY <1>1, <3>1, RoomUnchanged
  <2>2. Delivered = CStrings(s.words)
    <3>1. resume.kind \in {"limit", "overflow"}
      BY <1>1, <1>2, <1>7 DEF IInv, TypeOK, StoreInv, ResumeType
    <3> QED
      BY <1>1, <1>3, <3>1 DEF WordsAt, Limited, Overflowing
  <2>3. Len(Delivered) = Len(s.words)
    BY <2>2, StringsCount
  <2>4. WaitingWords(s) = <<>>
    <3>1. s.words \in Seq(WordType)
      BY DEF ScanType
    <3> QED
      BY <2>3, <3>1, SubSeqEmpty DEF WaitingWords
  <2>5. WaitingWords(s)' = <<>> /\ Bytes(WaitingWords(s)') = 0
    BY <1>1, <2>4, BytesEmpty DEF WaitingWords, Delivered
  <2>6. Bytes(WaitingWords(s))' = 0
    BY <2>5 DEF Bytes
  <2>7. FullAt(s)'
    BY <1>5, <1>7, <2>1, <2>6 DEF FullAt
  <2> QED
    BY <1>4, <2>7
<1> QED
  BY <1>1, <1>6, <1>7

(* A child failed, or the fork did. *)
LEMMA RunExitsFills ==
  ASSUME Known, IInv', RunExits
  PROVE  FullInv'
<1>1. pc' = "exit" /\ UNCHANGED <<opt, read, cmds, overlapped>>
  BY DEF RunExits, Fail
<1> SUFFICES ASSUME OnlyLimits'
             PROVE  \E t \in ScanType : t = Scan(read)' /\ FullAt(t)'
  BY DEF FullInv
<1>2. OnlyLimits /\ IInv
  BY <1>1, LimitsKept, KnownFacts
<1>3. PICK s \in ScanType : s = Scan(read) /\ WordsAt(s) /\ FullAt(s)
  BY <1>2, KnownFacts
<1>4. s = Scan(read)'
  BY <1>1, <1>3 DEF Scan
<1>5. AllFull(s)'
  BY <1>1, <1>3, AllFullUnchanged DEF FullAt
<1>6. FullAt(s)'
  BY <1>1, <1>5 DEF FullAt
<1> QED
  BY <1>4, <1>6

(* The steps of the reader. *)
LEMMA ParseFills == ASSUME Known, IInv', WordsInv', Parse PROVE FullInv'
<1>0. IInv
  BY DEF Known
<1>1. CASE EofEmpty
  <2>1. UNCHANGED <<opt, read, cmds, overlapped>> /\ pc = "parse" /\ pc' = "drain"
    BY <1>1 DEF EofEmpty
  <2> QED
    BY <2>1, SameWordsFill
<1>2. CASE EofArgument
  BY <1>2, EofArgumentFills
<1>3. CASE EofInQuotes
  <2>1. UNCHANGED <<opt, read, cmds, overlapped>> /\ pc = "parse" /\ pc' = "exit"
    BY <1>3 DEF EofInQuotes, Fail
  <2> QED
    BY <2>1, SameWordsFill
<1>4. CASE Blank
  <2>1. GetChar(SP) /\ SP \in Char /\ SP # NUL
    BY <1>4, CharFacts, CharsDiffer DEF Blank
  <2>2. CASE quoted \/ opt.zflag
    <3>1. AddCharacter(SP) /\ Kept(SP)
      BY <1>4, <2>1, <2>2 DEF Blank, Kept
    <3> QED
      BY <2>1, <3>1, KeepFills
  <2>3. CASE ~(quoted \/ opt.zflag)
    <3>1. EndArgument(FALSE, count)
      BY <1>4, <2>3 DEF Blank
    <3> QED
      BY <2>1, <2>3, <3>1, EndFills
  <2> QED
    BY <2>2, <2>3
<1>5. CASE Nul
  <2>1. GetChar(NUL) /\ NUL \in Char
    BY <1>5, CharFacts DEF Nul
  <2>2. CASE opt.zflag
    <3>1. EndArgument(FALSE, count + 1)
      BY <1>5, <2>2 DEF Nul
    <3> QED
      BY <2>1, <2>2, <3>1, EndFills
  <2>3. CASE ~opt.zflag
    <3>1. AddCharacter(NUL) /\ Kept(NUL)
      BY <1>5, <2>3 DEF Nul, Kept
    <3> QED
      BY <2>1, <3>1, KeepFills
  <2> QED
    BY <2>2, <2>3
<1>6. CASE Newline
  <2>1. GetChar(NL) /\ NL \in Char /\ NL # NUL
    BY <1>6, CharFacts, CharsDiffer DEF Newline
  <2>2. CASE opt.zflag /\ AddCharacter(NL)
    <3>1. Kept(NL)
      BY <2>1, <2>2 DEF Kept
    <3> QED
      BY <2>1, <2>2, <3>1, KeepFills
  <2>3. CASE Fail
    <3>1. UNCHANGED <<opt, cmds, overlapped>> /\ pc' = "exit"
      BY <2>3 DEF Fail
    <3>2. read' = Append(read, NL) /\ pc = "parse"
      BY <2>1 DEF GetChar
    <3> QED
      BY <2>1, <3>1, <3>2, ReadFills
  <2>4. CASE ~opt.zflag /\ ~quoted /\ EndArgument(FALSE, count + 1)
    BY <2>1, <2>4, EndFills
  <2> QED
    BY <1>6, <2>2, <2>3, <2>4 DEF Newline
<1>7. CASE SingleQuote
  <2>1. GetChar(SQ) /\ SQ \in Char /\ SQ # NUL /\ SQ # DQ
    BY <1>7, CharFacts, CharsDiffer DEF SingleQuote
  <2>2. CASE (indouble \/ opt.zflag) /\ AddCharacter(SQ)
    <3>1. Kept(SQ)
      BY <2>1, <2>2 DEF Kept
    <3> QED
      BY <2>1, <2>2, <3>1, KeepFills
  <2>3. CASE /\ ~indouble /\ ~opt.zflag
             /\ insingle' = ~insingle /\ wasquoted' = TRUE
             /\ UNCHANGED <<opt, store, indouble, pending, control, overlapped>>
    BY <2>1, <2>3, QuoteFills
  <2> QED
    BY <1>7, <2>2, <2>3 DEF SingleQuote
<1>8. CASE DoubleQuote
  <2>1. GetChar(DQ) /\ DQ \in Char /\ DQ # NUL /\ SQ # DQ
    BY <1>8, CharFacts, CharsDiffer DEF DoubleQuote
  <2>2. CASE (insingle \/ opt.zflag) /\ AddCharacter(DQ)
    <3>1. Kept(DQ)
      BY <2>1, <2>2 DEF Kept
    <3> QED
      BY <2>1, <2>2, <3>1, KeepFills
  <2>3. CASE /\ ~insingle /\ ~opt.zflag
             /\ indouble' = ~indouble /\ wasquoted' = TRUE
             /\ UNCHANGED <<opt, store, insingle, pending, control, overlapped>>
    BY <2>1, <2>3, QuoteFills
  <2> QED
    BY <1>8, <2>2, <2>3 DEF DoubleQuote
<1>9. CASE Backslash
  <2>1. GetChar(BS) /\ AddCharacter(BS) /\ BS \in Char /\ Kept(BS)
    BY <1>9, CharFacts, CharsDiffer DEF Backslash, Kept
  <2> QED
    BY <2>1, KeepFills
<1>10. CASE Escape
  <2>1. pc = "parse" /\ ~opt.zflag /\ ~quoted /\ BS \in Char
    BY <1>10, CharFacts DEF Escape
  <2>2. ASSUME NEW ch \in Char, read' = read \o <<BS, ch>>, AddCharacter(ch)
        PROVE  FullInv'
    BY <2>1, <2>2, EscapeFills
  <2>3. ASSUME read' = Append(read, BS), Fail
        PROVE  FullInv'
    <3>1. UNCHANGED <<opt, cmds, overlapped>> /\ pc' = "exit"
      BY <2>3 DEF Fail
    <3> QED
      BY <2>1, <2>3, <3>1, ReadFills
  <2> QED
    BY <1>10, <2>2, <2>3 DEF Escape
<1>11. CASE Ordinary
  <2>1. PICK ch \in Plain : GetChar(ch) /\ AddCharacter(ch)
    BY <1>11 DEF Ordinary
  <2>2. ch \in Char /\ Kept(ch)
    BY CharFacts, CharsDiffer DEF Kept
  <2> QED
    BY <2>1, <2>2, KeepFills
<1> QED
  BY <1>1, <1>2, <1>3, <1>4, <1>5, <1>6, <1>7, <1>8, <1>9, <1>10, <1>11 DEF Parse

(* The first state: no command, and nothing has been read. *)
LEMMA InitFills == Init => FullInv
<1> SUFFICES ASSUME Init PROVE \E s \in ScanType : s = Scan(read) /\ FullAt(s)
  BY DEF FullInv
<1>0. IInv
  BY InitInv
<1>1. Scan(read) = EmptyScan /\ EmptyScan \in ScanType
  BY <1>0, StoreFacts, ScanEmpty, EmptyScanType DEF Init, Scan
<1>2. DOMAIN cmds = {}
  BY DEF Init
<1>3. Room(EmptyScan) /\ AllFull(EmptyScan)
  BY <1>2 DEF Room, AllFull
<1>4. WaitingWords(EmptyScan) = <<>>
  <2>1. EmptyScan.words = <<>> /\ Delivered = <<>>
    BY ArgumentsEmpty DEF Init, Delivered, ArgumentsOf, EmptyScan
  <2>2. Len(Delivered) = 0 /\ Len(EmptyScan.words) = 0
    BY <2>1
  <2>3. SubSeq(EmptyScan.words, 1, 0) = <<>>
    BY SubSeqEmpty
  <2> QED
    BY <2>2, <2>3 DEF WaitingWords
<1>5. Bytes(WaitingWords(EmptyScan)) = argp /\ pc = "parse"
  BY <1>4, BytesEmpty DEF Init
<1> QED
  BY <1>1, <1>3, <1>5 DEF FullAt

(* Every step. *)
LEMMA NextFills == Known /\ IInv' /\ WordsInv' /\ [Next]_vars => FullInv'
<1> SUFFICES ASSUME Known, IInv', WordsInv', [Next]_vars PROVE FullInv'
  OBVIOUS
<1>1. CASE Parse
  BY <1>1, ParseFills
<1>2. CASE RunExits
  BY <1>2, RunExitsFills
<1>3. CASE Resume
  BY <1>3, ResumeFills
<1>4. CASE UNCHANGED vars
  <2>1. UNCHANGED <<opt, read, argp, cmds, resume, pc, overlapped>>
    BY <1>4 DEF vars, store, control
  <2> SUFFICES ASSUME OnlyLimits' PROVE \E t \in ScanType : t = Scan(read)' /\ FullAt(t)'
    BY DEF FullInv
  <2>2. OnlyLimits /\ IInv
    BY <2>1, LimitsKept, KnownFacts
  <2>3. PICK s \in ScanType : s = Scan(read) /\ FullAt(s)
    BY <2>2, KnownFacts
  <2>4. s = Scan(read)'
    BY <2>1, <2>3 DEF Scan
  <2>5. AllFull(s)' /\ (Room(s) => Room(s)')
    BY <2>1, <2>3, AllFullUnchanged, RoomUnchanged DEF FullAt
  <2>6. WaitingWords(s)' = WaitingWords(s)
    BY <2>1 DEF WaitingWords, Delivered
  <2>7. FullAt(s)'
    BY <2>1, <2>3, <2>5, <2>6 DEF FullAt
  <2> QED
    BY <2>4, <2>7
<1> QED
  BY <1>1, <1>2, <1>3, <1>4 DEF Next

(***************************************************************************)
(* Every command that -n or -s ends is full, and none is too long, for     *)
(* every limit and every input.                                            *)
(***************************************************************************)
THEOREM CommandsAreFilled == Spec => []CommandsAreFull
<1>1. Init => FullInv
  BY InitFills
<1>2. Spec => []WordsInv
  BY InitAgrees, NextAgrees, Invariance, PTL DEF Spec
<1>3. IInv /\ WordsInv /\ FullInv /\ IInv' /\ WordsInv' /\ [Next]_vars => FullInv'
  BY NextFills DEF Known
<1>4. FullInv => CommandsAreFull
  BY FullInvSuffices
<1> QED
  BY <1>1, <1>2, <1>3, <1>4, Invariance, PTL DEF Spec

-----------------------------------------------------------------------------
(***************************************************************************)
(* Part four: the groups of lines (-L and -I).                             *)
(***************************************************************************)
(* The words of some lines are words, and a word more is one of them if    *)
(* its line is one of theirs.                                              *)
LEMMA WordsOnAppend ==
  ASSUME NEW words \in Seq(WordType), NEW w \in WordType, NEW lines
  PROVE  /\ WordsOn(lines, words) \in Seq(WordType)
         /\ WordsOn(lines, Append(words, w)) =
              IF w.line \in lines THEN Append(WordsOn(lines, words), w)
                                  ELSE WordsOn(lines, words)
<1> DEFINE n == Len(words)
           more == Append(words, w)
           d == [i \in DOMAIN words |-> IF words[i].line \in lines THEN <<words[i]>> ELSE <<>>]
           e == [i \in DOMAIN more |-> IF more[i].line \in lines THEN <<more[i]>> ELSE <<>>]
           last == IF w.line \in lines THEN <<w>> ELSE <<>>
<1>1. /\ n \in Nat /\ DOMAIN words = 1 .. n /\ more \in Seq(WordType)
      /\ DOMAIN more = 1 .. n + 1 /\ more[n + 1] = w
      /\ \A i \in 1 .. n : more[i] = words[i] /\ words[i] \in WordType
  OBVIOUS
<1>2. \A x \in WordType : <<x>> \in Seq(WordType)
  OBVIOUS
<1>3. <<>> \in Seq(WordType)
  OBVIOUS
<1>4. last \in Seq(WordType)
  BY <1>2, <1>3
<1>5. /\ d \in Seq(Seq(WordType)) /\ Len(d) = n
      /\ \A i \in 1 .. n : d[i] = IF words[i].line \in lines THEN <<words[i]>> ELSE <<>>
  <2>1. \A i \in 1 .. n : (IF words[i].line \in lines THEN <<words[i]>> ELSE <<>>) \in Seq(WordType)
    BY <1>1, <1>2, <1>3
  <2> HIDE DEF WordType
  <2> QED
    BY <1>1, <2>1
<1>6. /\ e \in Seq(Seq(WordType)) /\ Len(e) = n + 1
      /\ \A i \in 1 .. n + 1 : e[i] = IF more[i].line \in lines THEN <<more[i]>> ELSE <<>>
  <2>1. \A i \in 1 .. n + 1 : more[i] \in WordType
    BY <1>1
  <2>2. \A i \in 1 .. n + 1 : (IF more[i].line \in lines THEN <<more[i]>> ELSE <<>>) \in Seq(WordType)
    BY <1>2, <1>3, <2>1
  <2> HIDE DEF WordType, more
  <2> QED
    BY <1>1, <2>2
<1>7. WordsOn(lines, words) = FlattenSeq(d) /\ WordsOn(lines, more) = FlattenSeq(e)
  BY DEF WordsOn
<1> HIDE DEF d, e, more, last, n, WordType
<1>8. \A i \in 1 .. n : e[i] = d[i]
  <2> TAKE i \in 1 .. n
  <2>1. i \in 1 .. n + 1
    BY <1>1
  <2> QED
    BY <1>1, <1>5, <1>6, <2>1
<1>9. e[n + 1] = last
  <2>1. n + 1 \in 1 .. n + 1
    BY <1>1
  <2> QED
    BY <1>1, <1>6, <2>1 DEF last
<1>10. e = Append(d, last)
  BY <1>1, <1>4, <1>5, <1>6, <1>8, <1>9, IsAppended
<1>11. FlattenSeq(d) \in Seq(WordType) /\ FlattenSeq(e) = FlattenSeq(d) \o last
  BY <1>4, <1>5, <1>10, FlattenType, FlattenAppend
<1>12. \A s \in Seq(WordType) : s \o <<w>> = Append(s, w) /\ s \o <<>> = s
  OBVIOUS
<1> QED
  BY <1>7, <1>11, <1>12 DEF last, more

(* Of lines on which no word ends there are no words.                      *)
LEMMA WordsOnNone ==
  ASSUME NEW words \in Seq(WordType), NEW lines,
         \A i \in DOMAIN words : words[i].line \notin lines
  PROVE  WordsOn(lines, words) = <<>>
<1> DEFINE n == Len(words)
           d == [i \in DOMAIN words |-> IF words[i].line \in lines THEN <<words[i]>> ELSE <<>>]
<1>1. n \in Nat /\ DOMAIN words = 1 .. n /\ 0 \in Nat /\ 0 <= n
  OBVIOUS
<1>2. <<>> \in Seq(WordType)
  OBVIOUS
<1>3. \A i \in 1 .. n : d[i] = <<>>
  BY <1>1
<1>4. d \in Seq(Seq(WordType)) /\ Len(d) = n
  <2> HIDE DEF WordType
  <2>1. d = [i \in 1 .. n |-> <<>>]
    BY <1>1
  <2> QED
    BY <1>1, <1>2, <2>1
<1>5. WordsOn(lines, words) = FlattenSeq(d)
  BY DEF WordsOn
<1> HIDE DEF d, n
<1>6. \A i \in 0 + 1 .. Len(d) : d[i] = <<>>
  BY <1>1, <1>3, <1>4
<1>7. 0 <= Len(d)
  BY <1>1, <1>4
<1>8. FlattenSeq(d) = FlattenSeq(SubSeq(d, 1, 0))
  BY <1>1, <1>4, <1>6, <1>7, FlattenBlank
<1>9. SubSeq(d, 1, 0) = <<>>
  BY <1>4, SubSeqEmpty
<1> QED
  BY <1>5, <1>8, <1>9, FlattenEmpty

(* What Join chooses: the texts joined one by one.                         *)
Joined == Seq(Char) \cup {NULL}

JoinsTexts(f, texts) ==
  /\ f[0] = NULL
  /\ \A i \in 0 .. Len(texts) : i < Len(texts) => f[i + 1] = JoinLine(f[i], texts[i + 1])

(* Joining is a function that grows with the texts.                        *)
LEMMA JoinFunction ==
  ASSUME NEW texts \in Seq(Seq(Char))
  PROVE  \E f \in [0 .. Len(texts) -> Joined] :
           JoinsTexts(f, texts) /\ Join(texts) = f[Len(texts)]
<1> DEFINE n == Len(texts)
           Chain(f) == f = [i \in 0 .. n |-> IF i = 0 THEN NULL ELSE JoinLine(f[i - 1], texts[i])]
           one == [a \in Joined \X Nat |->
                     IF a[2] \in 1 .. n THEN JoinLine(a[1], texts[a[2]]) ELSE a[1]]
<1>1. n \in Nat /\ (\A i \in 1 .. n : texts[i] \in Seq(Char)) /\ NULL \in Joined
  BY DEF Joined
<1>2. one \in [Joined \X Nat -> Joined]
  <2> SUFFICES ASSUME NEW s \in Joined, NEW i \in 1 .. n
               PROVE  JoinLine(s, texts[i]) \in Joined
    OBVIOUS
  <2> QED
    BY <1>1, JoinLineType DEF Joined
<1> HIDE DEF n
<1>3. PICK g \in [0 .. n -> Joined] :
        /\ g[0] = NULL
        /\ \A i \in 0 .. n : i < n => g[i + 1] = JoinLine(g[i], texts[i + 1])
  <2>1. PICK g \in [0 .. n -> Joined] : Steps(g, NULL, one, n)
    <3> HIDE DEF one
    <3> QED
      BY <1>1, <1>2, RecursiveFunction, Zenon
  <2>2. ASSUME NEW i \in 0 .. n, i < n
        PROVE  g[i + 1] = JoinLine(g[i], texts[i + 1])
    <3>1. <<g[i], i + 1>> \in Joined \X Nat /\ i + 1 \in 1 .. n
      BY <1>1, <2>2
    <3>2. g[i + 1] = one[<<g[i], i + 1>>]
      BY <2>1, <2>2 DEF Steps
    <3> QED
      BY <3>1, <3>2
  <2> QED
    BY <2>1, <2>2 DEF Steps
<1>4. Chain(g)
  <2>1. ASSUME NEW i \in 0 .. n
        PROVE  g[i] = IF i = 0 THEN NULL ELSE JoinLine(g[i - 1], texts[i])
    <3>1. CASE i # 0
      <4>1. i - 1 \in 0 .. n /\ i - 1 < n /\ (i - 1) + 1 = i
        BY <1>1, <3>1
      <4> QED
        BY <1>3, <3>1, <4>1
    <3> QED
      BY <1>3, <3>1
  <2> QED
    BY <2>1
<1> DEFINE f == CHOOSE f : Chain(f)
<1>5. Chain(f)
  BY <1>4
<1> HIDE DEF f
<1>6. f[0] = NULL /\ \A i \in 0 .. n : i < n => f[i + 1] = JoinLine(f[i], texts[i + 1])
  <2>1. \A i \in 0 .. n : f[i] = IF i = 0 THEN NULL ELSE JoinLine(f[i - 1], texts[i])
    BY <1>5
  <2>2. ASSUME NEW i \in 0 .. n, i < n PROVE f[i + 1] = JoinLine(f[i], texts[i + 1])
    <3>1. i + 1 \in 0 .. n /\ i + 1 # 0 /\ (i + 1) - 1 = i
      BY <1>1, <2>2
    <3> QED
      BY <2>1, <3>1
  <2> QED
    BY <1>1, <2>1, <2>2
<1> DEFINE T == {i \in 0 .. n : f[i] = g[i]}
<1>7. \A i \in 0 .. n : f[i] = g[i]
  <2>1. 0 \in T
    BY <1>1, <1>3, <1>6
  <2>2. ASSUME NEW i \in 0 .. n, i \in T, i < n PROVE i + 1 \in T
    <3>1. /\ i + 1 \in 0 .. n
          /\ f[i + 1] = JoinLine(f[i], texts[i + 1])
          /\ g[i + 1] = JoinLine(g[i], texts[i + 1])
      BY <1>1, <1>3, <1>6, <2>2
    <3> QED
      BY <2>2, <3>1
  <2> HIDE DEF T
  <2>3. 0 .. n \subseteq T
    BY <1>1, <2>1, <2>2, RangeInd
  <2> QED
    BY <2>3 DEF T
<1>8. f \in [0 .. n -> Joined]
  <2>1. f = [i \in 0 .. n |-> f[i]]
    BY <1>5
  <2> QED
    BY <1>7, <2>1
<1>9. Join(texts) = f[n]
  BY DEF Join, f, n
<1> QED
  BY <1>6, <1>8, <1>9 DEF JoinsTexts, n

(* Nothing joined is the null pointer; a text more is joined to the line.  *)
LEMMA JoinEmpty == Join(<<>>) = NULL
<1> DEFINE empty == <<>>
<1>1. empty \in Seq(Seq(Char)) /\ Len(empty) = 0
  OBVIOUS
<1> HIDE DEF empty
<1>2. PICK f \in [0 .. Len(empty) -> Joined] :
        JoinsTexts(f, empty) /\ Join(empty) = f[Len(empty)]
  BY <1>1, JoinFunction
<1> QED
  BY <1>1, <1>2 DEF JoinsTexts, empty

(* One text more.                                                          *)
LEMMA JoinAppend ==
  ASSUME NEW texts \in Seq(Seq(Char)), NEW e \in Seq(Char)
  PROVE  Join(Append(texts, e)) = JoinLine(Join(texts), e)
<1> DEFINE more == Append(texts, e)
           n == Len(texts)
<1>1. /\ more \in Seq(Seq(Char)) /\ Len(more) = n + 1 /\ n \in Nat
      /\ \A i \in 1 .. n : more[i] = texts[i]
      /\ more[n + 1] = e
  OBVIOUS
<1> HIDE DEF more, n
<1>2. PICK f \in [0 .. n + 1 -> Joined] : JoinsTexts(f, more) /\ Join(more) = f[n + 1]
  BY <1>1, JoinFunction
<1>3. PICK g \in [0 .. n -> Joined] : JoinsTexts(g, texts) /\ Join(texts) = g[n]
  BY JoinFunction DEF n
<1> DEFINE T == {i \in 0 .. n : f[i] = g[i]}
<1>4. f[n] = g[n]
  <2>1. 0 \in T
    BY <1>1, <1>2, <1>3 DEF JoinsTexts
  <2>2. ASSUME NEW i \in 0 .. n, i \in T, i < n PROVE i + 1 \in T
    <3>1. i \in 0 .. Len(more) /\ i < Len(more) /\ i + 1 \in 0 .. n /\ more[i + 1] = texts[i + 1]
      BY <1>1, <2>2
    <3>2. f[i + 1] = JoinLine(f[i], more[i + 1])
      BY <1>2, <3>1 DEF JoinsTexts
    <3>3. g[i + 1] = JoinLine(g[i], texts[i + 1])
      BY <1>3, <2>2 DEF JoinsTexts, n
    <3> QED
      BY <2>2, <3>1, <3>2, <3>3
  <2> HIDE DEF T
  <2>3. 0 .. n \subseteq T
    BY <1>1, <2>1, <2>2, RangeInd
  <2> QED
    BY <1>1, <2>3 DEF T
<1>5. f[n + 1] = JoinLine(f[n], e)
  BY <1>1, <1>2 DEF JoinsTexts
<1> QED
  BY <1>1, <1>2, <1>3, <1>4, <1>5 DEF more

(***************************************************************************)
(* The inductive invariant of -L and -I.  The scan counts the lines from   *)
(* the first, count from the last command: with n commands the scan is     *)
(* on line n * Lflag + count.  What the buffer holds are the words of the  *)
(* lines since n * Lflag, and inpline is these words joined.  After a      *)
(* command that the limit ended, no word is on a line of the next group.   *)
(* No buffer overflows: with -L and -I an overflow is an error (-x).       *)
(***************************************************************************)
FirstLine == Len(cmds) * opt.Lflag

Settled(s) == \A k \in DOMAIN cmds : FollowsLines(k, EndWord(s).words)

Grouped(s) ==
  /\ \A k \in DOMAIN cmds : FollowsLines(k, s.words)
  /\ \A i \in DOMAIN s.words : s.words[i].line <= s.line

Collected(b, starts, line, words) ==
  LET texts == ArgsOf(b, starts)
  IN  /\ texts = CStrings(WordsOn(LinesOf(Len(cmds) + 1), words))
      /\ opt.Iflag => line = Join(texts)

Reading(s) ==
  /\ Follows(s, token) /\ Ended
  /\ s.line = FirstLine + count /\ count < opt.Lflag
  /\ Grouped(s) /\ Collected(buf, xp, inpline, s.words) /\ Len(xp) <= Len(read)

Between(s) ==
  /\ s.cur = <<>> /\ ~s.real /\ s.mode = "plain" /\ ~quoted
  /\ s.line = FirstLine
  /\ Grouped(s) /\ \A i \in DOMAIN s.words : s.words[i].line < s.line

LinesAt(s) ==
  /\ ~overlapped /\ Settled(s)
  /\ pc = "parse" => Reading(s)
  /\ pc = "run" => resume.kind \in {"last", "limit"}
  /\ pc = "run" /\ resume.kind = "limit" => Between(s)

LinesInv == OnlyLines => \E s \in ScanType : s = Scan(read) /\ LinesAt(s)

(* The invariant says what the property says. *)
LEMMA LinesInvSuffices == LinesInv => CommandsFollowLines
BY DEF LinesInv, LinesAt, Settled, CommandsFollowLines, Words

(* Multiples, one after the other. *)
LEMMA Multiples ==
  \A n, m \in Nat : /\ n * m \in Nat /\ (n + 1) * m = n * m + m
                    /\ \A k \in Nat : k <= n => k * m <= n * m
<1> SUFFICES ASSUME NEW n \in Nat, NEW m \in Nat
             PROVE  /\ n * m \in Nat /\ (n + 1) * m = n * m + m
                    /\ \A k \in Nat : k <= n => k * m <= n * m
  OBVIOUS
<1>1. n * m \in Nat /\ (n + 1) * m = n * m + m
  OBVIOUS
<1>2. ASSUME NEW k \in Nat, k <= n PROVE k * m <= n * m
  <2>1. PICK d \in Nat : n = k + d
    <3>1. n - k \in Nat /\ n = k + (n - k)
      BY <1>2
    <3> QED
      BY <3>1
  <2>2. (k + d) * m = k * m + d * m /\ d * m \in Nat /\ k * m \in Nat
    OBVIOUS
  <2> QED
    BY <2>1, <2>2
<1> QED
  BY <1>1, <1>2

(* Which lines are those of a command.                                     *)
LEMMA LinesOfFacts ==
  ASSUME IInv, OnlyLines
  PROVE  /\ Len(cmds) \in Nat /\ DOMAIN cmds = 1 .. Len(cmds)
         /\ opt.Lflag \in Nat /\ opt.Lflag > 0 /\ FirstLine \in Nat
         /\ (Len(cmds) + 1) * opt.Lflag = FirstLine + opt.Lflag
         /\ \A k \in DOMAIN cmds : \A line \in Nat : line >= FirstLine => line \notin LinesOf(k)
         /\ \A line \in Nat : line \in LinesOf(Len(cmds) + 1)
                                <=> FirstLine <= line /\ line < FirstLine + opt.Lflag
<1> DEFINE n == Len(cmds)
           m == opt.Lflag
<1>1. n \in Nat /\ DOMAIN cmds = 1 .. n
  BY StoreFacts
<1>2. m \in Nat /\ m > 0
  BY SettingFacts DEF IInv, OnlyLines
<1>3. FirstLine = n * m
  BY DEF FirstLine
<1>4. LinesOf(n + 1) = (n + 1 - 1) * m .. (n + 1) * m - 1
  BY DEF LinesOf
<1>5. \A k \in 1 .. n : LinesOf(k) = (k - 1) * m .. k * m - 1
  BY DEF LinesOf
<1> HIDE DEF n, m
<1>6. n * m \in Nat /\ (n + 1) * m = n * m + m
  BY <1>1, <1>2, Multiples
<1>7. ASSUME NEW k \in 1 .. n, NEW line \in Nat, line >= FirstLine
      PROVE  line \notin LinesOf(k)
  <2>1. k \in Nat /\ k <= n
    BY <1>1
  <2>2. k * m <= n * m /\ k * m \in Nat
    BY <1>1, <1>2, <2>1, Multiples
  <2>3. line \notin (k - 1) * m .. k * m - 1
    BY <1>3, <1>6, <1>7, <2>2
  <2> QED
    BY <1>5, <2>3
<1>8. n + 1 - 1 = n
  BY <1>1
<1>9. \A line \in Nat : line \in LinesOf(n + 1) <=> FirstLine <= line /\ line < FirstLine + m
  BY <1>2, <1>3, <1>4, <1>6, <1>8
<1> QED
  BY <1>1, <1>2, <1>3, <1>6, <1>7, <1>9 DEF n, m

(* A word on a later line is no word of the commands there are.            *)
LEMMA GroupsKept ==
  ASSUME IInv, OnlyLines, NEW words \in Seq(WordType), NEW w \in WordType,
         w.line >= FirstLine, \A k \in DOMAIN cmds : FollowsLines(k, words)
  PROVE  \A k \in DOMAIN cmds : FollowsLines(k, Append(words, w))
<1> SUFFICES ASSUME NEW k \in DOMAIN cmds PROVE FollowsLines(k, Append(words, w))
  OBVIOUS
<1>1. w.line \in Nat
  BY DEF WordType
<1>2. w.line \notin LinesOf(k)
  BY <1>1, LinesOfFacts
<1>3. WordsOn(LinesOf(k), Append(words, w)) = WordsOn(LinesOf(k), words)
  BY <1>2, WordsOnAppend
<1> QED
  BY <1>3 DEF FollowsLines

(* So the groups do not depend on the word that is being read.             *)
LEMMA GroupedSettles ==
  ASSUME IInv, OnlyLines, NEW s \in ScanType, s.line >= FirstLine,
         \A k \in DOMAIN cmds : FollowsLines(k, s.words)
  PROVE  Settled(s)
<1> DEFINE w == [text |-> s.cur, line |-> s.line]
<1>1. w \in WordType /\ s.words \in Seq(WordType) /\ w.line = s.line
  BY DEF ScanType, WordType
<1>2. EndWord(s).words = s.words \/ EndWord(s).words = Append(s.words, w)
  BY EndWordType
<1> HIDE DEF w, WordType
<1>3. \A k \in DOMAIN cmds : FollowsLines(k, Append(s.words, w))
  BY <1>1, GroupsKept
<1> QED
  BY <1>2, <1>3 DEF Settled

(* The groups are unchanged when the commands are.                         *)
LEMMA FollowsUnchanged ==
  UNCHANGED <<opt, cmds>> =>
    /\ FirstLine' = FirstLine /\ (OnlyLines' <=> OnlyLines)
    /\ \A words : (\A k \in DOMAIN cmds : FollowsLines(k, words))
                    => \A k \in DOMAIN cmds' : FollowsLines(k, words)'
    /\ \A b, starts, line, words :
         Collected(b, starts, line, words) => Collected(b, starts, line, words)'
<1> SUFFICES ASSUME UNCHANGED <<opt, cmds>>
             PROVE  /\ FirstLine' = FirstLine /\ (OnlyLines' <=> OnlyLines)
                    /\ \A words : (\A k \in DOMAIN cmds : FollowsLines(k, words))
                         => \A k \in DOMAIN cmds' : FollowsLines(k, words)'
                    /\ \A b, starts, line, words :
                         Collected(b, starts, line, words) => Collected(b, starts, line, words)'
  OBVIOUS
<1>1. FirstLine' = FirstLine /\ (OnlyLines' <=> OnlyLines)
  BY DEF FirstLine, OnlyLines
<1>2. \A k : LinesOf(k)' = LinesOf(k)
  BY DEF LinesOf
<1>3. \A words, k : FollowsLines(k, words) => FollowsLines(k, words)'
  BY <1>2 DEF FollowsLines
<1>4. \A b, starts, line, words :
        Collected(b, starts, line, words) => Collected(b, starts, line, words)'
  BY <1>2 DEF Collected
<1> QED
  BY <1>1, <1>3, <1>4

(* What is read and not finished keeps the commands as they are.           *)
LEMMA SettledUnchanged ==
  ASSUME IInv, OnlyLines, NEW s \in ScanType, NEW t \in ScanType,
         UNCHANGED <<opt, cmds>>, ~overlapped', pc' \in {"exit", "drain"},
         \A k \in DOMAIN cmds : FollowsLines(k, t.words), t.line >= FirstLine
  PROVE  LinesAt(t)'
<1>1. Settled(t)
  BY GroupedSettles
<1>2. Settled(t)'
  BY <1>1, FollowsUnchanged DEF Settled
<1> QED
  BY <1>2 DEF LinesAt

(* While only lines end commands, an overflow is an error.                 *)
LEMMA OnlyLinesFacts ==
  ASSUME IInv, OnlyLines
  PROVE  /\ opt.xflag = TRUE /\ ~FoundEof /\ opt.eofstr = <<>> /\ opt.argc > 0
         /\ opt.nargs \in Nat /\ MaxInput \in Nat /\ opt.nargs > MaxInput
         /\ Len(read) \in Nat /\ Len(read) <= MaxInput
<1>1. opt \in Settings /\ opt \in SettingType
  BY SettingFacts DEF IInv, TypeOK
<1>2. opt.xflag = TRUE
  BY <1>1, SettingsAssumption DEF OnlyLines, SettingType
<1>3. Len(read) \in Nat /\ Len(read) <= MaxInput
  BY StoreFacts, LenProperties DEF IInv, TypeOK
<1> QED
  BY <1>1, <1>2, <1>3, MaxInputAssumption DEF OnlyLines, FoundEof, SettingType

(* The code at addch, when the scan keeps the character.                   *)
LEMMA AddCharacterFollows ==
  ASSUME IInv, OnlyLines, ~overlapped, pc = "parse",
         NEW s \in ScanType, Reading(s), NEW ch \in Char, AddCharacter(ch),
         read' \in Seq(Char), Len(read) <= Len(read'),
         NEW t \in ScanType, t.words = s.words, t.cur = Append(s.cur, ch),
         t.real = s.real, t.mode = s.mode, t.line = s.line
  PROVE  LinesAt(t)'
<1>1. /\ Follows(s, token) /\ Ended
      /\ s.line = FirstLine + count /\ count < opt.Lflag
      /\ Grouped(s) /\ Collected(buf, xp, inpline, s.words) /\ Len(xp) <= Len(read)
  BY DEF Reading
<1>2. FirstLine \in Nat /\ count \in Nat
  BY LinesOfFacts DEF IInv, TypeOK
<1>3. Grouped(t) /\ t.line >= FirstLine
  BY <1>1, <1>2 DEF Grouped
<1>4. CASE /\ Len(buf) < ebp
           /\ buf' = Append(buf, ch)
           /\ UNCHANGED <<opt, argp, xp, quotes, pending, control, overlapped>>
  <2>1. /\ UNCHANGED <<opt, argp, xp, quotes, count, inpline, cmds, pc, overlapped>>
        /\ wasquoted' = wasquoted
    BY <1>4 DEF quotes, pending, control
  <2>2. QuotesAgree /\ NoEof(s.words) /\ s.cur = token /\ s.real = wasquoted /\ s.mode = OpenQuote
    BY <1>1 DEF Follows
  <2>3. /\ ArgsOf(buf, xp)' = ArgsOf(buf, xp) /\ token' = Append(token, ch)
        /\ Ended' /\ OpenQuote' = OpenQuote /\ QuotesAgree'
    BY <1>1, <1>4, <2>1, <2>2, CharacterStored
  <2>4. Follows(t, token)'
    BY <2>1, <2>2, <2>3 DEF Follows, NoEof
  <2>5. Grouped(t)'
    BY <1>3, <2>1, FollowsUnchanged DEF Grouped
  <2>6. Collected(buf, xp, inpline, t.words)'
    <3>1. Collected(buf, xp, inpline, s.words)'
      BY <1>1, <2>1, <2>3 DEF Collected, LinesOf
    <3> QED
      BY <3>1
  <2>7. t.line = FirstLine' + count' /\ count' < opt'.Lflag
    BY <1>1, <2>1, FollowsUnchanged
  <2>8. Len(xp') <= Len(read')
    BY <1>1, <2>1, StoreFacts, LenProperties
  <2>9. Reading(t)'
    BY <2>3, <2>4, <2>5, <2>6, <2>7, <2>8 DEF Reading
  <2>10. Settled(t)'
    <3>1. Settled(t)
      BY <1>3, GroupedSettles DEF Grouped
    <3> QED
      BY <2>1, <3>1, FollowsUnchanged DEF Settled
  <2> QED
    BY <2>1, <2>9, <2>10 DEF LinesAt
<1>5. CASE Fail
  BY <1>3, <1>5, SettledUnchanged DEF Fail, Grouped
<1>6. CASE ~opt.xflag
  BY <1>6, OnlyLinesFacts
<1> QED
  BY <1>4, <1>5, <1>6 DEF AddCharacter

(* The word that ends joins the words of the next command.                 *)
LEMMA EndedCollects ==
  ASSUME IInv, OnlyLines, NEW s \in ScanType, Reading(s), NEW stored \in BOOLEAN,
         stored <=> token # <<>> \/ wasquoted,
         NEW b, b = IF stored THEN Append(buf, NUL) ELSE buf,
         NEW xs, xs = IF stored THEN Append(xp, argp) ELSE xp,
         NEW ln, ln = IF stored /\ opt.Iflag THEN JoinLine(inpline, CString(token)) ELSE inpline
  PROVE  /\ Collected(b, xs, ln, EndWord(s).words)
         /\ \A i \in DOMAIN EndWord(s).words : EndWord(s).words[i].line <= s.line
         /\ \A k \in DOMAIN cmds : FollowsLines(k, EndWord(s).words)
<1> DEFINE w == [text |-> s.cur, line |-> s.line]
           ours == LinesOf(Len(cmds) + 1)
           old == WordsOn(ours, s.words)
<1>1. /\ s.cur = token /\ s.real = wasquoted /\ Ended
      /\ s.line = FirstLine + count /\ count < opt.Lflag
      /\ Grouped(s) /\ Collected(buf, xp, inpline, s.words)
  BY DEF Reading, Follows
<1>2. FirstLine \in Nat /\ count \in Nat /\ opt.Lflag \in Nat
  BY LinesOfFacts DEF IInv, TypeOK
<1>3. w \in WordType /\ s.words \in Seq(WordType) /\ w.line = s.line /\ w.text = token
  BY <1>1 DEF ScanType, WordType
<1>4. EndWord(s).words = IF stored THEN Append(s.words, w) ELSE s.words
  BY <1>1, EndWordType
<1>5. w.line \in ours /\ w.line >= FirstLine
  <2>1. w.line \in Nat /\ FirstLine <= w.line /\ w.line < FirstLine + opt.Lflag
    BY <1>1, <1>2, <1>3
  <2> QED
    BY <2>1, LinesOfFacts
<1> HIDE DEF w, ours, WordType
<1>6. old \in Seq(WordType) /\ WordsOn(ours, Append(s.words, w)) = Append(old, w)
  BY <1>3, <1>5, WordsOnAppend
<1>7. CStrings(Append(old, w)) = Append(CStrings(old), CString(token))
      /\ CStrings(old) \in Seq(Seq(Char))
  BY <1>3, <1>6, CStringsAppend
<1> HIDE DEF old
<1>8. ArgsOf(buf, xp) = CStrings(old) /\ (opt.Iflag => inpline = Join(ArgsOf(buf, xp)))
  BY <1>1 DEF Collected, old, ours
<1>9. stored => ArgsOf(b, xs) = Append(ArgsOf(buf, xp), CString(token))
  BY <1>1, StoreFacts, TerminatedInBuffer, ArgsOfStored DEF token
<1>10. CString(token) \in Seq(Char)
  BY StoreFacts, CStringType
<1>11. Join(Append(CStrings(old), CString(token))) = JoinLine(Join(CStrings(old)), CString(token))
  BY <1>7, <1>10, JoinAppend
<1>12. Collected(b, xs, ln, EndWord(s).words)
  <2>1. CASE stored
    <3>1. ArgsOf(b, xs) = CStrings(WordsOn(ours, EndWord(s).words))
      BY <1>4, <1>6, <1>7, <1>8, <1>9, <2>1
    <3>2. opt.Iflag => ln = Join(ArgsOf(b, xs))
      BY <1>8, <1>9, <1>11, <2>1
    <3> QED
      BY <3>1, <3>2 DEF Collected, ours
  <2>2. CASE ~stored
    BY <1>1, <1>4, <2>2
  <2> QED
    BY <2>1, <2>2
<1>13. \A i \in DOMAIN EndWord(s).words : EndWord(s).words[i].line <= s.line
  <2>1. CASE ~stored
    BY <1>1, <1>4, <2>1 DEF Grouped
  <2>2. CASE stored
    <3> SUFFICES ASSUME NEW i \in DOMAIN Append(s.words, w)
                 PROVE  Append(s.words, w)[i].line <= s.line
      BY <1>4, <2>2
    <3>1. i \in 1 .. Len(s.words) \/ i = Len(s.words) + 1
      BY <1>3
    <3>2. CASE i \in 1 .. Len(s.words)
      <4>1. Append(s.words, w)[i] = s.words[i] /\ i \in DOMAIN s.words
        BY <1>3, <3>2
      <4> QED
        BY <1>1, <4>1 DEF Grouped
    <3>3. CASE i = Len(s.words) + 1
      <4>1. Append(s.words, w)[i] = w
        BY <1>3, <3>3
      <4>2. s.line \in Nat
        BY <1>1, <1>2
      <4> QED
        BY <1>3, <4>1, <4>2
    <3> QED
      BY <3>1, <3>2, <3>3
  <2> QED
    BY <2>1, <2>2
<1>14. \A k \in DOMAIN cmds : FollowsLines(k, EndWord(s).words)
  <2>1. \A k \in DOMAIN cmds : FollowsLines(k, s.words)
    BY <1>1 DEF Grouped
  <2>2. \A k \in DOMAIN cmds : FollowsLines(k, Append(s.words, w))
    BY <1>3, <1>5, <2>1, GroupsKept
  <2> QED
    BY <1>4, <2>1, <2>2
<1> QED
  BY <1>12, <1>13, <1>14

(* The command that is issued is the next group.                           *)
LEMMA PrerunFollows ==
  ASSUME IInv, OnlyLines, NEW b \in Seq(Char), NEW xs \in Seq(Nat),
         NEW ln \in Seq(Char) \cup {NULL}, NEW after, Prerun(b, xs, ln, after), opt' = opt,
         NEW words, Collected(b, xs, ln, words),
         \A k \in DOMAIN cmds : FollowsLines(k, words)
  PROVE  /\ Len(cmds') = Len(cmds) + 1
         /\ \A k \in DOMAIN cmds' : FollowsLines(k, words)'
<1> DEFINE c == Command(b, xs, ln)
<1>0. PICK n \in Nat : n = Len(cmds)
  BY StoreFacts
<1>1. cmds' = Append(cmds, c) /\ c \in CommandType /\ cmds \in Seq(CommandType)
  BY CommandIsTyped, StoreFacts DEF Prerun
<1>2. c.line = ln /\ (~opt.Iflag => c.args = ArgsOf(b, xs))
  BY DEF Command, ArgsOf
<1> HIDE DEF c
<1>3. /\ Len(cmds') = n + 1 /\ DOMAIN cmds' = 1 .. n + 1 /\ cmds'[n + 1] = c
      /\ DOMAIN cmds = 1 .. n /\ \A k \in 1 .. n : cmds'[k] = cmds[k]
  BY <1>0, <1>1
<1>4. \A k : LinesOf(k)' = LinesOf(k)
  BY DEF LinesOf
<1>5. FollowsLines(n + 1, words)'
  <2>1. /\ ArgsOf(b, xs) = CStrings(WordsOn(LinesOf(n + 1), words))
        /\ opt.Iflag => ln = Join(ArgsOf(b, xs))
    BY <1>0 DEF Collected
  <2>2. CASE opt.Iflag
    BY <1>2, <1>3, <1>4, <2>1, <2>2 DEF FollowsLines
  <2>3. CASE ~opt.Iflag
    BY <1>2, <1>3, <1>4, <2>1, <2>3 DEF FollowsLines
  <2> QED
    BY <2>2, <2>3
<1>6. \A k \in 1 .. n : FollowsLines(k, words)'
  BY <1>3, <1>4 DEF FollowsLines
<1>7. \A k \in 1 .. n + 1 : k \in 1 .. n \/ k = n + 1
  OBVIOUS
<1>8. \A k \in 1 .. n + 1 : FollowsLines(k, words)'
  BY <1>5, <1>6, <1>7
<1> QED
  BY <1>0, <1>3, <1>8

(* The code at arg2, when the scan ends the word: the command is issued    *)
(* when the last line of the group has ended, and at the end of the input. *)
LEMMA EndArgumentFollows ==
  ASSUME IInv, OnlyLines, ~overlapped, pc = "parse",
         NEW s \in ScanType, Reading(s), opt.zflag \/ ~quoted,
         NEW atEof \in BOOLEAN, NEW lines \in {count, count + 1}, EndArgument(atEof, lines),
         NEW t \in ScanType,
         IF atEof THEN t = s /\ lines = count
         ELSE /\ t.words = EndWord(s).words /\ t.cur = <<>> /\ ~t.real /\ t.mode = s.mode
              /\ t.line = s.line + (lines - count)
              /\ Len(read') = Len(read) + 1 /\ Len(read') <= MaxInput
  PROVE  LinesAt(t)'
<1>a. PICK stored \in BOOLEAN : stored <=> token # <<>> \/ wasquoted
  OBVIOUS
<1>b. PICK b : b = IF stored THEN Append(buf, NUL) ELSE buf
  OBVIOUS
<1>c. PICK xs : xs = IF stored THEN Append(xp, argp) ELSE xp
  OBVIOUS
<1>d. PICK ln : ln = IF stored /\ opt.Iflag THEN JoinLine(inpline, CString(token)) ELSE inpline
  OBVIOUS
<1>e. PICK words : words = EndWord(s).words
  OBVIOUS
<1> DEFINE full == Len(b) > ebp
           after == [kind |-> IF atEof THEN "last" ELSE "limit"]
           dispatch == Len(xs) = opt.nargs \/ full \/ atEof \/ opt.Lflag <= lines
           object == Len(xs) # opt.nargs /\ full
<1>1. /\ buf' = b /\ xp' = xs /\ inpline' = ln /\ count' = lines
      /\ UNCHANGED <<opt, insingle, indouble, overlapped>>
      /\ \/ dispatch /\ object /\ pc' = "exit" /\ cmds' = cmds
         \/ dispatch /\ ~object /\ Prerun(b, xs, ln, after)
         \/ ~dispatch /\ argp' = Len(b) /\ wasquoted' = FALSE /\ pc' = pc /\ cmds' = cmds
  BY <1>a, <1>b, <1>c, <1>d, OnlyLinesFacts DEF EndArgument, control
<1>2. /\ Follows(s, token) /\ Ended /\ s.mode = OpenQuote /\ QuotesAgree
      /\ s.line = FirstLine + count /\ count < opt.Lflag
      /\ \A k \in DOMAIN cmds : FollowsLines(k, s.words)
      /\ Len(xp) <= Len(read)
  BY DEF Reading, Follows, Grouped
<1>3. /\ FirstLine \in Nat /\ count \in Nat /\ opt.Lflag \in Nat /\ lines \in Nat
      /\ Len(cmds) \in Nat /\ (Len(cmds) + 1) * opt.Lflag = FirstLine + opt.Lflag
  BY LinesOfFacts DEF IInv, TypeOK
<1>5. b \in Seq(Char) /\ xs \in Seq(Nat) /\ ln \in Seq(Char) \cup {NULL}
  BY <1>b, <1>c, <1>d, StoreFacts, CharFacts, AppendType, JoinLineType, CStringType
<1>6. /\ Collected(b, xs, ln, words)
      /\ \A i \in DOMAIN words : words[i].line <= s.line
      /\ \A k \in DOMAIN cmds : FollowsLines(k, words)
  BY <1>a, <1>b, <1>c, <1>d, <1>e, EndedCollects
<1>7. words \in Seq(WordType) /\ \A i \in DOMAIN words : words[i].line \in Nat
  <2>1. EndWord(s) \in ScanType
    BY EndWordType
  <2>2. words \in Seq(WordType)
    BY <1>e, <2>1 DEF ScanType, WordType
  <2>3. \A i \in DOMAIN words : words[i] \in WordType
    BY <2>2
  <2>4. \A w \in WordType : w.line \in Nat
    BY DEF WordType
  <2> QED
    BY <2>2, <2>3, <2>4
<1>8. ~atEof => Len(xs) # opt.nargs /\ Len(xs) <= Len(read')
  <2>1. Len(xs) <= Len(xp) + 1 /\ Len(xs) \in Nat
    BY <1>c, StoreFacts
  <2> QED
    BY <1>2, <2>1, StoreFacts, OnlyLinesFacts
<1>9. s.line \in Nat /\ t.line \in Nat /\ t.line >= FirstLine
      /\ (~atEof => t.line = FirstLine + lines /\ s.line <= t.line)
  BY <1>2, <1>3
<1>10. ~quoted /\ OpenQuote = "plain"
  BY <1>2 DEF QuotesAgree, OpenQuote, quoted
<1>11. EndWord(t).words = words
  BY <1>e, EndWordAgain
<1>12. IF atEof THEN t = s /\ lines = count
       ELSE t.words = words /\ t.cur = <<>> /\ ~t.real /\ t.mode = "plain"
  BY <1>2, <1>10, <1>e
<1> HIDE DEF after
<1>13. CASE pc' = "exit" /\ cmds' = cmds
  <2>1. \A k \in DOMAIN cmds : FollowsLines(k, t.words)
    BY <1>2, <1>6, <1>12
  <2>2. UNCHANGED <<opt, cmds>> /\ ~overlapped' /\ pc' \in {"exit", "drain"}
    BY <1>1, <1>13
  <2> QED
    BY <1>9, <2>1, <2>2, SettledUnchanged
<1>14. CASE dispatch /\ ~object /\ Prerun(b, xs, ln, after)
  <2>1. Len(cmds') = Len(cmds) + 1 /\ \A k \in DOMAIN cmds' : FollowsLines(k, words)'
    BY <1>1, <1>5, <1>6, <1>14, PrerunFollows
  <2>2. pc' = "run" /\ resume'.kind = (IF atEof THEN "last" ELSE "limit") /\ ~overlapped'
    BY <1>1, <1>14 DEF Prerun, after
  <2>3. Settled(t)'
    BY <1>11, <2>1 DEF Settled
  <2>4. CASE atEof
    BY <2>2, <2>3, <2>4 DEF LinesAt
  <2>5. CASE ~atEof
    <3>1. lines = opt.Lflag
      <4>1. opt.Lflag <= lines
        BY <1>8, <1>14, <2>5
      <4> QED
        BY <1>2, <1>3, <4>1
    <3>2. FirstLine' = FirstLine + opt.Lflag
      BY <1>1, <1>3, <2>1 DEF FirstLine
    <3>3. t.line = FirstLine' /\ s.line < t.line
      BY <1>2, <1>3, <1>9, <2>5, <3>1, <3>2
    <3>4. \A i \in DOMAIN t.words : t.words[i].line < t.line /\ t.words[i].line <= t.line
      BY <1>6, <1>7, <1>9, <1>12, <2>5, <3>3
    <3>5. ~quoted'
      BY <1>1, <1>10 DEF quoted
    <3>6. Grouped(t)'
      BY <1>12, <2>1, <2>5, <3>4 DEF Grouped
    <3>7. Between(t)'
      BY <1>12, <2>5, <3>3, <3>4, <3>5, <3>6 DEF Between
    <3> QED
      BY <2>2, <2>3, <2>5, <3>7 DEF LinesAt
  <2> QED
    BY <2>4, <2>5
<1>15. CASE ~dispatch /\ argp' = Len(b) /\ wasquoted' = FALSE /\ pc' = pc /\ cmds' = cmds
  <2>1. ~atEof /\ lines < opt.Lflag
    BY <1>3, <1>15
  <2>2. token' = <<>> /\ Ended'
    BY <1>1, <1>2, <1>b, <1>c, <1>15, ArgumentEnded
  <2>3. OpenQuote' = "plain" /\ QuotesAgree'
    BY <1>1, <1>2, <1>10, OpenQuoteKept DEF QuotesAgree, quoted
  <2>4. t.real = FALSE /\ t.words = words /\ t.cur = <<>> /\ t.mode = "plain"
    BY <1>12, <2>1 DEF ScanType
  <2>5. NoEof(t.words)'
    BY <1>1, OnlyLinesFacts DEF NoEof
  <2>6. Follows(t, token)'
    BY <1>15, <2>2, <2>3, <2>4, <2>5 DEF Follows
  <2>7. UNCHANGED <<opt, cmds>>
    BY <1>1, <1>15
  <2>8. FirstLine' = FirstLine /\ t.line = FirstLine' + count' /\ count' < opt'.Lflag
    BY <1>1, <1>9, <2>1, <2>7, FollowsUnchanged
  <2>9. \A k \in DOMAIN cmds' : FollowsLines(k, words)'
    BY <1>6, <2>7, FollowsUnchanged
  <2>10. Grouped(t)'
    <3>1. \A i \in DOMAIN words : words[i].line <= t.line
      BY <1>6, <1>7, <1>9, <2>1
    <3> QED
      BY <2>4, <2>9, <3>1 DEF Grouped
  <2>11. Collected(buf, xp, inpline, t.words)'
    <3>1. Collected(b, xs, ln, words)'
      BY <1>6, <2>7, FollowsUnchanged
    <3> QED
      BY <1>1, <2>4, <3>1 DEF Collected, ArgsOf
  <2>12. Reading(t)'
    BY <1>1, <1>8, <2>1, <2>2, <2>6, <2>8, <2>10, <2>11 DEF Reading
  <2>13. Settled(t)'
    BY <1>11, <2>9 DEF Settled
  <2> QED
    BY <1>1, <1>15, <2>12, <2>13 DEF LinesAt
<1> QED
  BY <1>1, <1>13, <1>14, <1>15

(* A step that reads a character and keeps it.                             *)
LEMMA KeepFollows ==
  ASSUME IInv, LinesInv, NEW ch \in Char, GetChar(ch), Kept(ch), AddCharacter(ch)
  PROVE  LinesInv'
<1>1. UNCHANGED opt /\ (OnlyLines' <=> OnlyLines)
  BY DEF AddCharacter, Fail, control, OnlyLines
<1> SUFFICES ASSUME OnlyLines PROVE \E t \in ScanType : t = Scan(read)' /\ LinesAt(t)'
  BY <1>1 DEF LinesInv
<1>2. PICK s \in ScanType : s = Scan(read) /\ LinesAt(s)
  BY DEF LinesInv
<1> DEFINE t == ScanOne(opt.zflag, s, ch)
<1>3. pc = "parse" /\ read' = Append(read, ch)
  BY DEF GetChar
<1>4. t \in ScanType /\ t = Scan(read)'
  BY <1>1, <1>2, <1>3, ScanStep
<1>5. Reading(s) /\ ~overlapped
  BY <1>2, <1>3 DEF LinesAt
<1>6. /\ t.words = s.words /\ t.cur = Append(s.cur, ch)
      /\ t.real = s.real /\ t.mode = s.mode /\ t.line = s.line
  BY <1>5, ScanKeeps DEF Reading, Follows
<1> HIDE DEF t
<1>7. read' \in Seq(Char) /\ Len(read) <= Len(read')
  BY <1>3, StoreFacts
<1>8. \A x \in ScanType : x = t => LinesAt(x)'
  BY <1>3, <1>5, <1>6, <1>7, AddCharacterFollows
<1> QED
  BY <1>4, <1>8

(* A step that reads a character and ends the word: a blank stays on the   *)
(* line, a newline (with -0, a NUL) ends it.                               *)
LEMMA EndFollows ==
  ASSUME IInv, LinesInv, NEW ch \in Char, GetChar(ch), NEW lines,
         lines = IF ch = SP THEN count ELSE count + 1,
         EndArgument(FALSE, lines),
         IF opt.zflag THEN ch = NUL ELSE ~quoted /\ ch \in {SP, NL}
  PROVE  LinesInv'
<1>1. UNCHANGED opt /\ (OnlyLines' <=> OnlyLines)
  BY DEF EndArgument, OnlyLines
<1> SUFFICES ASSUME OnlyLines PROVE \E t \in ScanType : t = Scan(read)' /\ LinesAt(t)'
  BY <1>1 DEF LinesInv
<1>2. PICK s \in ScanType : s = Scan(read) /\ LinesAt(s)
  BY DEF LinesInv
<1> DEFINE t == ScanOne(opt.zflag, s, ch)
<1>3. pc = "parse" /\ read' = Append(read, ch) /\ Len(read) < MaxInput
  BY DEF GetChar
<1>4. t \in ScanType /\ t = Scan(read)'
  BY <1>1, <1>2, <1>3, ScanStep
<1>5. Reading(s) /\ ~overlapped
  BY <1>2, <1>3 DEF LinesAt
<1>6. /\ t.words = EndWord(s).words /\ t.cur = <<>> /\ ~t.real /\ t.mode = s.mode
      /\ t.line = IF ch = SP THEN s.line ELSE s.line + 1
  BY <1>5, StoreFacts, EndedByScan DEF Reading, Follows
<1>7. s.line \in Nat /\ count \in Nat
  BY DEF ScanType, IInv, TypeOK
<1> HIDE DEF t
<1>8. t.line = s.line + (lines - count) /\ lines \in {count, count + 1}
  BY <1>6, <1>7
<1>9. Len(read') = Len(read) + 1 /\ Len(read') <= MaxInput
  BY <1>3, StoreFacts, OnlyLinesFacts
<1>10. \A x \in ScanType : x = t => LinesAt(x)'
  BY <1>3, <1>5, <1>6, <1>8, <1>9, EndArgumentFollows
<1> QED
  BY <1>4, <1>10

(* errx() while the input is read: the commands stay as they are.          *)
LEMMA FailFollows ==
  ASSUME IInv, OnlyLines, ~overlapped, Fail, NEW s \in ScanType, Reading(s),
         NEW t \in ScanType, t.words = s.words, t.line = s.line
  PROVE  LinesAt(t)'
<1>1. UNCHANGED <<opt, cmds>> /\ ~overlapped' /\ pc' \in {"exit", "drain"}
  BY DEF Fail
<1>2. FirstLine \in Nat /\ count \in Nat
  BY LinesOfFacts DEF IInv, TypeOK
<1>3. \A k \in DOMAIN cmds : FollowsLines(k, t.words)
  BY DEF Reading, Grouped
<1>4. t.line >= FirstLine
  BY <1>2 DEF Reading
<1> QED
  BY <1>1, <1>3, <1>4, SettledUnchanged

(* A newline inside quotes.                                                *)
LEMMA UnterminatedFollows ==
  ASSUME IInv, LinesInv, GetChar(NL), ~opt.zflag, quoted, Fail
  PROVE  LinesInv'
<1>1. UNCHANGED opt /\ (OnlyLines' <=> OnlyLines)
  BY DEF Fail, OnlyLines
<1> SUFFICES ASSUME OnlyLines PROVE \E t \in ScanType : t = Scan(read)' /\ LinesAt(t)'
  BY <1>1 DEF LinesInv
<1>2. PICK s \in ScanType : s = Scan(read) /\ LinesAt(s)
  BY DEF LinesInv
<1> DEFINE t == ScanOne(opt.zflag, s, NL)
<1>3. pc = "parse" /\ read' = Append(read, NL) /\ NL \in Char
  BY CharFacts DEF GetChar
<1>4. t \in ScanType /\ t = Scan(read)'
  BY <1>1, <1>2, <1>3, ScanStep
<1>5. Reading(s) /\ ~overlapped
  BY <1>2, <1>3 DEF LinesAt
<1>6. s.mode \in {SQ, DQ} /\ s.mode # "plain" /\ NL # s.mode
  BY <1>5, CharsDiffer DEF Reading, Follows, OpenQuote, quoted
<1>7. t = Keep(s, NL)
  BY <1>6 DEF ScanOne, ScanPlain
<1>8. t.words = s.words /\ t.line = s.line
  BY <1>3, <1>7, KeepType
<1> HIDE DEF t
<1>9. \A x \in ScanType : x = t => LinesAt(x)'
  BY <1>5, <1>8, FailFollows
<1> QED
  BY <1>4, <1>9

(* The backslash and the character it takes, or the end of the input.      *)
LEMMA EscapeFollows ==
  ASSUME IInv, LinesInv, Escape
  PROVE  LinesInv'
<1>1. pc = "parse" /\ ~opt.zflag /\ ~quoted /\ BS \in Char
      /\ \/ \E ch \in Char : read' = read \o <<BS, ch>> /\ AddCharacter(ch)
         \/ read' = Append(read, BS) /\ Fail
  BY CharFacts DEF Escape
<1>2. UNCHANGED opt /\ (OnlyLines' <=> OnlyLines)
  BY <1>1 DEF AddCharacter, Fail, control, OnlyLines
<1> SUFFICES ASSUME OnlyLines PROVE \E t \in ScanType : t = Scan(read)' /\ LinesAt(t)'
  BY <1>2 DEF LinesInv
<1>3. PICK s \in ScanType : s = Scan(read) /\ LinesAt(s)
  BY DEF LinesInv
<1>4. Reading(s) /\ ~overlapped /\ s.mode = OpenQuote
  BY <1>1, <1>3 DEF LinesAt, Reading, Follows
<1>5. ASSUME NEW ch \in Char, read' = read \o <<BS, ch>>, AddCharacter(ch)
      PROVE  \E t \in ScanType : t = Scan(read)' /\ LinesAt(t)'
  <2>1. PICK t \in ScanType :
          /\ t = Scan(read)'
          /\ t.words = s.words /\ t.cur = Append(s.cur, ch)
          /\ t.real = s.real /\ t.mode = s.mode /\ t.line = s.line
    BY <1>1, <1>2, <1>3, <1>4, <1>5, ScanEscapes
  <2>2. read' \in Seq(Char) /\ Len(read) <= Len(read')
    <3>1. Append(read, BS) \in Seq(Char) /\ read' = Append(Append(read, BS), ch)
      BY <1>1, <1>5, StoreFacts, ConcatTwo
    <3> QED
      BY <3>1, StoreFacts
  <2>3. LinesAt(t)'
    BY <1>1, <1>4, <1>5, <2>1, <2>2, AddCharacterFollows
  <2> QED
    BY <2>1, <2>3
<1>6. ASSUME read' = Append(read, BS), Fail
      PROVE  \E t \in ScanType : t = Scan(read)' /\ LinesAt(t)'
  <2> DEFINE t == ScanOne(opt.zflag, s, BS)
  <2>1. t \in ScanType /\ t = Scan(read)'
    BY <1>1, <1>2, <1>3, <1>6, ScanStep
  <2>2. t = [s EXCEPT !.mode = "esc"]
    BY <1>1, <1>4, CharsDiffer DEF ScanOne, ScanPlain, OpenQuote, quoted
  <2>3. t.words = s.words /\ t.line = s.line
    BY <2>2 DEF ScanType
  <2> HIDE DEF t
  <2>4. \A x \in ScanType : x = t => LinesAt(x)'
    BY <1>4, <1>6, <2>3, FailFollows
  <2> QED
    BY <2>1, <2>4
<1> QED
  BY <1>1, <1>5, <1>6

(* A quote is opened or closed.                                            *)
LEMMA QuoteFollows ==
  ASSUME IInv, LinesInv, NEW q \in {SQ, DQ}, GetChar(q), ~opt.zflag,
         q = SQ => ~indouble /\ insingle' = ~insingle /\ indouble' = indouble,
         q = DQ => ~insingle /\ indouble' = ~indouble /\ insingle' = insingle,
         wasquoted' = TRUE, UNCHANGED <<opt, store, pending, control, overlapped>>
  PROVE  LinesInv'
<1>1. /\ UNCHANGED <<opt, cmds, buf, argp, xp, count, inpline, pc, overlapped>>
      /\ (OnlyLines' <=> OnlyLines)
  BY DEF OnlyLines, store, pending, control
<1> SUFFICES ASSUME OnlyLines PROVE \E t \in ScanType : t = Scan(read)' /\ LinesAt(t)'
  BY <1>1 DEF LinesInv
<1>2. PICK s \in ScanType : s = Scan(read) /\ LinesAt(s)
  BY DEF LinesInv
<1> DEFINE t == ScanOne(opt.zflag, s, q)
<1>3. pc = "parse" /\ read' = Append(read, q) /\ q \in Char
  BY CharFacts DEF GetChar
<1>4. t \in ScanType /\ t = Scan(read)'
  BY <1>1, <1>2, <1>3, ScanStep
<1>5. Reading(s) /\ ~overlapped
  BY <1>2, <1>3 DEF LinesAt
<1>6. /\ s.cur = token /\ s.real = wasquoted /\ s.mode = OpenQuote /\ QuotesAgree
      /\ NoEof(s.words) /\ Ended
      /\ s.line = FirstLine + count /\ count < opt.Lflag
      /\ Grouped(s) /\ Collected(buf, xp, inpline, s.words) /\ Len(xp) <= Len(read)
  BY <1>5 DEF Reading, Follows
<1>7. s.mode = IF quoted THEN q ELSE "plain"
  BY <1>6, CharsDiffer DEF OpenQuote, quoted
<1>8. t = IF quoted THEN [s EXCEPT !.mode = "plain"] ELSE [s EXCEPT !.mode = q, !.real = TRUE]
  BY <1>7, CharsDiffer DEF ScanOne, ScanPlain
<1>9. quoted => s.real = TRUE
  BY <1>6, StoreFacts DEF QuotesAgree
<1>10. /\ t.words = s.words /\ t.cur = s.cur /\ t.real = TRUE
       /\ t.mode = (IF quoted THEN "plain" ELSE q) /\ t.line = s.line
  BY <1>8, <1>9 DEF ScanType
<1>11. OpenQuote' = t.mode /\ QuotesAgree'
  BY <1>6, <1>10, StoreFacts, CharsDiffer DEF OpenQuote, QuotesAgree, quoted
<1> HIDE DEF t
<1>12. token' = token /\ Ended'
  BY <1>1, <1>6 DEF token, Ended
<1>13. Len(read) <= Len(read')
  BY <1>3, StoreFacts
<1>14. Len(xp') <= Len(read')
  BY <1>1, <1>3, <1>6, StoreFacts, LenProperties
<1>15. ASSUME NEW x \in ScanType, x = t PROVE LinesAt(x)'
  <2>1. Follows(x, token)'
    BY <1>1, <1>6, <1>10, <1>11, <1>12, <1>15, NoEofKept DEF Follows
  <2>2. Grouped(x)' /\ Collected(buf, xp, inpline, x.words)'
    <3>1. Grouped(s)'
      BY <1>1, <1>6, FollowsUnchanged DEF Grouped
    <3>2. Collected(buf, xp, inpline, s.words)'
      BY <1>1, <1>6 DEF Collected, LinesOf, ArgsOf
    <3> QED
      BY <1>10, <1>15, <3>1, <3>2 DEF Grouped
  <2>3. x.line = FirstLine' + count' /\ count' < opt'.Lflag
    BY <1>1, <1>6, <1>10, <1>15, FollowsUnchanged
  <2>4. Reading(x)'
    BY <1>12, <1>14, <2>1, <2>2, <2>3 DEF Reading
  <2>5. Settled(x)'
    <3>1. FirstLine \in Nat /\ count \in Nat
      BY LinesOfFacts DEF IInv, TypeOK
    <3>2. x.line >= FirstLine /\ \A k \in DOMAIN cmds : FollowsLines(k, x.words)
      BY <1>6, <1>10, <1>15, <3>1 DEF Grouped
    <3>3. Settled(x)
      BY <3>2, GroupedSettles
    <3> QED
      BY <1>1, <3>3, FollowsUnchanged DEF Settled
  <2> QED
    BY <1>1, <1>3, <1>5, <2>4, <2>5 DEF LinesAt
<1> QED
  BY <1>4, <1>15

(* The end of the input: what is being read keeps the commands as they     *)
(* are, with nothing in the buffer and with an open quote.                 *)
LEMMA EofFollows ==
  ASSUME IInv, LinesInv, EofEmpty \/ EofArgument \/ EofInQuotes
  PROVE  LinesInv'
<1>1. pc = "parse" /\ UNCHANGED <<opt, read, overlapped>> /\ (OnlyLines' <=> OnlyLines)
  BY DEF EofEmpty, EofArgument, EofInQuotes, EndArgument, Fail, OnlyLines
<1> SUFFICES ASSUME OnlyLines PROVE \E s \in ScanType : s = Scan(read)' /\ LinesAt(s)'
  BY <1>1 DEF LinesInv
<1>2. PICK s \in ScanType : s = Scan(read) /\ LinesAt(s)
  BY DEF LinesInv
<1>3. Reading(s) /\ ~overlapped /\ s = Scan(read)'
  BY <1>1, <1>2 DEF LinesAt, Scan
<1>4. CASE EofEmpty
  <2>1. UNCHANGED <<opt, cmds>> /\ ~overlapped' /\ pc' \in {"exit", "drain"}
    BY <1>1, <1>3, <1>4 DEF EofEmpty
  <2>2. FirstLine \in Nat /\ count \in Nat
    BY LinesOfFacts DEF IInv, TypeOK
  <2>3. s.line >= FirstLine /\ \A k \in DOMAIN cmds : FollowsLines(k, s.words)
    BY <1>3, <2>2 DEF Reading, Grouped
  <2>4. LinesAt(s)'
    BY <2>1, <2>3, SettledUnchanged
  <2> QED
    BY <1>3, <2>4
<1>5. CASE EofArgument
  <2>1. EndArgument(TRUE, count) /\ ~quoted /\ count \in {count, count + 1}
    BY <1>5 DEF EofArgument
  <2>2. LinesAt(s)'
    BY <1>1, <1>3, <2>1, EndArgumentFollows
  <2> QED
    BY <1>3, <2>2
<1>6. CASE EofInQuotes
  <2>1. Fail
    BY <1>6 DEF EofInQuotes
  <2>2. LinesAt(s)'
    BY <1>3, <2>1, FailFollows
  <2> QED
    BY <1>3, <2>2
<1> QED
  BY <1>4, <1>5, <1>6

(* The program ends while a command runs: the command was issued.          *)
LEMMA RunExitsFollows ==
  ASSUME IInv, LinesInv, RunExits
  PROVE  LinesInv'
<1>1. pc' = "exit" /\ UNCHANGED <<opt, read, cmds, overlapped>> /\ (OnlyLines' <=> OnlyLines)
  BY DEF RunExits, Fail, OnlyLines
<1> SUFFICES ASSUME OnlyLines, NEW s \in ScanType, s = Scan(read), LinesAt(s)
             PROVE  s = Scan(read)' /\ LinesAt(s)'
  BY <1>1 DEF LinesInv
<1>2. s = Scan(read)'
  BY <1>1 DEF Scan
<1>3. Settled(s)'
  BY <1>1, FollowsUnchanged DEF LinesAt, Settled
<1> QED
  BY <1>1, <1>2, <1>3 DEF LinesAt

(* The return from prerun(): the next command starts with no word and,     *)
(* with -I, with no line, as no word is on a line of its group yet.        *)
LEMMA ResumeFollows ==
  ASSUME IInv, LinesInv, Resume
  PROVE  LinesInv'
<1>1. /\ pc = "run" /\ UNCHANGED <<opt, read, insingle, indouble, cmds>>
      /\ inpline' = (IF opt.Iflag /\ opt.argc > 0 THEN NULL ELSE inpline)
      /\ (OnlyLines' <=> OnlyLines)
  BY DEF Resume, OnlyLines
<1> SUFFICES ASSUME OnlyLines PROVE \E s \in ScanType : s = Scan(read)' /\ LinesAt(s)'
  BY <1>1 DEF LinesInv
<1>2. PICK s \in ScanType : s = Scan(read) /\ LinesAt(s)
  BY DEF LinesInv
<1>3. s = Scan(read)'
  BY <1>1, <1>2 DEF Scan
<1>4. resume.kind \in {"last", "limit"} /\ Settled(s) /\ ~overlapped
  BY <1>1, <1>2 DEF LinesAt
<1>5. Settled(s)'
  BY <1>1, <1>4, FollowsUnchanged DEF Settled
<1>6. CASE resume.kind = "last"
  <2>1. pc' = "drain" /\ overlapped' = overlapped
    BY <1>6 DEF Resume
  <2>2. LinesAt(s)'
    BY <1>4, <1>5, <2>1 DEF LinesAt
  <2> QED
    BY <1>3, <2>2
<1>7. CASE resume.kind = "limit"
  <2>1. /\ pc' = "parse" /\ overlapped' = overlapped
        /\ buf' = <<>> /\ argp' = 0 /\ xp' = <<>> /\ count' = 0 /\ wasquoted' = FALSE
    BY <1>7 DEF Resume
  <2>2. /\ s.cur = <<>> /\ ~s.real /\ s.mode = "plain" /\ ~quoted
        /\ s.line = FirstLine /\ Grouped(s)
        /\ \A i \in DOMAIN s.words : s.words[i].line < s.line
    BY <1>1, <1>2, <1>7 DEF LinesAt, Between
  <2>3. s.real = FALSE
    BY <2>2 DEF ScanType
  <2>4. OpenQuote' = "plain" /\ QuotesAgree' /\ NoEof(s.words)'
    BY <1>1, <2>2, OnlyLinesFacts DEF OpenQuote, QuotesAgree, quoted, NoEof
  <2>5. token' = <<>>
    BY <2>1, SubSeqEmpty DEF token
  <2>6. ArgsOf(buf, xp)' = <<>> /\ Ended'
    BY <2>1 DEF ArgsOf, Ended
  <2>7. Follows(s, token)'
    BY <2>1, <2>2, <2>3, <2>4, <2>5 DEF Follows
  <2>8. FirstLine' = FirstLine /\ FirstLine \in Nat /\ opt.Lflag > 0
    BY <1>1, FollowsUnchanged, LinesOfFacts
  <2>9. s.line = FirstLine' + count' /\ count' < opt'.Lflag
    BY <1>1, <2>1, <2>2, <2>8
  <2>10. Grouped(s)'
    BY <1>1, <2>2, FollowsUnchanged DEF Grouped
  <2>11. Collected(buf, xp, inpline, s.words)'
    <3> DEFINE ours == LinesOf(Len(cmds) + 1)
    <3>1. s.words \in Seq(WordType) /\ \A i \in DOMAIN s.words : s.words[i].line \in Nat
      <4>1. s.words \in Seq(WordType)
        BY DEF ScanType, WordType
      <4>2. \A i \in DOMAIN s.words : s.words[i] \in WordType
        BY <4>1
      <4>3. \A w \in WordType : w.line \in Nat
        BY DEF WordType
      <4> QED
        BY <4>1, <4>2, <4>3
    <3>2. \A line \in Nat : line \in ours => FirstLine <= line
      BY LinesOfFacts
    <3> HIDE DEF ours
    <3>3. \A i \in DOMAIN s.words : s.words[i].line \notin ours
      BY <2>2, <2>8, <3>1, <3>2
    <3>4. WordsOn(ours, s.words) = <<>>
      BY <3>1, <3>3, WordsOnNone
    <3>5. CStrings(<<>>) = <<>>
      BY DEF CStrings
    <3>6. <<>> = CStrings(WordsOn(LinesOf(Len(cmds) + 1), s.words))
      BY <3>4, <3>5 DEF ours
    <3>7. opt.Iflag => inpline' = Join(<<>>)
      BY <1>1, JoinEmpty, OnlyLinesFacts
    <3>8. UNCHANGED <<opt, cmds>>
      BY <1>1
    <3> QED
      BY <2>6, <3>6, <3>7, <3>8 DEF Collected, LinesOf
  <2>12. Len(xp') <= Len(read')
    BY <1>1, <2>1, StoreFacts, LenProperties
  <2>13. Reading(s)'
    BY <2>6, <2>7, <2>9, <2>10, <2>11, <2>12 DEF Reading
  <2>14. LinesAt(s)'
    BY <1>4, <1>5, <2>1, <2>13 DEF LinesAt
  <2> QED
    BY <1>3, <2>14
<1> QED
  BY <1>4, <1>6, <1>7

(* The steps of the reader.                                                *)
LEMMA ParseFollows == ASSUME IInv, LinesInv, Parse PROVE LinesInv'
<1>1. CASE EofEmpty \/ EofArgument \/ EofInQuotes
  BY <1>1, EofFollows
<1>2. CASE Blank
  <2>1. GetChar(SP) /\ SP \in Char /\ SP # NUL
    BY <1>2, CharFacts, CharsDiffer DEF Blank
  <2>2. CASE quoted \/ opt.zflag
    <3>1. AddCharacter(SP) /\ Kept(SP)
      BY <1>2, <2>1, <2>2 DEF Blank, Kept
    <3> QED
      BY <2>1, <3>1, KeepFollows
  <2>3. CASE ~(quoted \/ opt.zflag)
    <3>1. EndArgument(FALSE, count)
      BY <1>2, <2>3 DEF Blank
    <3> QED
      BY <2>1, <2>3, <3>1, EndFollows
  <2> QED
    BY <2>2, <2>3
<1>3. CASE Nul
  <2>1. GetChar(NUL) /\ NUL \in Char /\ NUL # SP
    BY <1>3, CharFacts, CharsDiffer DEF Nul
  <2>2. CASE opt.zflag
    <3>1. EndArgument(FALSE, count + 1)
      BY <1>3, <2>2 DEF Nul
    <3> QED
      BY <2>1, <2>2, <3>1, EndFollows
  <2>3. CASE ~opt.zflag
    <3>1. AddCharacter(NUL) /\ Kept(NUL)
      BY <1>3, <2>3 DEF Nul, Kept
    <3> QED
      BY <2>1, <3>1, KeepFollows
  <2> QED
    BY <2>2, <2>3
<1>4. CASE Newline
  <2>1. GetChar(NL) /\ NL \in Char /\ NL # NUL /\ NL # SP
    BY <1>4, CharFacts, CharsDiffer DEF Newline
  <2>2. CASE opt.zflag /\ AddCharacter(NL)
    <3>1. Kept(NL)
      BY <2>1, <2>2 DEF Kept
    <3> QED
      BY <2>1, <2>2, <3>1, KeepFollows
  <2>3. CASE ~opt.zflag /\ quoted /\ Fail
    BY <2>1, <2>3, UnterminatedFollows
  <2>4. CASE ~opt.zflag /\ ~quoted /\ EndArgument(FALSE, count + 1)
    BY <2>1, <2>4, EndFollows
  <2> QED
    BY <1>4, <2>2, <2>3, <2>4 DEF Newline
<1>5. CASE SingleQuote
  <2>1. GetChar(SQ) /\ SQ \in Char /\ SQ # NUL /\ SQ # DQ
    BY <1>5, CharFacts, CharsDiffer DEF SingleQuote
  <2>2. CASE (indouble \/ opt.zflag) /\ AddCharacter(SQ)
    <3>1. Kept(SQ)
      BY <2>1, <2>2 DEF Kept
    <3> QED
      BY <2>1, <2>2, <3>1, KeepFollows
  <2>3. CASE /\ ~indouble /\ ~opt.zflag
             /\ insingle' = ~insingle /\ wasquoted' = TRUE
             /\ UNCHANGED <<opt, store, indouble, pending, control, overlapped>>
    BY <2>1, <2>3, QuoteFollows
  <2> QED
    BY <1>5, <2>2, <2>3 DEF SingleQuote
<1>6. CASE DoubleQuote
  <2>1. GetChar(DQ) /\ DQ \in Char /\ DQ # NUL /\ SQ # DQ
    BY <1>6, CharFacts, CharsDiffer DEF DoubleQuote
  <2>2. CASE (insingle \/ opt.zflag) /\ AddCharacter(DQ)
    <3>1. Kept(DQ)
      BY <2>1, <2>2 DEF Kept
    <3> QED
      BY <2>1, <2>2, <3>1, KeepFollows
  <2>3. CASE /\ ~insingle /\ ~opt.zflag
             /\ indouble' = ~indouble /\ wasquoted' = TRUE
             /\ UNCHANGED <<opt, store, insingle, pending, control, overlapped>>
    BY <2>1, <2>3, QuoteFollows
  <2> QED
    BY <1>6, <2>2, <2>3 DEF DoubleQuote
<1>7. CASE Backslash
  <2>1. GetChar(BS) /\ AddCharacter(BS) /\ BS \in Char /\ Kept(BS)
    BY <1>7, CharFacts, CharsDiffer DEF Backslash, Kept
  <2> QED
    BY <2>1, KeepFollows
<1>8. CASE Escape
  BY <1>8, EscapeFollows
<1>9. CASE Ordinary
  <2>1. PICK ch \in Plain : GetChar(ch) /\ AddCharacter(ch)
    BY <1>9 DEF Ordinary
  <2>2. ch \in Char /\ Kept(ch)
    BY CharFacts, CharsDiffer DEF Kept
  <2> QED
    BY <2>1, <2>2, KeepFollows
<1> QED
  BY <1>1, <1>2, <1>3, <1>4, <1>5, <1>6, <1>7, <1>8, <1>9 DEF Parse

(* The first state: no line, no word and no command.                       *)
LEMMA InitFollows == Init => LinesInv
<1> SUFFICES ASSUME Init, OnlyLines PROVE \E s \in ScanType : s = Scan(read) /\ LinesAt(s)
  BY DEF LinesInv
<1>1. IInv
  BY InitInv
<1>2. Scan(read) = EmptyScan /\ EmptyScan \in ScanType
  BY <1>1, StoreFacts, ScanEmpty, EmptyScanType DEF Init, Scan
<1>3. /\ EmptyScan.words = <<>> /\ EmptyScan.cur = <<>> /\ EmptyScan.real = FALSE
      /\ EmptyScan.mode = "plain" /\ EmptyScan.line = 0
  BY DEF EmptyScan
<1>4. /\ buf = <<>> /\ xp = <<>> /\ cmds = <<>> /\ argp = 0 /\ count = 0 /\ inpline = NULL
      /\ read = <<>> /\ wasquoted = FALSE /\ pc = "parse" /\ overlapped = FALSE
  BY DEF Init
<1>5. DOMAIN cmds = {} /\ Len(cmds) = 0 /\ Len(xp) = 0 /\ Len(read) = 0
  BY <1>4
<1>6. Settled(EmptyScan) /\ Grouped(EmptyScan)
  <2>1. DOMAIN EmptyScan.words = {}
    BY <1>3
  <2> QED
    BY <1>5, <2>1 DEF Settled, Grouped
<1>7. token = <<>>
  BY SubSeqEmpty DEF Init, token
<1>8. NoEof(EmptyScan.words) /\ Ended /\ QuotesAgree /\ OpenQuote = "plain"
  BY DEF Init, NoEof, EmptyScan, Ended, QuotesAgree, OpenQuote, quoted
<1>9. Collected(buf, xp, inpline, EmptyScan.words)
  <2>1. ArgsOf(buf, xp) = <<>> /\ CStrings(<<>>) = <<>>
    BY <1>4 DEF ArgsOf, CStrings
  <2>2. \A lines : WordsOn(lines, EmptyScan.words) = <<>>
    <3>1. EmptyScan.words \in Seq(WordType) /\ DOMAIN EmptyScan.words = {}
      BY <1>3
    <3> QED
      BY <3>1, WordsOnNone
  <2> QED
    BY <1>4, <2>1, <2>2, JoinEmpty DEF Collected
<1>10. FirstLine = 0 /\ opt.Lflag > 0
  <2>1. opt.Lflag \in Nat /\ opt.Lflag > 0
    BY <1>1, LinesOfFacts
  <2> QED
    BY <1>5, <2>1 DEF FirstLine
<1>11. Reading(EmptyScan)
  <2>1. Follows(EmptyScan, token)
    BY <1>3, <1>4, <1>7, <1>8 DEF Follows
  <2>2. EmptyScan.line = FirstLine + count /\ count < opt.Lflag /\ Len(xp) <= Len(read)
    BY <1>3, <1>4, <1>5, <1>10
  <2> QED
    BY <1>6, <1>8, <1>9, <2>1, <2>2 DEF Reading
<1> QED
  BY <1>2, <1>4, <1>6, <1>11 DEF LinesAt

(* Every step.                                                             *)
LEMMA NextFollows == IInv /\ LinesInv /\ [Next]_vars => LinesInv'
<1> SUFFICES ASSUME IInv, LinesInv, [Next]_vars PROVE LinesInv'
  OBVIOUS
<1>1. CASE Parse
  BY <1>1, ParseFollows
<1>2. CASE RunExits
  BY <1>2, RunExitsFollows
<1>3. CASE Resume
  BY <1>3, ResumeFollows
<1>4. CASE UNCHANGED vars
  <2>1. /\ UNCHANGED <<opt, read, buf, argp, xp, insingle, indouble, wasquoted, count,
                       inpline, cmds, resume, pc, overlapped>>
        /\ UNCHANGED <<opt, cmds>>
    BY <1>4 DEF vars, store, quotes, pending, control
  <2>2. OnlyLines' <=> OnlyLines
    BY <2>1 DEF OnlyLines
  <2> SUFFICES ASSUME OnlyLines, NEW s \in ScanType, s = Scan(read), LinesAt(s)
               PROVE  s = Scan(read)' /\ LinesAt(s)'
    BY <2>2 DEF LinesInv
  <2>3. s = Scan(read)'
    BY <2>1 DEF Scan
  <2>4. ArgsOf(buf, xp)' = ArgsOf(buf, xp) /\ token' = token /\ OpenQuote' = OpenQuote
    BY <2>1 DEF ArgsOf, token, OpenQuote
  <2>5. (QuotesAgree' <=> QuotesAgree) /\ (Ended' <=> Ended) /\ (quoted' <=> quoted)
        /\ (NoEof(s.words)' <=> NoEof(s.words))
    BY <2>1 DEF QuotesAgree, quoted, Ended, NoEof
  <2>6. FirstLine' = FirstLine
    BY <2>1 DEF FirstLine
  <2>7. (Grouped(s) => Grouped(s)') /\ (Settled(s) => Settled(s)')
    BY <2>1, FollowsUnchanged DEF Grouped, Settled
  <2>8. Collected(buf, xp, inpline, s.words) => Collected(buf, xp, inpline, s.words)'
    BY <2>1, <2>4 DEF Collected, LinesOf
  <2>9. Follows(s, token) => Follows(s, token)'
    BY <2>1, <2>4, <2>5 DEF Follows
  <2>10. Reading(s) => Reading(s)'
    BY <2>1, <2>5, <2>6, <2>7, <2>8, <2>9 DEF Reading
  <2>11. Between(s) => Between(s)'
    BY <2>5, <2>6, <2>7 DEF Between
  <2>12. LinesAt(s)'
    BY <2>1, <2>7, <2>10, <2>11 DEF LinesAt
  <2> QED
    BY <2>3, <2>12
<1> QED
  BY <1>1, <1>2, <1>3, <1>4 DEF Next

(***************************************************************************)
(* With -L and with -I, the k-th command is the k-th group of lines, blank *)
(* lines counted, and the line that replaces replstr is made of the words  *)
(* of its own group only: for every input, every setting and every bound.  *)
(***************************************************************************)
THEOREM CommandsKeepToLines == Spec => []CommandsFollowLines
<1>1. Init => LinesInv
  BY InitFollows
<1>2. IInv /\ LinesInv /\ [Next]_vars => LinesInv'
  BY NextFollows
<1>3. LinesInv => CommandsFollowLines
  BY LinesInvSuffices
<1> QED
  BY <1>1, <1>2, <1>3, Invariance, PTL DEF Spec
=============================================================================
