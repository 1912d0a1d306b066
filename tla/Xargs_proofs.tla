---------------------------- MODULE Xargs_proofs ----------------------------
(***************************************************************************)
(* xargs as one process: what is proved of the reader                      *)
(* (XargsArguments_proofs) and of the commands (XargsRun_proofs) is put    *)
(* together here.  Every step of the process is a step of each half or     *)
(* leaves it alone, so each half's invariant holds; the joint invariant    *)
(* says how the halves stand to each other.                                *)
(***************************************************************************)
EXTENDS Xargs, TLAPS, SequenceTheorems

(* The halves, with what is proved of them. *)
RP == INSTANCE XargsArguments_proofs WITH pc <- reader
UP == INSTANCE XargsRun_proofs WITH pc <- runner, MaxJobs <- MaxInput + 1

(* What the theorems about the two halves assume holds of this process.    *)
LEMMA Assumed ==
  /\ Plain \cap (RP!Special \cup {"NULL"}) = {}
  /\ Settings \subseteq RP!SettingType
  /\ \A o \in Settings : /\ o.jfound => o.jrest < o.argc
                         /\ o.xflag <=> o.Iflag \/ o.Lflag # 0
  /\ MaxInput \in Nat
  /\ MaxInput + 1 \in Nat
  /\ MaxProcs \in Nat \ {0}
  /\ pflag \in BOOLEAN /\ (pflag => MaxProcs = 1)
BY XargsAssumption DEF RP!Special, Reader!Special, RP!SettingType, Reader!SettingType,
  RP!Char, Reader!Char, RP!NUL, RP!SP, RP!NL, RP!SQ, RP!DQ, RP!BS,
  Reader!NUL, Reader!SP, Reader!NL, Reader!SQ, Reader!DQ, Reader!BS

-----------------------------------------------------------------------------
(***************************************************************************)
(* Xargs names the halves Reader and Runner, the theorems about them come  *)
(* under the names RP and UP: the definitions are the same, bottom up.     *)
(***************************************************************************)

(* Reading a character.                                                    *)
LEMMA SameGet == \A ch : Reader!GetChar(ch) <=> RP!GetChar(ch)
BY DEF Reader!GetChar, RP!GetChar

(* The meaning of an input, by which the words are judged.                 *)
LEMMA SameScan == \A z, i : Reader!ScanOf(z, i) = RP!ScanOf(z, i)
BY DEF Reader!ScanOf, RP!ScanOf, Reader!ScanOne, RP!ScanOne, Reader!ScanNulls, RP!ScanNulls,
 Reader!ScanPlain, RP!ScanPlain, Reader!Keep, RP!Keep, Reader!NextLine, RP!NextLine,
 Reader!EndWord, RP!EndWord, Reader!EmptyScan, RP!EmptyScan,
 RP!NUL, RP!SP, RP!NL, RP!SQ, RP!DQ, RP!BS,
  Reader!NUL, Reader!SP, Reader!NL, Reader!SQ, Reader!DQ, Reader!BS

(* Cardinalities.                                                          *)
LEMMA SameCardinality == \A S : Reader!Cardinality(S) = RP!Cardinality(S)
BY DEF Reader!Cardinality, RP!Cardinality

(* What a C string of the buffer holds.                                    *)
LEMMA SameCString == \A s : Reader!CString(s) = RP!CString(s)
BY SameCardinality DEF Reader!CString, RP!CString, RP!NUL, Reader!NUL

(* Concatenation, and a sequence without its last element.                 *)
LEMMA SameFlatten == \A s : Reader!FlattenSeq(s) = RP!FlattenSeq(s)
BY DEF Reader!FlattenSeq, RP!FlattenSeq

(* The operators of the two instances and of the modules with the theorems *)
(* about them are the same: of the reader, what is at the front of its     *)
(* input,                                                                  *)
LEMMA SameFront == \A s : Reader!Front(s) = RP!Front(s)
BY DEF Reader!Front, RP!Front

(* The command that a buffer holds.                                        *)
LEMMA SameCommand ==
  \A b, starts, line : Reader!Command(b, starts, line) = RP!Command(b, starts, line)
BY SameCString, Zenon DEF Reader!Command, RP!Command

(* The limits, the argument being read, and the groups of variables.       *)
LEMMA SameSmall ==
  /\ Reader!ebp = RP!ebp /\ Reader!token = RP!token /\ (Reader!quoted <=> RP!quoted)
  /\ Reader!NULL = RP!NULL
  /\ Reader!store = RP!store /\ Reader!quotes = RP!quotes /\ Reader!pending = RP!pending
  /\ Reader!control = RP!control /\ Reader!vars = RP!vars
  /\ Reader!NUL = RP!NUL /\ Reader!SP = RP!SP /\ Reader!NL = RP!NL /\ Reader!SQ = RP!SQ
  /\ Reader!DQ = RP!DQ /\ Reader!BS = RP!BS /\ Reader!Char = RP!Char
BY DEF Reader!ebp, RP!ebp, Reader!token, RP!token, Reader!quoted, RP!quoted,
   Reader!NULL, RP!NULL, Reader!store, RP!store, Reader!quotes, RP!quotes,
   Reader!pending, RP!pending, Reader!control, RP!control, Reader!vars, RP!vars,
   Reader!Char, RP!Char, Reader!Special, RP!Special, RP!NUL, RP!SP, RP!NL, RP!SQ, RP!DQ,
   RP!BS, Reader!NUL, Reader!SP, Reader!NL, Reader!SQ, Reader!DQ, Reader!BS

(* The end-of-file string.                                                 *)
LEMMA SameFound == Reader!FoundEof <=> RP!FoundEof
BY SameSmall DEF Reader!FoundEof, RP!FoundEof, Reader!StartsLike, RP!StartsLike

(* The text that replaces replstr.                                         *)
LEMMA SameJoinLine == \A l, a : Reader!JoinLine(l, a) = RP!JoinLine(l, a)
BY SameSmall DEF Reader!JoinLine, RP!JoinLine

(* The call of prerun(), and errx().                                       *)
LEMMA SamePrerun ==
  \A b, starts, line, after :
    Reader!Prerun(b, starts, line, after) <=> RP!Prerun(b, starts, line, after)
BY SameCommand DEF Reader!Prerun, RP!Prerun

(* its failures,                                                           *)
LEMMA SameFail == Reader!Fail <=> RP!Fail
BY DEF Reader!Fail, RP!Fail, Reader!store, RP!store, Reader!quotes, RP!quotes,
   Reader!pending, RP!pending

(* arg: and arg2: of parse_input(), and addch:.                            *)
LEMMA SameEndArgument ==
  \A atEof, lines : Reader!EndArgument(atEof, lines) <=> RP!EndArgument(atEof, lines)
BY SameSmall, SameFound, SameJoinLine, SameCString, SamePrerun
DEF Reader!EndArgument, RP!EndArgument, Reader!control, RP!control

(* and what it does with a character;                                      *)
LEMMA SameAddCharacter == \A ch : Reader!AddCharacter(ch) <=> RP!AddCharacter(ch)
BY SameSmall, SameFail, SamePrerun
DEF Reader!AddCharacter, RP!AddCharacter, Reader!store, RP!store, Reader!quotes,
    RP!quotes, Reader!pending, RP!pending, Reader!control, RP!control

(* The initial states.                                                     *)
LEMMA SameInit == Reader!Init <=> RP!Init
BY SameSmall DEF Reader!Init, RP!Init

(* So are the actions.                                                     *)
LEMMA SameParse == Reader!Parse <=> RP!Parse
<1> USE SameSmall, SameGet, SameFail, SameEndArgument, SameAddCharacter
    DEF Reader!store, RP!store, Reader!quotes, RP!quotes, Reader!pending, RP!pending,
        Reader!control, RP!control
<1>1. Reader!EofEmpty <=> RP!EofEmpty
  BY DEF Reader!EofEmpty, RP!EofEmpty
<1>2. Reader!EofArgument <=> RP!EofArgument
  BY DEF Reader!EofArgument, RP!EofArgument
<1>3. Reader!EofInQuotes <=> RP!EofInQuotes
  BY DEF Reader!EofInQuotes, RP!EofInQuotes
<1>4. Reader!Blank <=> RP!Blank
  BY DEF Reader!Blank, RP!Blank
<1>5. Reader!Nul <=> RP!Nul
  BY DEF Reader!Nul, RP!Nul
<1>6. Reader!Newline <=> RP!Newline
  BY DEF Reader!Newline, RP!Newline
<1>7. Reader!SingleQuote <=> RP!SingleQuote
  BY DEF Reader!SingleQuote, RP!SingleQuote
<1>8. Reader!DoubleQuote <=> RP!DoubleQuote
  BY DEF Reader!DoubleQuote, RP!DoubleQuote
<1>9. Reader!Backslash <=> RP!Backslash
  BY DEF Reader!Backslash, RP!Backslash
<1>10. Reader!Escape <=> RP!Escape
  BY DEF Reader!Escape, RP!Escape
<1>11. Reader!Ordinary <=> RP!Ordinary
  BY DEF Reader!Ordinary, RP!Ordinary
<1> QED
  BY <1>1, <1>2, <1>3, <1>4, <1>5, <1>6, <1>7, <1>8, <1>9, <1>10, <1>11
  DEF Reader!Parse, RP!Parse

(* The reader's next-state relation is the one that its proofs are about.  *)
LEMMA SameNext == Reader!Next <=> RP!Next
<1> USE SameFail DEF Reader!store, RP!store, Reader!quotes, RP!quotes, Reader!pending,
      RP!pending, Reader!control, RP!control
<1>1. Reader!RunExits <=> RP!RunExits
  BY DEF Reader!RunExits, RP!RunExits
<1>2. Reader!Resume <=> RP!Resume
  BY SameSmall DEF Reader!Resume, RP!Resume, Reader!CopyDown, RP!CopyDown
<1> QED
  BY <1>1, <1>2, SameParse DEF Reader!Next, RP!Next

(* What a status means for xargs, and waiting for a child.                 *)
LEMMA SameReport == \A s : Runner!Report(s) <=> UP!Report(s)
BY DEF Runner!Report, UP!Report, Runner!Exit, UP!Exit, Runner!ExecStatus, UP!ExecStatus,
   Runner!ENOENT, UP!ENOENT

(* of the commands, the waiting for a child,                               *)
LEMMA SameReap == \A k : Runner!Reap(k) <=> UP!Reap(k)
BY SameReport DEF Runner!Reap, UP!Reap, Runner!Zombies, UP!Zombies

(* The steps of the children.                                              *)
LEMMA SameChild == \A k : Runner!Child(k) <=> UP!Child(k)
BY DEF Runner!Child, UP!Child, Runner!Executes, UP!Executes, Runner!SetupFails,
   UP!SetupFails, Runner!ExecFails, UP!ExecFails, Runner!Ends, UP!Ends,
   Runner!BecomesZombie, UP!BecomesZombie, Runner!Status, UP!Status, Runner!Errno,
   UP!Errno, Runner!ENOENT, UP!ENOENT

(* The steps of run(), waitchildren() and the reader, as the pool sees     *)
(* them.                                                                   *)
LEMMA SameParent ==
  /\ Runner!Declined <=> UP!Declined
  /\ Runner!Vfork <=> UP!Vfork
  /\ Runner!VforkFails <=> UP!VforkFails
  /\ Runner!VforkReturns <=> UP!VforkReturns
  /\ Runner!NoneReady <=> UP!NoneReady
  /\ Runner!NoChildren <=> UP!NoChildren
  /\ Runner!EndOfInput <=> UP!EndOfInput
  /\ Runner!InputError <=> UP!InputError
BY DEF Runner!Declined, UP!Declined, Runner!Vfork, UP!Vfork, Runner!VforkFails,
   UP!VforkFails, Runner!VforkReturns, UP!VforkReturns, Runner!NoneReady, UP!NoneReady,
   Runner!NoChildren, UP!NoChildren, Runner!EndOfInput, UP!EndOfInput,
   Runner!InputError, UP!InputError, Runner!Ask, UP!Ask, Runner!Exit, UP!Exit,
   Runner!Unreaped, UP!Unreaped, Runner!Zombies, UP!Zombies

(* The initial states and the steps of the pool.                           *)
LEMMA SameRunnerInit == Runner!Init <=> UP!Init
BY DEF Runner!Init, UP!Init

(* and the whole step.                                                     *)
LEMMA SameRunnerNext == Runner!Next <=> UP!Next
BY SameReap, SameChild, SameParent DEF Runner!Next, UP!Next, Runner!Parent, UP!Parent

-----------------------------------------------------------------------------

(* Whatever the process does is a step of the reader alone, or none of its.*)
LEMMA ReaderSteps == [Next]_vars => [Reader!Next]_(Reader!vars)
<1>1. UNCHANGED readerVars => UNCHANGED Reader!vars
  BY DEF readerVars, Reader!vars, Reader!store, Reader!quotes, Reader!pending,
     Reader!control
<1>2. Process => Reader!Next \/ UNCHANGED readerVars
  BY DEF Process, Read, Returned, InRun, Reader!Next
<1> QED
  BY <1>1, <1>2 DEF Next, vars, Child

(* It is a step of the commands alone, or none of theirs: what the reader  *)
(* does at the end of the input and on an error is EndOfInput and          *)
(* InputError.                                                             *)
LEMMA RunnerSteps == [Next]_vars => [Runner!Next]_(Runner!vars)
<1>1. UNCHANGED runnerVars => UNCHANGED Runner!vars
  BY DEF runnerVars, Runner!vars
<1>2. Follow => Runner!Next \/ UNCHANGED runnerVars
  BY DEF Follow, Runner!Next, Runner!Parent
<1>3. InRun => Runner!Next
  BY DEF InRun, RunCommand, Runner!Next, Runner!Parent
<1> QED
  BY <1>1, <1>2, <1>3 DEF Next, vars, Child, Process, Read, Returned, Runner!Next

(* The process implements both halves: the reader of XargsArguments, which *)
(* its caller may stop at any command, and the commands of XargsRun, which *)
(* expect nothing of the reader.                                           *)
THEOREM EachHalfKept == Spec => Reader!Spec /\ Runner!SafeSpec
<1>1. Init => Reader!Init /\ Runner!Init
  BY DEF Init
<1>2. [Next]_vars => [Reader!Next]_(Reader!vars) /\ [Runner!Next]_(Runner!vars)
  BY ReaderSteps, RunnerSteps
<1> QED
  BY <1>1, <1>2, PTL DEF Spec, Reader!Spec, Runner!SafeSpec

-----------------------------------------------------------------------------
(***************************************************************************)
(* How the halves stand to each other.  One command at most is asked for   *)
(* and not yet run, and then run() is about to begin; the pool is drained  *)
(* or has ended when the reader says so, and without -p there is a child   *)
(* for every command, unless vfork() failed.                               *)
(***************************************************************************)
JointInv ==
  /\ \/ asked = Len(cmds)
     \/ asked + 1 = Len(cmds) /\ reader = "run" /\ runner = "read"
  /\ reader = "parse" => runner = "read"
  /\ reader = "drain" => runner \in {"drain", "exit"}
  /\ reader = "exit" => runner = "exit" /\ code # 0
  /\ runner = "drain" => reader = "drain"
  /\ runner = "exit" => reader \in {"drain", "exit"}
  /\ ~pflag => (Len(kids) = asked \/ (runner = "exit" /\ code = 1))

(* So what is proved of each half holds of the process.                    *)
LEMMA HalfInvariants == Spec => [](RP!IInv /\ UP!RunInv /\ RP!AllWordsDelivered)
<1>1. Init => RP!Init /\ UP!Init
  BY SameInit, SameRunnerInit DEF Init
<1>2. [Next]_vars => [RP!Next]_(RP!vars) /\ [UP!Next]_(UP!vars)
  <2>1. UNCHANGED Reader!vars <=> UNCHANGED RP!vars
    BY DEF Reader!vars, Reader!store, Reader!quotes, Reader!pending, Reader!control,
           RP!vars, RP!store, RP!quotes, RP!pending, RP!control
  <2>2. UNCHANGED Runner!vars <=> UNCHANGED UP!vars
    BY DEF Runner!vars, UP!vars
  <2>3. [Reader!Next]_(Reader!vars) => [RP!Next]_(RP!vars)
    BY <2>1, SameNext
  <2>4. [Runner!Next]_(Runner!vars) => [UP!Next]_(UP!vars)
    BY <2>2, SameRunnerNext
  <2> QED
    BY <2>3, <2>4, ReaderSteps, RunnerSteps
<1>3. RP!Init => RP!IInv /\ RP!WordsInv
  BY RP!InitInv, RP!InitAgrees, Assumed
<1>4. UP!Init => UP!RunInv
  BY UP!InitRunInv, Assumed
<1>5. RP!IInv /\ [RP!Next]_(RP!vars) => RP!IInv'
  BY RP!NextInv, Assumed
<1>6. RP!IInv /\ RP!WordsInv /\ [RP!Next]_(RP!vars) => RP!WordsInv'
  BY RP!NextAgrees, Assumed
<1>7. UP!RunInv /\ [UP!Next]_(UP!vars) => UP!RunInv'
  BY UP!NextRunInv, Assumed
<1>8. RP!WordsInv => RP!AllWordsDelivered
  BY RP!WordsInvSuffices, Assumed
<1> QED
  BY <1>1, <1>2, <1>3, <1>4, <1>5, <1>6, <1>7, <1>8, PTL DEF Spec

(* The types that the counting below relies on.                            *)
LEMMA CountsTyped ==
  ASSUME RP!IInv, UP!RunInv
  PROVE  /\ Len(cmds) \in Nat /\ Len(kids) \in Nat /\ asked \in Nat
         /\ runner \in {"read", "vfork", "wait", "drain", "exit"}
         /\ reader \in {"parse", "run", "drain", "exit"}
         /\ DOMAIN kids = 1 .. Len(kids)
<1>1. Len(kids) \in Nat /\ DOMAIN kids = 1 .. Len(kids)
  BY UP!KidsFacts, Assumed DEF UP!RunInv
<1>2. asked \in Nat /\ runner \in {"read", "vfork", "wait", "drain", "exit"}
  BY Assumed DEF UP!RunInv, UP!TypeOK
<1>3. Len(cmds) \in Nat /\ reader \in {"parse", "run", "drain", "exit"}
  BY LenProperties DEF RP!IInv, RP!TypeOK
<1> QED
  BY <1>1, <1>2, <1>3

(* The joint invariant at the start.                                       *)
LEMMA JointInit == Init => JointInv
BY DEF Init, Reader!Init, Runner!Init, JointInv

(* What the steps of the reader do to what the two halves share.           *)
LEMMA ReaderShape ==
  /\ Reader!Parse => /\ reader = "parse"
                     /\ \/ reader' = "run" /\ \E c : cmds' = Append(cmds, c)
                        \/ reader' # "run" /\ cmds' = cmds
                     /\ reader' \in {"parse", "run", "drain", "exit"}
  /\ Reader!Resume => /\ reader = "run" /\ cmds' = cmds /\ reader' \in {"parse", "drain"}
  /\ Reader!RunExits => /\ reader = "run" /\ cmds' = cmds /\ reader' = "exit"
<1> USE DEF Reader!Prerun, Reader!control, Reader!Fail
<1>1. Reader!Resume => /\ reader = "run" /\ cmds' = cmds /\ reader' \in {"parse", "drain"}
  BY DEF Reader!Resume
<1>2. Reader!RunExits => /\ reader = "run" /\ cmds' = cmds /\ reader' = "exit"
  BY DEF Reader!RunExits
<1> DEFINE Stays(r) == \/ reader' = "run" /\ \E c : cmds' = Append(cmds, c)
                       \/ reader' \in {r, "drain", "exit"} /\ cmds' = cmds
<1>3. \A atEof, lines : Reader!EndArgument(atEof, lines) => Stays(reader)
  BY DEF Reader!EndArgument
<1>4. \A ch : Reader!AddCharacter(ch) => Stays(reader)
  BY DEF Reader!AddCharacter
<1>5. Reader!Fail => Stays(reader)
  OBVIOUS
<1>6. \A ch : Reader!GetChar(ch) => reader = "parse"
  BY DEF Reader!GetChar
<1>7. Reader!SingleQuote \/ Reader!DoubleQuote => reader = "parse" /\ Stays(reader)
  BY <1>4, <1>6 DEF Reader!SingleQuote, Reader!DoubleQuote
<1>8. Reader!EofEmpty => reader = "parse" /\ Stays(reader)
  BY DEF Reader!EofEmpty
<1> HIDE DEF Stays
<1>9. Reader!Parse => reader = "parse" /\ Stays(reader)
  BY <1>3, <1>4, <1>5, <1>6, <1>7, <1>8
  DEF Reader!Parse, Reader!EofArgument, Reader!EofInQuotes, Reader!Blank, Reader!Nul,
      Reader!Newline, Reader!Backslash, Reader!Escape, Reader!Ordinary
<1> QED
  BY <1>1, <1>2, <1>9 DEF Stays

(* What the steps of run(), waitchildren() and the children do to it.      *)
LEMMA RunnerShape ==
  /\ RunCommand => /\ runner = "read" /\ asked' = asked + 1
                   /\ \/ pflag /\ UNCHANGED <<kids, code, runner>>
                      \/ runner' = "exit" /\ code' = 1 /\ UNCHANGED kids
                      \/ runner' = "vfork" /\ (\E k : kids' = Append(kids, k)) /\ UNCHANGED code
  /\ Runner!VforkReturns => runner = "vfork" /\ runner' = "wait"
                             /\ UNCHANGED <<asked, kids, code>>
  /\ Runner!NoneReady => runner = "wait" /\ runner' = "read" /\ UNCHANGED <<asked, kids, code>>
  /\ Runner!NoChildren =>
       /\ UNCHANGED <<asked, kids>>
       /\ \/ runner = "wait" /\ runner' = "read" /\ UNCHANGED code
          \/ runner = "drain" /\ runner' = "exit"
  /\ \A k \in DOMAIN kids : Runner!Reap(k) =>
       /\ runner \in {"wait", "drain"} /\ UNCHANGED asked
       /\ \E kid : kids' = [kids EXCEPT ![k] = kid]
       /\ \/ UNCHANGED <<runner, code>>
          \/ runner' = "exit" /\ code' \in 124 .. 127
  /\ Runner!EndOfInput => runner = "read" /\ runner' = "drain" /\ UNCHANGED <<asked, kids, code>>
  /\ Runner!InputError => runner = "read" /\ runner' = "exit" /\ code' = 1
                          /\ UNCHANGED <<asked, kids>>
  /\ \A k \in DOMAIN kids : Runner!Child(k) =>
       /\ UNCHANGED <<asked, code, runner>> /\ \E kid : kids' = [kids EXCEPT ![k] = kid]
<1>1. RunCommand => /\ runner = "read" /\ asked' = asked + 1
                   /\ \/ pflag /\ UNCHANGED <<kids, code, runner>>
                      \/ runner' = "exit" /\ code' = 1 /\ UNCHANGED kids
                      \/ runner' = "vfork" /\ (\E k : kids' = Append(kids, k)) /\ UNCHANGED code
  BY DEF RunCommand, Runner!Declined, Runner!Ask, Runner!Vfork, Runner!VforkFails,
     Runner!Exit
<1>2. /\ Runner!VforkReturns => runner = "vfork" /\ runner' = "wait"
                             /\ UNCHANGED <<asked, kids, code>>
      /\ Runner!NoneReady => runner = "wait" /\ runner' = "read" /\ UNCHANGED <<asked, kids, code>>
  BY DEF Runner!VforkReturns, Runner!NoneReady
<1>3. Runner!NoChildren =>
       /\ UNCHANGED <<asked, kids>>
       /\ \/ runner = "wait" /\ runner' = "read" /\ UNCHANGED code
          \/ runner = "drain" /\ runner' = "exit"
  BY DEF Runner!NoChildren, Runner!Exit
<1>4. ASSUME NEW k \in DOMAIN kids, Runner!Reap(k)
      PROVE  /\ runner \in {"wait", "drain"} /\ UNCHANGED asked
             /\ \E kid : kids' = [kids EXCEPT ![k] = kid]
             /\ \/ UNCHANGED <<runner, code>>
                \/ runner' = "exit" /\ code' \in 124 .. 127
  <2>1. \/ UNCHANGED <<runner, code>>
        \/ runner' = "exit" /\ code' \in 124 .. 127
    BY <1>4 DEF Runner!Reap, Runner!Report, Runner!Exit, Runner!ExecStatus
  <2>2. runner \in {"wait", "drain"} /\ UNCHANGED asked /\ \E kid : kids' = [kids EXCEPT ![k] = kid]
    BY <1>4 DEF Runner!Reap
  <2> QED
    BY <2>1, <2>2
<1>5. /\ Runner!EndOfInput => runner = "read" /\ runner' = "drain" /\ UNCHANGED <<asked, kids, code>>
      /\ Runner!InputError => runner = "read" /\ runner' = "exit" /\ code' = 1
                          /\ UNCHANGED <<asked, kids>>
  BY DEF Runner!EndOfInput, Runner!InputError, Runner!Exit
<1>6. ASSUME NEW k \in DOMAIN kids, Runner!Child(k)
      PROVE  UNCHANGED <<asked, code, runner>> /\ \E kid : kids' = [kids EXCEPT ![k] = kid]
  BY <1>6
  DEF Runner!Child, Runner!Executes, Runner!SetupFails, Runner!ExecFails, Runner!Ends,
      Runner!BecomesZombie
<1> QED
  BY <1>1, <1>2, <1>3, <1>4, <1>5, <1>6

(* A step changes one child, or adds one; it adds one command at most.     *)
LEMMA KidLengths ==
  ASSUME RP!IInv, UP!RunInv
  PROVE  /\ \A k, kid : kids' = [kids EXCEPT ![k] = kid] => Len(kids') = Len(kids)
         /\ \A kid : kids' = Append(kids, kid) => Len(kids') = Len(kids) + 1
         /\ \A c : cmds' = Append(cmds, c) => Len(cmds') = Len(cmds) + 1
<1>1. kids \in Seq(UP!Kid) /\ \E S : cmds \in Seq(S)
  BY DEF UP!RunInv, UP!TypeOK, RP!IInv, RP!TypeOK
<1>2. ASSUME NEW k, NEW kid, kids' = [kids EXCEPT ![k] = kid] PROVE Len(kids') = Len(kids)
  <2>1. DOMAIN kids' = DOMAIN kids /\ DOMAIN kids = 1 .. Len(kids) /\ Len(kids) \in Nat
    BY <1>2, CountsTyped
  <2> QED
    BY <2>1, <1>1, <1>2
<1>3. ASSUME NEW kid, kids' = Append(kids, kid) PROVE Len(kids') = Len(kids) + 1
  BY <1>1, <1>3
<1>4. ASSUME NEW c, cmds' = Append(cmds, c) PROVE Len(cmds') = Len(cmds) + 1
  BY <1>1, <1>4
<1> QED
  BY <1>2, <1>3, <1>4

(* Every step of the process keeps the joint invariant.                    *)
LEMMA JointStep ==
  ASSUME RP!IInv, UP!RunInv, JointInv, [Next]_vars
  PROVE  JointInv'
<1> DEFINE nc == Len(cmds)  nk == Len(kids)
<1>0. /\ nc \in Nat /\ nk \in Nat /\ asked \in Nat
      /\ runner \in {"read", "vfork", "wait", "drain", "exit"}
      /\ reader \in {"parse", "run", "drain", "exit"}
  BY CountsTyped
<1>1. CASE Read
  <2>1. /\ runner = "read" /\ reader = "parse"
        /\ asked = nc /\ (~pflag => nk = asked)
    BY <1>1, ReaderShape DEF Read, JointInv
  <2>2. \/ reader' = "run" /\ Len(cmds') = nc + 1
        \/ reader' \in {"parse", "drain", "exit"} /\ cmds' = cmds
    BY <1>1, ReaderShape, KidLengths DEF Read
  <2>3. CASE reader' = "exit"
    <3>1. runner' = "exit" /\ code' = 1 /\ UNCHANGED <<asked, kids>>
      BY <1>1, <2>3, RunnerShape DEF Read, Follow
    <3> QED
      BY <2>1, <2>2, <2>3, <3>1 DEF JointInv
  <2>4. CASE reader' = "drain"
    <3>1. runner' = "drain" /\ UNCHANGED <<asked, kids, code>>
      BY <1>1, <2>4, RunnerShape DEF Read, Follow
    <3> QED
      BY <2>1, <2>2, <2>4, <3>1 DEF JointInv
  <2>5. CASE reader' \in {"parse", "run"}
    <3>1. runner' = runner /\ UNCHANGED <<asked, kids, code>>
      BY <1>1, <2>5 DEF Read, Follow, runnerVars
    <3> QED
      BY <1>0, <2>1, <2>2, <2>5, <3>1 DEF JointInv
  <2> QED
    BY <2>2, <2>3, <2>4, <2>5
<1>2. CASE Returned
  <2>1. /\ runner = "read" /\ asked = nc /\ cmds' = cmds
        /\ reader = "run" /\ reader' \in {"parse", "drain"}
        /\ (~pflag => nk = asked)
    BY <1>2, ReaderShape DEF Returned, JointInv
  <2>2. \/ reader' = "drain" /\ runner' = "drain" /\ UNCHANGED <<asked, kids, code>>
        \/ reader' = "parse" /\ UNCHANGED <<asked, kids, code, runner>>
    BY <1>2, <2>1, RunnerShape DEF Returned, Follow, runnerVars
  <2> QED
    BY <2>1, <2>2 DEF JointInv
<1>3. CASE InRun
  <2>1. \/ /\ reader = "run" /\ runner' = "exit"
           /\ cmds' = cmds /\ reader' = "exit"
        \/ /\ ~(reader = "run" /\ runner' = "exit")
           /\ cmds' = cmds /\ reader' = reader
    BY <1>3, ReaderShape DEF InRun, readerVars
  <2>2. CASE RunCommand
    <3>1. runner = "read" /\ reader = "run" /\ asked + 1 = nc /\ asked' = nc
          /\ (~pflag => nk = asked)
      BY <1>0, <2>2, RunnerShape DEF RunCommand, JointInv
    <3>2. CASE pflag /\ UNCHANGED <<kids, code, runner>>
      BY <2>1, <3>1, <3>2 DEF JointInv
    <3>3. CASE runner' = "exit" /\ code' = 1 /\ UNCHANGED kids
      BY <2>1, <3>1, <3>3 DEF JointInv
    <3>4. CASE runner' = "vfork" /\ (\E k : kids' = Append(kids, k)) /\ UNCHANGED code
      <4>1. Len(kids') = nk + 1
        BY <3>4, KidLengths
      <4> QED
        BY <1>0, <2>1, <3>1, <3>4, <4>1 DEF JointInv
    <3> QED
      BY <2>2, <3>2, <3>3, <3>4, RunnerShape
  <2>3. CASE Runner!VforkReturns \/ Runner!NoneReady
    BY <2>1, <2>3, RunnerShape DEF JointInv
  <2>4. CASE Runner!NoChildren
    BY <2>1, <2>4, RunnerShape DEF JointInv
  <2>5. ASSUME NEW k \in DOMAIN kids, Runner!Reap(k) PROVE JointInv'
    <3>1. /\ runner \in {"wait", "drain"} /\ UNCHANGED asked
          /\ \/ UNCHANGED <<runner, code>>
             \/ runner' = "exit" /\ code' \in 124 .. 127
      BY <2>5, RunnerShape
    <3>2. Len(kids') = nk
      BY <2>5, RunnerShape, KidLengths
    <3> QED
      BY <1>0, <2>1, <3>1, <3>2 DEF JointInv
  <2> QED
    BY <1>3, <2>2, <2>3, <2>4, <2>5 DEF InRun
<1>4. ASSUME NEW k \in DOMAIN kids, Child(k) PROVE JointInv'
  <2>1. UNCHANGED <<asked, code, runner, cmds, reader>>
    BY <1>4, RunnerShape DEF Child, readerVars
  <2>2. Len(kids') = nk
    BY <1>4, RunnerShape, KidLengths DEF Child
  <2> QED
    BY <2>1, <2>2 DEF JointInv
<1>5. CASE UNCHANGED vars
  BY <1>5 DEF vars, readerVars, runnerVars, JointInv
<1> QED
  BY <1>1, <1>2, <1>3, <1>4, <1>5 DEF Next, Process

(* What a status of 0 means, from the invariants of the halves and the     *)
(* joint one: the status is 0 only after waitchildren(name, 1), which the  *)
(* reader calls at the end of the input only, when no command is asked for *)
(* that was not run.                                                       *)
LEMMA JointSuffices ==
  RP!IInv /\ UP!RunInv /\ RP!AllWordsDelivered /\ JointInv => SuccessMeansDone
<1> SUFFICES ASSUME RP!IInv, UP!RunInv, RP!AllWordsDelivered, JointInv,
                    runner = "exit", code = 0, ~overlapped
             PROVE  /\ \A k \in DOMAIN kids : kids[k].status = "zero" /\ kids[k].exec = "done"
                    /\ ~pflag => Len(kids) = Len(cmds)
                    /\ ~opt.Iflag /\ opt.eofstr = <<>> =>
                         LET words == Reader!Words(read)
                         IN  \/ Reader!Delivered = Reader!CStrings(words)
                             \/ Reader!LoneEmptyWord
                                /\ Reader!Delivered = Reader!CStrings(Reader!Front(words))
  BY DEF SuccessMeansDone
<1>1. reader = "drain" /\ asked = Len(cmds) /\ (~pflag => Len(kids) = asked)
  BY DEF JointInv
<1>2. \A k \in DOMAIN kids : kids[k].status = "zero" /\ kids[k].exec = "done"
  BY DEF UP!RunInv, UP!ExitStatusFaithful
<1>3. /\ Reader!Words(read) = RP!Words(read)
      /\ Reader!Delivered = RP!Delivered /\ (Reader!LoneEmptyWord <=> RP!LoneEmptyWord)
      /\ \A words : Reader!CStrings(words) = RP!CStrings(words)
  <2>1. Reader!Words(read) = RP!Words(read)
    BY SameScan DEF Reader!Words, RP!Words, Reader!Scan, RP!Scan, Reader!EndWord, RP!EndWord
  <2>2. \A words : Reader!CStrings(words) = RP!CStrings(words)
    BY SameCString, Zenon DEF Reader!CStrings, RP!CStrings
  <2>3. Reader!Delivered = RP!Delivered
    BY SameFlatten DEF Reader!Delivered, RP!Delivered
  <2> QED
    BY <2>1, <2>2, <2>3 DEF Reader!LoneEmptyWord, RP!LoneEmptyWord
<1>4. ~opt.Iflag /\ opt.eofstr = <<>> =>
         \/ RP!Delivered = RP!CStrings(RP!Words(read))
         \/ RP!LoneEmptyWord /\ RP!Delivered = RP!CStrings(RP!Front(RP!Words(read)))
  BY <1>1 DEF RP!AllWordsDelivered
<1> QED
  BY <1>1, <1>2, <1>3, <1>4, SameFront

(* While a child has not called execvp() the parent is inside vfork(), so  *)
(* neither parse_input() nor prerun() goes on.                             *)
LEMMA BufferHeld ==
  ASSUME UP!RunInv, [Next]_vars
  PROVE  [(\E k \in DOMAIN kids : kids[k].state = "setup")
            => UNCHANGED <<buf, xp, inpline>>]_vars
<1> SUFFICES ASSUME NEW k \in DOMAIN kids, kids[k].state = "setup", Next
             PROVE  UNCHANGED <<buf, xp, inpline>>
  BY DEF vars
<1>1. runner = "vfork"
  BY DEF UP!RunInv, UP!KidsInv
<1>2. UNCHANGED readerVars => UNCHANGED <<buf, xp, inpline>>
  BY DEF readerVars
<1>3. Reader!RunExits => UNCHANGED <<buf, xp, inpline>>
  BY DEF Reader!RunExits, Reader!Fail, Reader!store, Reader!pending
<1> QED
  BY <1>1, <1>2, <1>3 DEF Next, Process, Read, Returned, InRun, Child

(* xargs ends with status 0 only if every word of its input was in a       *)
(* command, in order and as it was written, and every command was executed *)
(* and ended with 0: for every input, setting, -P and -p (xargs.c:257, 372,*)
(* 574).                                                                   *)
THEOREM SuccessIsTrue == Spec => []SuccessMeansDone
<1>1. Init => JointInv
  BY JointInit
<1>2. RP!IInv /\ UP!RunInv /\ JointInv /\ [Next]_vars => JointInv'
  BY JointStep
<1>3. RP!IInv /\ UP!RunInv /\ RP!AllWordsDelivered /\ JointInv => SuccessMeansDone
  BY JointSuffices
<1> QED
  BY <1>1, <1>2, <1>3, HalfInvariants, PTL DEF Spec

(* The memory that a child shares with its parent until it calls execvp()  *)
(* is not reused before that, for every -P (xargs.c:354, 406, 565).        *)
THEOREM ArgumentsHeld == Spec => ArgumentsHeldForExec
<1>1. UP!RunInv /\ [Next]_vars =>
        [(\E k \in DOMAIN kids : kids[k].state = "setup")
           => UNCHANGED <<buf, xp, inpline>>]_vars
  BY BufferHeld
<1> QED
  BY <1>1, HalfInvariants, PTL DEF Spec, ArgumentsHeldForExec
=============================================================================
