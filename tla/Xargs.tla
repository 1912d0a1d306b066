------------------------------- MODULE Xargs -------------------------------
(***************************************************************************)
(* xargs as a whole: the reader (XargsParse) and the commands (XargsRun)   *)
(* are one process, joined where parse_input() calls prerun() and          *)
(* waitchildren().  While the reader is in "run" the process is in run();  *)
(* the children go on whatever the process does.                           *)
(***************************************************************************)
EXTENDS Integers, Sequences

CONSTANTS Plain, Settings, MaxInput, MaxProcs, pflag

VARIABLES
  opt, read, buf, argp, xp, insingle, indouble, wasquoted, count, inpline,
  cmds, overlapped, resume,
  reader,      \* pc of the reader
  asked, kids, childerr, curprocs, rval, code,
  runner       \* pc of run() and waitchildren()

Reader == INSTANCE XargsArguments WITH pc <- reader
Runner == INSTANCE XargsRun WITH pc <- runner, MaxJobs <- MaxInput + 1

(* What the two modules assume, of this process. *)
ASSUME XargsAssumption ==
  /\ Plain \cap (Reader!Special \cup {"NULL"}) = {}
  /\ Settings \subseteq Reader!SettingType
  /\ \A o \in Settings : /\ o.jfound => o.jrest < o.argc
                         /\ o.xflag <=> o.Iflag \/ o.Lflag # 0
  /\ MaxInput \in Nat
  /\ MaxProcs \in Nat \ {0}
  /\ pflag \in BOOLEAN /\ (pflag => MaxProcs = 1)

readerVars == <<opt, read, buf, argp, xp, insingle, indouble, wasquoted, count,
                inpline, cmds, overlapped, resume, reader>>
runnerVars == <<asked, kids, childerr, curprocs, rval, code, runner>>
vars == <<readerVars, runnerVars>>

Init == Reader!Init /\ Runner!Init

(* What the reader's step means for the commands: errx() and the calls of  *)
(* waitchildren(name, 1) at the end of the input.                          *)
Follow ==
  CASE reader' = "exit"  -> Runner!InputError
    [] reader' = "drain" -> Runner!EndOfInput
    [] OTHER             -> UNCHANGED runnerVars

Read == runner = "read" /\ Reader!Parse /\ Follow

(* prerun() has returned: the command was run, or declined. *)
Returned ==
  /\ runner = "read" /\ asked = Len(cmds)
  /\ Reader!Resume
  /\ Follow

(* run() with the command that the reader asks for, and waitchildren(). *)
RunCommand ==
  /\ asked < Len(cmds)
  /\ Runner!Declined \/ Runner!Vfork \/ Runner!VforkFails

InRun ==
  /\ \/ RunCommand
     \/ Runner!VforkReturns \/ Runner!NoneReady \/ Runner!NoChildren
     \/ \E k \in DOMAIN kids : Runner!Reap(k)
  /\ IF reader = "run" /\ runner' = "exit"
     THEN Reader!RunExits
     ELSE UNCHANGED readerVars

Process == Read \/ Returned \/ InRun

Child(k) == Runner!Child(k) /\ UNCHANGED readerVars

Next == Process \/ \E k \in DOMAIN kids : Child(k)

(* The process is scheduled, and so is each child; utilities end. *)
Spec ==
  /\ Init /\ [][Next]_vars
  /\ WF_vars(Process)
  /\ \A k \in 1 .. MaxInput + 1 : WF_vars(k \in DOMAIN kids /\ Child(k))

-----------------------------------------------------------------------------
(* Exit status 0: every word of the input, as the user wrote it, was given *)
(* in order to a command that ended with status 0 (a lone quoted empty     *)
(* word excepted, and what the user declined with -p, and the words from   *)
(* the end-of-file string on).  It needs both halves: a word that the      *)
(* reader lost, or a command whose failure was not noticed, breaks it.     *)
SuccessMeansDone ==
  runner = "exit" /\ code = 0 /\ ~overlapped =>
    /\ \A k \in DOMAIN kids : kids[k].status = "zero" /\ kids[k].exec = "done"
    /\ ~pflag => Len(kids) = Len(cmds)
    /\ ~opt.Iflag /\ opt.eofstr = <<>> =>
         LET words == Reader!Words(read)
         IN  \/ Reader!Delivered = Reader!CStrings(words)
             \/ Reader!LoneEmptyWord
                /\ Reader!Delivered = Reader!CStrings(Reader!Front(words))

(* A child that has not called execvp() yet reads its arguments in the     *)
(* parent's buffer (vfork() shares the memory): until then the reader      *)
(* neither resets nor refills what argv points to (xargs.c:354, 406).      *)
ArgumentsHeldForExec ==
  [][(\E k \in DOMAIN kids : kids[k].state = "setup")
       => UNCHANGED <<buf, xp, inpline>>]_vars

(* A call of xargs ends, if its utilities do. *)
Terminates == <>(runner = "exit")
=============================================================================
