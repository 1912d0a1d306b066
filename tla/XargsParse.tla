----------------------------- MODULE XargsParse -----------------------------
(***************************************************************************)
(* The reader of xargs (src/xargs/xargs.c): parse_input() consumes one     *)
(* character of standard input per call, collects arguments in a single    *)
(* buffer, and calls prerun() when a limit is met.  One action is one call *)
(* of parse_input(), cut in two where it calls prerun(): the command then  *)
(* runs while pc = "run", and Resume is the rest of the call.              *)
(*                                                                         *)
(* Pointers are offsets into the buffer: bbp is 0, p is Len(buf), ebp is   *)
(* opt.nline - 1, and xp is the sequence of the offsets stored from bxp on.*)
(***************************************************************************)
EXTENDS Integers, Sequences, FiniteSets

CONSTANTS
  Plain,          \* the ordinary characters of the input
  Settings,       \* the option records main() may leave behind
  MaxInput        \* bound: characters of input before end of file

NUL == "NUL"      \* '\0'
SP  == "SP"       \* ' ' or '\t', which parse_input() does not tell apart
NL  == "NL"       \* '\n'
SQ  == "SQ"       \* '\''
DQ  == "DQ"       \* '"'
BS  == "BS"       \* '\\'
NULL == <<"NULL">> \* the null pointer, for inpline: no text at all

Special == {NUL, SP, NL, SQ, DQ, BS}
Char == Plain \cup Special

(***************************************************************************)
(* What main() settles before the first call: the flags, the limits, the   *)
(* number of words of the utility and, for -J, how many of them follow     *)
(* replstr.  nline is what -s leaves once the utility's words are taken.   *)
(* -x is on exactly for -I and -L (XargsOptions!ReaderSettings).           *)
(***************************************************************************)
SettingType ==
  [zflag : BOOLEAN, xflag : BOOLEAN, Iflag : BOOLEAN, Lflag : Int,
   nargs : Nat \ {0}, nline : Nat \ {0}, eofstr : Seq(Char),
   argc : Nat, jfound : BOOLEAN, jrest : Nat]

ASSUME CharAssumption == Plain \cap (Special \cup {"NULL"}) = {}
ASSUME SettingsAssumption ==
  /\ Settings \subseteq SettingType
  /\ \A o \in Settings : /\ o.jfound => o.jrest < o.argc
                         /\ o.xflag <=> o.Iflag \/ o.Lflag # 0
ASSUME MaxInputAssumption == MaxInput \in Nat

VARIABLES
  opt,        \* the settings, fixed for the run
  read,       \* history: the characters consumed so far
  buf,        \* the bytes of the buffer from bbp up to p
  argp,       \* the start of the argument being read
  xp,         \* the starts of the complete arguments, from bxp on
  insingle, indouble, wasquoted,
  count,      \* lines ended since the last command (for -L)
  inpline,    \* the text that replaces replstr, or NULL (for -I)
  cmds,       \* history: the commands handed to run()
  overlapped, \* history: memcpy() was given overlapping regions
  resume,     \* what parse_input() does after prerun()
  pc          \* "parse", "run", "drain" (end of input reached) or "exit"

store   == <<buf, argp, xp>>
quotes  == <<insingle, indouble, wasquoted>>
pending == <<count, inpline>>
control == <<cmds, resume, pc>>
vars == <<opt, read, store, quotes, pending, control, overlapped>>

Init ==
  /\ opt \in Settings
  /\ read = <<>>
  /\ buf = <<>> /\ argp = 0 /\ xp = <<>>
  /\ insingle = FALSE /\ indouble = FALSE /\ wasquoted = FALSE
  /\ count = 0 /\ inpline = NULL
  /\ cmds = <<>> /\ resume = [kind |-> "none"] /\ pc = "parse"
  /\ overlapped = FALSE

-----------------------------------------------------------------------------
(* Variants that the properties must tell from the code: one byte more or  *)
(* less than the buffer holds.                                             *)
ebpHigh == opt.nline
ebpLow == opt.nline - 2
ebp == opt.nline - 1
token == SubSeq(buf, argp + 1, Len(buf))
quoted == insingle \/ indouble

(* A C string ends at its first NUL, whatever was stored after it. *)
CString(s) ==
  SubSeq(s, 1, Cardinality({i \in DOMAIN s : \A j \in 1 .. i : s[j] # NUL}))

(* strncmp(t, e, Len(t)) = 0, where e is terminated and t is not. *)
StartsLike(t, e) ==
  LET ez == Append(e, NUL)
  IN  \A i \in DOMAIN t \cap DOMAIN ez : t[i] = ez[i]

(* -E: the argument that ends is the end-of-file string. *)
FoundEof == opt.eofstr # <<>> /\ StartsLike(token, opt.eofstr)

(* An empty line so far takes the argument as it is; others add a space. *)
JoinLine(line, arg) ==
  IF line \in {NULL, <<>>} THEN arg ELSE line \o <<SP>> \o arg

(***************************************************************************)
(* What prerun() hands to run().  With -I and a utility these are only the *)
(* utility's own words, in which the line replaces replstr; without, the   *)
(* arguments stored from bxp on.  The utility's words are left out.        *)
(***************************************************************************)
Command(b, starts, line) ==
  [args |-> IF opt.Iflag /\ opt.argc > 0 THEN <<>>
            ELSE [i \in DOMAIN starts |->
                    CString(SubSeq(b, starts[i] + 1, Len(b)))],
   line |-> line]

Prerun(b, starts, line, after) ==
  /\ pc' = "run"
  /\ cmds' = Append(cmds, Command(b, starts, line))
  /\ resume' = after

GetChar(ch) ==
  /\ pc = "parse"
  /\ Len(read) < MaxInput
  /\ read' = Append(read, ch)

Fail ==
  /\ pc' = "exit"
  /\ UNCHANGED <<opt, store, quotes, pending, cmds, resume, overlapped>>

(***************************************************************************)
(* The code at label arg2: the argument that ends here is stored unless it *)
(* is empty and unquoted, or is the end-of-file string; then the command   *)
(* is run if a limit was met.                                              *)
(***************************************************************************)
EndArgument(atEof, lines) ==
  LET stored == (token # <<>> \/ wasquoted) /\ ~FoundEof
      b  == IF stored THEN Append(buf, NUL) ELSE buf
      xs == IF stored THEN Append(xp, argp) ELSE xp
      ln == IF stored /\ opt.Iflag THEN JoinLine(inpline, CString(token))
                                   ELSE inpline
      full == Len(b) > ebp
      last == atEof \/ FoundEof
      dispatch == \/ Len(xs) = opt.nargs
                  \/ full
                  \/ last
                  \/ opt.Lflag <= lines /\ opt.xflag
      object == opt.xflag /\ Len(xs) # opt.nargs /\ full
  IN  /\ buf' = b /\ xp' = xs /\ inpline' = ln /\ count' = lines
      /\ UNCHANGED <<opt, insingle, indouble, overlapped>>
      /\ \/ /\ dispatch /\ object
            /\ pc' = "exit"
            /\ UNCHANGED <<argp, wasquoted, cmds, resume>>
         \/ /\ dispatch /\ ~object
            /\ Prerun(b, xs, ln, [kind |-> IF last THEN "last" ELSE "limit"])
            /\ UNCHANGED <<argp, wasquoted>>
         \/ /\ ~dispatch
            /\ argp' = Len(b) /\ wasquoted' = FALSE
            /\ UNCHANGED control

(***************************************************************************)
(* The code at label addch: store the character, or, when the buffer is    *)
(* full, run the command without the argument being read.                  *)
(***************************************************************************)
AddCharacter(ch) ==
  \/ /\ Len(buf) < ebp
     /\ buf' = Append(buf, ch)
     /\ UNCHANGED <<opt, argp, xp, quotes, pending, control, overlapped>>
  \/ /\ Len(buf) >= ebp
     /\ xp = <<>> \/ opt.xflag               \* insufficient space: errx()
     /\ Fail
  \/ /\ Len(buf) >= ebp
     /\ xp # <<>> /\ ~opt.xflag
     /\ Prerun(buf, xp, inpline, [kind |-> "overflow", ch |-> ch])
     /\ UNCHANGED <<opt, store, quotes, pending, overlapped>>

-----------------------------------------------------------------------------
(* End of file with nothing in the buffer: wait for the children and exit. *)
EofEmptyArgument ==           \* variant: nothing in the argument
  /\ pc = "parse" /\ token = <<>>
  /\ pc' = "drain"
  /\ UNCHANGED <<opt, read, store, quotes, pending, cmds, resume, overlapped>>

EofEmpty ==
  /\ pc = "parse" /\ buf = <<>>
  /\ pc' = "drain"
  /\ UNCHANGED <<opt, read, store, quotes, pending, cmds, resume, overlapped>>

EofArgument ==
  /\ pc = "parse" /\ buf # <<>> /\ ~quoted
  /\ EndArgument(TRUE, count)
  /\ UNCHANGED read

EofInQuotes ==
  /\ pc = "parse" /\ buf # <<>> /\ quoted
  /\ Fail
  /\ UNCHANGED read

Blank ==
  /\ GetChar(SP)
  /\ IF quoted \/ opt.zflag THEN AddCharacter(SP) ELSE EndArgument(FALSE, count)

Nul ==
  /\ GetChar(NUL)
  /\ IF opt.zflag THEN EndArgument(FALSE, count + 1) ELSE AddCharacter(NUL)

NewlineUncounted ==           \* variant: the line is not counted for -L
  /\ GetChar(NL)
  /\ \/ opt.zflag /\ AddCharacter(NL)
     \/ ~opt.zflag /\ quoted /\ Fail
     \/ ~opt.zflag /\ ~quoted /\ EndArgument(FALSE, count)

Newline ==
  /\ GetChar(NL)
  /\ \/ opt.zflag /\ AddCharacter(NL)
     \/ ~opt.zflag /\ quoted /\ Fail
     \/ ~opt.zflag /\ ~quoted /\ EndArgument(FALSE, count + 1)

SingleQuote ==
  /\ GetChar(SQ)
  /\ \/ (indouble \/ opt.zflag) /\ AddCharacter(SQ)
     \/ /\ ~indouble /\ ~opt.zflag
        /\ insingle' = ~insingle /\ wasquoted' = TRUE
        /\ UNCHANGED <<opt, store, indouble, pending, control, overlapped>>

DoubleQuote ==
  /\ GetChar(DQ)
  /\ \/ (insingle \/ opt.zflag) /\ AddCharacter(DQ)
     \/ /\ ~insingle /\ ~opt.zflag
        /\ indouble' = ~indouble /\ wasquoted' = TRUE
        /\ UNCHANGED <<opt, store, insingle, pending, control, overlapped>>

(* A backslash is a character like another with -0 and inside quotes. *)
Backslash ==
  /\ opt.zflag \/ quoted
  /\ GetChar(BS)
  /\ AddCharacter(BS)

(* Elsewhere it takes the next character, which the same call reads. *)
Escape ==
  /\ pc = "parse" /\ ~opt.zflag /\ ~quoted
  /\ \/ \E ch \in Char :
          /\ Len(read) + 1 < MaxInput
          /\ read' = read \o <<BS, ch>>
          /\ AddCharacter(ch)
     \/ /\ Len(read) < MaxInput
        /\ read' = Append(read, BS)
        /\ Fail                              \* backslash at EOF

Ordinary ==
  \E ch \in Plain : GetChar(ch) /\ AddCharacter(ch)

(* run() may end the program: a child failed, or the fork did. *)
RunExits ==
  /\ pc = "run"
  /\ Fail
  /\ UNCHANGED read

(***************************************************************************)
(* memcpy(bbp, argp, cnt) with the argument being read, then the character *)
(* that did not fit.  When the regions overlap the copy may go either way: *)
(* from the end, it reads bytes that it has already replaced, and repeats  *)
(* the last argp bytes of the buffer.                                      *)
(***************************************************************************)
CopyDown(cnt, ch) ==
  LET Forward  == SubSeq(buf, argp + 1, argp + cnt)
      Backward == [i \in 1 .. cnt |-> buf[cnt + 1 + ((i - 1 - cnt) % argp)]]
  IN  \/ buf' = Append(Forward, ch)
      \/ cnt > argp /\ buf' = Append(Backward, ch)

(***************************************************************************)
(* The rest of parse_input() after prerun() returned.  With -I prerun()    *)
(* has freed inpline, unless the utility has no words of its own.          *)
(***************************************************************************)
Resume ==
  /\ pc = "run"
  /\ inpline' = IF opt.Iflag /\ opt.argc > 0 THEN NULL ELSE inpline
  /\ resume' = [kind |-> "none"]
  /\ UNCHANGED <<opt, read, insingle, indouble, cmds>>
  /\ \/ /\ resume.kind = "last"
        /\ pc' = "drain"
        /\ UNCHANGED <<store, wasquoted, count, overlapped>>
     \/ /\ resume.kind = "limit"
        /\ pc' = "parse"
        /\ buf' = <<>> /\ argp' = 0 /\ xp' = <<>>
        /\ count' = 0 /\ wasquoted' = FALSE
        /\ UNCHANGED overlapped
     \/ /\ resume.kind = "overflow"
        /\ pc' = "parse"
        /\ CopyDown(ebp - argp, resume.ch) /\ argp' = 0 /\ xp' = <<>>
        /\ overlapped' = (overlapped \/ ebp - argp > argp)
        /\ UNCHANGED <<wasquoted, count>>

Parse ==
  \/ EofEmpty \/ EofArgument \/ EofInQuotes
  \/ Blank \/ Nul \/ Newline
  \/ SingleQuote \/ DoubleQuote \/ Backslash \/ Escape
  \/ Ordinary

Next == Parse \/ RunExits \/ Resume

Spec == Init /\ [][Next]_vars

=============================================================================
