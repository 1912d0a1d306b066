---------------------------- MODULE CommandLines ----------------------------
(***************************************************************************)
(* The command lines of find (FindMain) and of xargs (XargsOptions) side   *)
(* by side: program says whose main() runs, and the variables of the other *)
(* do not move.  What is checked and proved of the one holds by itself.    *)
(***************************************************************************)
EXTENDS FindMain

CONSTANTS
  XWords, EMPTY, Numbers, XMaxWords,       \* of XargsOptions, which see
  WordLen, EchoLen, ArgMax, DefaultArgs, IntMax

VARIABLES program, xargc, xargv, o, jfound, linelen, bxp, xpc

findVars == vars
xargsVars == <<xargc, xargv, o, jfound, linelen, bxp, xpc>>

Xargs == INSTANCE XargsOptions
  WITH Words <- XWords, MaxWords <- XMaxWords, argc <- xargc, argv <- xargv, pc <- xpc

ASSUME XargsAssumption == Xargs!MainAssumption

EitherInit ==
  \/ /\ program = "find" /\ Init
     /\ xargc = 0 /\ xargv = <<>> /\ o = Xargs!Defaults
     /\ jfound = FALSE /\ linelen = 0 /\ bxp = 0 /\ xpc = "getopt"
  \/ /\ program = "xargs" /\ Xargs!Init
     /\ argv = <<>> /\ at = 1 /\ letter = 1
     /\ ftsoptions = {"NOSTAT", "PHYSICAL"} /\ flags = {} /\ paths = <<>>
     /\ pc = "options"

EitherNext ==
  /\ \/ program = "find" /\ Next /\ UNCHANGED xargsVars
     \/ program = "xargs" /\ Xargs!Next /\ UNCHANGED findVars
  /\ UNCHANGED program

EitherSpec == EitherInit /\ [][EitherNext]_<<program, findVars, xargsVars>>

(* What main() of xargs hands to the reader is what the reader's model     *)
(* takes for granted (xargs.c:160, 187). *)
ReaderSettings == Xargs!ReaderSettings

-----------------------------------------------------------------------------
(* The statements of xargs' source that the code does not keep. *)
OptionsAreOptional == program = "xargs" => Xargs!OptionsAreOptional
ArgvIsAllocated == program = "xargs" => Xargs!ArgvIsAllocated

-----------------------------------------------------------------------------
(* For TLC: words of find of each kind: options alone, joined, and with the argument *)
(* of -f in the same word, in the next and missing; operands; operators.   *)
SomeWords ==
  {<<"-", "H">>, <<"-", "L", "P">>, <<"-", "h", "x">>, <<"-", "d", "E", "s", "X">>,
   <<"-", "f">>, <<"-", "L", "f", "a">>, <<"-", "p", "f">>,
   <<"-", "-">>, <<"-">>, <<"(">>, <<")">>, <<"!">>, <<"a">>, <<"(", "a">>}

(* For xargs two words, and numbers on both sides of its checks. *)
SomeNumbers == {-1, 0, 1, 3, 11, 15}
=============================================================================
