------------------------------ MODULE FindMain ------------------------------
(***************************************************************************)
(* main() of find (src/find/main.c) up to the call of find_formplan(): the *)
(* options by getopt(3), the list of paths, and the loop over the file     *)
(* operands, whose body the braces extend to the end of main().            *)
(*                                                                         *)
(* A word is a sequence of characters: those of getopt's string, "-", and  *)
(* any others.  Operators are the words <<"(">>, <<")">> and <<"!">>.      *)
(***************************************************************************)
EXTENDS Integers, SequencesExt

CONSTANTS
  Words,         \* the words of command lines
  MaxWords       \* bound: how many words

ASSUME WordsAssumption == \A w \in Words : w \in Seq(STRING) /\ Len(w) > 0
ASSUME MaxWordsAssumption == MaxWords \in Nat

VARIABLES
  argv,          \* the words
  at,            \* optind: the word being read
  letter,        \* the place in it of the last option letter; 1 before any
  ftsoptions,
  flags,         \* which of isdepth, issort, isxargs and regcomp_flags are set
  paths,         \* what stands from start to p
  pc             \* "options", "operands", "formplan", or how main() ended

vars == <<argv, at, letter, ftsoptions, flags, paths, pc>>

Init ==
  /\ argv \in UNION {[1 .. n -> Words] : n \in 0 .. MaxWords}
  /\ at = 1 /\ letter = 1
  /\ ftsoptions = {"NOSTAT", "PHYSICAL"} /\ flags = {}
  /\ paths = <<>>
  /\ pc = "options"

(* What is allocated for the paths: argc, which counts the program's name. *)
SlotsForWords == Len(argv)                    \* variant: without it
Slots == Len(argv) + 1

-----------------------------------------------------------------------------
(* getopt(argc, argv, "HLPdEf:hsXx"). *)
NULL == <<>>
Word == IF at <= Len(argv) THEN argv[at] ELSE NULL
IsOption(w) == Len(w) > 1 /\ w[1] = "-"
Letter == Word[letter + 1]
Rest == SubSeq(Word, letter + 2, Len(Word))

AtLetter ==
  /\ pc = "options"
  /\ IsOption(Word) /\ Word # <<"-", "-">>

ReadsLetter(c) == AtLetter /\ Letter = c

(* On to the next letter, or to the next word. *)
Advance ==
  IF Rest # <<>> THEN letter' = letter + 1 /\ UNCHANGED at
                 ELSE letter' = 1 /\ at' = at + 1

Walk(c, clear, set) ==
  /\ ReadsLetter(c)
  /\ ftsoptions' = (ftsoptions \ clear) \cup set
  /\ Advance
  /\ UNCHANGED <<argv, flags, paths, pc>>

Flag(c, flag) ==
  /\ ReadsLetter(c)
  /\ flags' = flags \cup {flag}
  /\ Advance
  /\ UNCHANGED <<argv, ftsoptions, paths, pc>>

(* Variant: -L as a bit of its own. *)
FollowAddsLogical == Walk("L", {"COMFOLLOW"}, {"LOGICAL"})
Follow == Walk("L", {"COMFOLLOW", "PHYSICAL"}, {"LOGICAL"})

(* -f: the argument is the rest of the word, or else the next word. *)
Path ==
  /\ ReadsLetter("f")
  /\ Rest # <<>> \/ at < Len(argv)
  /\ paths' = Append(paths, IF Rest # <<>> THEN Rest ELSE argv[at + 1])
  /\ at' = IF Rest # <<>> THEN at + 1 ELSE at + 2
  /\ letter' = 1
  /\ UNCHANGED <<argv, ftsoptions, flags, pc>>

(* An unknown letter, or -f without argument: getopt() complains, and no more. *)
Complain ==
  /\ AtLetter
  /\ \/ Letter \notin {"H", "L", "P", "d", "E", "f", "h", "s", "X", "x"}
     \/ Letter = "f" /\ Rest = <<>> /\ at = Len(argv)
  /\ Advance
  /\ UNCHANGED <<argv, ftsoptions, flags, paths, pc>>

GetOption ==
  \/ Walk("H", {"LOGICAL"}, {"PHYSICAL", "COMFOLLOW"})
  \/ Follow
  \/ Walk("P", {"COMFOLLOW", "LOGICAL"}, {"PHYSICAL"})
  \/ Walk("h", {"PHYSICAL"}, {"LOGICAL"})
  \/ Walk("x", {}, {"XDEV"})
  \/ Flag("d", "isdepth") \/ Flag("s", "issort")
  \/ Flag("X", "isxargs") \/ Flag("E", "REG_EXTENDED")
  \/ Path
  \/ Complain

EndOptions ==
  /\ pc = "options"
  /\ ~IsOption(Word) \/ Word = <<"-", "-">>
  /\ at' = IF Word = <<"-", "-">> THEN at + 1 ELSE at
  /\ pc' = "operands"
  /\ UNCHANGED <<argv, letter, ftsoptions, flags, paths>>

-----------------------------------------------------------------------------
(* The loop over the operands ends or main() does: p is never advanced. *)
InExpression(w) == w[1] = "-" \/ w \in {<<"!">>, <<"(">>}

Ends(how) ==
  /\ pc = "operands"
  /\ pc' = how
  /\ UNCHANGED <<argv, at, letter, ftsoptions, flags, paths>>

AtFile == Word # NULL /\ ~InExpression(Word)

(* After the loop nothing is left to do: the status is 0. *)
Returns == Ends("returned") /\ ~AtFile
Usage == Ends("usage") /\ AtFile /\ paths = <<>>
OpenFails == Ends("error") /\ AtFile /\ paths # <<>>
FormPlan == Ends("formplan") /\ AtFile /\ paths # <<>>

Next == GetOption \/ EndOptions \/ Returns \/ Usage \/ OpenFails \/ FormPlan

Spec == Init /\ [][Next]_vars

-----------------------------------------------------------------------------
(* Every variable keeps its type, and optind stays on the words and NULL. *)
TypeOK ==
  /\ argv \in Seq(Words) /\ Len(argv) <= MaxWords
  /\ at \in 1 .. Len(argv) + 1
  /\ at <= Len(argv) => letter \in 1 .. Len(Word)
  /\ ftsoptions \subseteq {"NOSTAT", "PHYSICAL", "LOGICAL", "COMFOLLOW", "XDEV"}
  /\ flags \subseteq {"isdepth", "issort", "isxargs", "REG_EXTENDED"}
  /\ pc \in {"options", "operands", "formplan", "returned", "usage", "error"}

(* fts_open() wants exactly one of FTS_LOGICAL and FTS_PHYSICAL, whatever  *)
(* -H, -L, -P and -h are combined, in whatever order and in whatever       *)
(* words (main.c:51 to 85).                                                *)
OneWalkMode == ftsoptions \cap {"LOGICAL", "PHYSICAL"} \in {{"LOGICAL"}, {"PHYSICAL"}}

(* The list has "at most (argc - 1) elements" (main.c:42), however often   *)
(* -f is given, so that the NULL behind the paths has a slot.              *)
PathsFit == Len(paths) <= Slots - 1

-----------------------------------------------------------------------------
(* A statement of the source that the code does not keep. *)

(* "Find first option to delimit the file list.  The first argument that   *)
(* starts with a -, or is a ! or a ( must be interpreted as a part of the  *)
(* find expression" (main.c:94): the plan is made of what follows the list *)
(* of files.                                                               *)
FileListIsDelimited == pc = "formplan" => ~AtFile
=============================================================================
