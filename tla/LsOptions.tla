----------------------------- MODULE LsOptions ------------------------------
(***************************************************************************)
(* ls_main() (src/ls/ls.c): the options, and what is chosen by them.  The  *)
(* flags that are 0 or 1 are the set of those that are 1.  By the braces   *)
(* everything behind the switch, traverse() included, is done after every  *)
(* option, and all of it only on a terminal.  A word of argv is an option  *)
(* letter, or "file"; getopt(3) is external, and getbsize(3) says 512.     *)
(***************************************************************************)
EXTENDS Integers, SequencesExt

Formats == {"singlecol", "column", "columnacross", "longform", "stream"}
Escapes == {"nonprint", "octal", "octal_escape"}

(* What an option sets and clears. *)
Sets(c) ==
  CASE c = "1" -> {"singlecol"}    [] c = "C" -> {"column"}
    [] c = "x" -> {"columnacross"} [] c = "m" -> {"stream"}
    [] c \in {"g", "l"} -> {"longform"}
    [] c = "n" -> {"longform", "numericonly"}
    [] c = "c" -> {"statustime"}   [] c = "u" -> {"accesstime"}
    [] c = "f" -> {"nosort", "SEEDOT", "listdot"}
    [] c = "a" -> {"SEEDOT", "listdot"}
    [] c = "A" -> {"listdot"}
    [] c = "B" -> {"octal"}        [] c = "b" -> {"octal_escape"}
    [] c = "q" -> {"nonprint"}     [] c = "d" -> {"listdir"}
    [] c = "k" -> {"kflag"}        [] c = "h" -> {"humanize"}
    [] c = "M" -> {"commas"}       [] c = "F" -> {"type"}
    [] c = "R" -> {"recursive"}    [] c = "i" -> {"inode"}
    [] c = "s" -> {"size"}         [] c = "p" -> {"typedir"}
    [] c = "r" -> {"reversesort"}  [] c = "L" -> {"LOGICAL"}
    [] c = "X" -> {"XDEV"}         [] c = "W" -> {"whiteout"}
    [] c = "O" -> {"leafonly"}     [] c = "o" -> {"flags"}
    [] c = "P" -> {"fullpath"}     [] c = "T" -> {"sectime"}
    [] OTHER -> {}

(* Variant: -m leaves the long format on. *)
ClearsButLong(c) ==
  CASE c = "m" -> {"column", "columnacross", "singlecol"}
    [] c \in {"1", "C", "x", "g", "l", "n"} -> Formats
    [] OTHER -> {}

Clears(c) ==
  CASE c \in {"1", "C", "x", "m", "g", "l", "n"} -> Formats
    [] c \in {"B", "b", "q", "w"} -> Escapes
    [] c = "c" -> {"accesstime"} [] c = "u" -> {"statustime"}
    [] c = "d" -> {"recursive"}  [] c = "k" -> {"humanize"}
    [] c = "h" -> {"kflag", "commas"}
    [] c = "M" -> {"humanize"}   [] c = "L" -> {"PHYSICAL"}
    [] OTHER -> {}

(* The switch: on is what is set, grouponly -1 once -l was given. *)
Option(f, c) ==
  [f EXCEPT
     !.on = (@ \ Clears(c)) \cup Sets(c),
     !.grouponly = CASE c = "l" -> -1
                     [] c = "g" /\ @ # -1 -> 1
                     [] OTHER -> @,
     !.sortkey = CASE c = "S" -> "BY_SIZE" [] c = "t" -> "BY_TIME" [] OTHER -> @,
     !.blocksize = IF c = "k" THEN 1024 ELSE @]

(* What follows the switch.  FTS_NOSTAT and FTS_COMFOLLOW are only ever    *)
(* added. *)
Settled(f) ==
  LET nostat == f.on \cap {"inode", "longform", "size", "type", "typedir"} = {}
                /\ f.sortkey = "BY_NAME"
      follow == f.on \cap {"longform", "listdir", "type"} = {}
      blocks == IF "kflag" \in f.on THEN f.blocksize ELSE 512
  IN  [f EXCEPT
         !.grouponly = IF @ = -1 THEN 0 ELSE @,
         !.on = @ \cup (IF nostat THEN {"NOSTAT"} ELSE {})
                  \cup (IF follow THEN {"COMFOLLOW"} ELSE {}),
         !.blocksize = IF f.on \cap {"inode", "longform", "size"} # {} THEN blocks \div 512
                       ELSE @]

(* The functions that sort and print. *)
SortKey(f) ==
  [key |-> CASE f.sortkey # "BY_TIME" -> f.sortkey
             [] f.sortkey = "BY_TIME" /\ "accesstime" \in f.on -> "access"
             [] f.sortkey = "BY_TIME" /\ f.on \cap {"accesstime", "statustime"} = {"statustime"} ->
                  "status"
             [] OTHER -> "modified",
   reverse |-> "reversesort" \in f.on]

PrintFunction(f) ==
  CASE "singlecol" \in f.on -> "printscol"
    [] f.on \cap {"singlecol", "columnacross"} = {"columnacross"} -> "printacol"
    [] f.on \cap {"singlecol", "columnacross", "longform"} = {"longform"} -> "printlong"
    [] f.on \cap {"singlecol", "columnacross", "longform", "stream"} = {"stream"} -> "printstream"
    [] OTHER -> "printcol"

(* ls_main() on a terminal that has a width: the flags at each traverse(), *)
(* and the words it gets; "." when there are none. *)
Turn(s, i) ==
  LET none == s.optind >= Len(s.argv) \/ s.argv[s.optind + 1] = "file"
      f == Option(s.f, s.argv[s.optind + 1])
      left == SubSeq(s.argv, s.optind + 2, Len(s.argv))
  IN  IF s.over \/ none THEN [s EXCEPT !.over = TRUE]
      ELSE [s EXCEPT !.f = Settled(f), !.argv = left, !.optind = @ + 1,
                     !.runs = Append(@, [f |-> Settled(f), print |-> PrintFunction(f),
                                         sort |-> SortKey(f),
                                         files |-> IF left = <<>> THEN <<".">> ELSE left])]

LsMain(argv) ==
  FoldLeft(Turn,
    [argv |-> argv, optind |-> 1, runs |-> <<>>, over |-> FALSE,
     f |-> [on |-> {"PHYSICAL", "column", "nonprint"}, grouponly |-> 0,
            sortkey |-> "BY_NAME", blocksize |-> 0]],
    [i \in 1 .. Len(argv) |-> i]).runs

-----------------------------------------------------------------------------
(* The flags that options in one after the other leave behind, as if       *)
(* getopt() saw them all. *)
Flags(options) ==
  FoldLeft(LAMBDA f, c : Settled(Option(f, c)),
           [on |-> {"PHYSICAL", "column", "nonprint"}, grouponly |-> 0,
            sortkey |-> "BY_NAME", blocksize |-> 0], options)

LastOf(options, set) ==
  LET those == {i \in DOMAIN options : options[i] \in set} IN
  IF those = {} THEN "none" ELSE options[Max(those)]

FormatOf(c) ==
  CASE c = "1" -> "printscol" [] c = "x" -> "printacol" [] c = "m" -> "printstream"
    [] c \in {"l", "g", "n"} -> "printlong" [] OTHER -> "printcol"

(* "The -1, -C, -l, -m and -x options all override each other", and so do  *)
(* -c and -u, -B, -b, -q and -w, and -h, -k and -M: whatever comes before, *)
(* the last of each kind is what ls does.  The flags are tested in an      *)
(* order of their own, so one that is not cleared would win                *)
(* (ls.c:111 to 253, 311 to 360).                                          *)
LastOptionWins(options) ==
  LET f == Flags(options)
      time == LastOf(options, {"c", "u"})
      escape == LastOf(options, {"B", "b", "q", "w"})
      unit == LastOf(options, {"h", "k", "M"})
  IN  /\ PrintFunction(f) = FormatOf(LastOf(options, {"1", "C", "x", "m", "g", "l", "n"}))
      /\ f.sortkey = "BY_TIME" =>
           SortKey(f).key = (CASE time = "c" -> "status" [] time = "u" -> "access"
                               [] OTHER -> "modified")
      /\ f.on \cap Escapes = (CASE escape = "B" -> {"octal"} [] escape = "b" -> {"octal_escape"}
                                [] escape = "w" -> {} [] OTHER -> {"nonprint"})
      /\ "humanize" \in f.on <=> unit = "h"

-----------------------------------------------------------------------------
(* Statements of the source that the code does not keep. *)

(* "Never let -g take precedence over -l" (ls.c:133). *)
LongBeforeGroup(options) == "l" \in ToSet(options) => Flags(options).grouponly # 1

(* "If not -F, -i, -l, -p, -S, -s or -t options, don't require stat        *)
(* information" (ls.c:278): with one of them it is required.               *)
StatWhenNeeded(options) ==
  ToSet(options) \cap {"F", "i", "l", "p", "S", "s", "t"} # {} =>
    "NOSTAT" \notin Flags(options).on

(* "figure out block size" (ls.c:302): sizes are divided by it. *)
BlocksizePositive(options) ==
  ToSet(options) \cap {"i", "l", "s"} # {} => Flags(options).blocksize > 0

(* "[file ...]" (ls.c:76): the files are listed, once. *)
ListsTheFiles(options) ==
  LET runs == LsMain(<<"ls">> \o options \o <<"file">>) IN
  Len(runs) = 1 /\ runs[1].files = <<"file">>
=============================================================================
