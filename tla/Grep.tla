-------------------------------- MODULE Grep --------------------------------
(***************************************************************************)
(* grep from its operands to its exit status (src/grep/util.c, grep.c):    *)
(* procfile() takes lines from GrepInput and gives them to GrepContext,    *)
(* and main() calls it for standard input, for each operand, or for what   *)
(* grep_tree() finds.                                                      *)
(***************************************************************************)
EXTENDS GrepContext

CONSTANTS
  Hit,           \* the byte that the pattern matches
  Runs           \* what to run: settings, operands, and standard input

(* What a name stands for; matches are the patterns of --include ("incl")  *)
(* and --exclude ("excl") that it matches.                                 *)
Operand ==
  [kind : {"file", "directory", "missing", "denied"},
   data : Seq({NL, NUL, Hit}), packed : BOOLEAN, matches : SUBSET {"incl", "excl"}]

ASSUME RunsAssumption ==
  \A r \in Runs : /\ r.opt \in Settings
                  /\ r.operands \in Seq(Operand) /\ r.stdin \in Operand

VARIABLES
  operands,      \* the names
  stdin,         \* what standard input holds
  k,             \* the name being processed
  c,             \* lines selected in this file
  total,         \* and in all
  mcount,        \* lines still to select, with -m
  notfound,
  code,          \* exit status
  pc             \* "main", "opening", "loop", "line", "end", "exit" or "crash"

mainVars == <<operands, stdin, k, c, total, mcount, notfound, code, pc>>
vars == <<opt, inputVars, contextVars, mainVars>>

Init ==
  /\ \E r \in Runs : opt = r.opt /\ operands = r.operands /\ stdin = r.stdin
  /\ InputInit /\ ContextInit
  /\ k = 1 /\ c = 0 /\ total = 0
  /\ mcount = opt.m
  /\ notfound = FALSE
  /\ code = 0
  /\ pc = "main"

-----------------------------------------------------------------------------
Exit(status) ==
  /\ pc' = "exit" /\ code' = status
  /\ UNCHANGED <<opt, inputVars, contextVars, operands, stdin, k, c, total, mcount, notfound>>

(* Variant: only the last file counts. *)
ReturnsLast(n, missing) ==
  /\ total' = n
  /\ notfound' = (notfound \/ missing)
  /\ k' = k + 1
  /\ pc' = "main"
  /\ UNCHANGED <<operands, stdin, mcount, code>>

(* procfile() returns n; errno may have been ENOENT. *)
Returns(n, missing) ==
  /\ total' = total + n
  /\ notfound' = (notfound \/ missing)
  /\ k' = k + 1
  /\ pc' = "main"
  /\ UNCHANGED <<operands, stdin, mcount, code>>

(* Standard input is one name more, which is neither filtered nor examined. *)
FromStdin == operands = <<>>
Name == IF FromStdin THEN stdin ELSE operands[k]
AtName == pc = "main" /\ k <= IF FromStdin THEN 1 ELSE Len(operands)

(* file_matching(): the mode is assigned EXCL_PAT, which is 0, in the      *)
(* place of being compared, so that each pattern that matches includes.    *)
FileMatching(name) == opt.finclude => name.matches # {}

InTree == opt.dirs = "RECURSE" /\ ~FromStdin
Considered == AtName /\ (FromStdin \/ FileMatching(Name))
LimitReached == opt.m # NoLimit /\ mcount <= 0
Stated == Considered /\ ~LimitReached

(* Names that procfile() is not called for, or returns from at once. *)
Pass ==
  /\ ~(InTree /\ AtName /\ Name.kind = "denied")
  /\ \/ AtName /\ ~FromStdin /\ ~FileMatching(Name)
     \/ Considered /\ LimitReached
     \/ Stated /\ Name.kind = "directory" /\ opt.dirs \in {"SKIP", "RECURSE"}
  /\ Returns(0, FALSE)
  /\ UNCHANGED <<opt, inputVars, contextVars, c>>

(* errx(2) for a directory that fts_read() cannot examine. *)
TreeError ==
  /\ InTree /\ AtName /\ Name.kind = "denied"
  /\ Exit(2)

(* When stat() fails f is what the stack held: NULL, by chance, or not. *)
StatFails ==
  /\ Stated /\ ~FromStdin
  /\ Name.kind = "missing" \/ (Name.kind = "denied" /\ ~InTree)
  /\ \/ Returns(0, Name.kind = "missing")
     \/ /\ pc' = "crash"
        /\ UNCHANGED <<operands, stdin, k, total, mcount, notfound, code>>
  /\ UNCHANGED <<opt, inputVars, contextVars, c>>

(* open() fails, if only because the file has gone since. *)
OpenFails ==
  /\ Stated /\ ~FromStdin /\ Name.kind \in {"file", "directory"}
  /\ Name.kind = "directory" => opt.dirs = "READ"
  /\ \E gone \in BOOLEAN : Returns(0, gone)
  /\ UNCHANGED <<opt, inputVars, contextVars, c>>

OpenName ==
  /\ Stated /\ Name.kind = "file"
  /\ Open([data |-> Name.data, packed |-> Name.packed])
  /\ pc' = "opening"
  /\ UNCHANGED <<opt, contextVars, operands, stdin, k, c, total, mcount, notfound, code>>

(* The first fill decides whether grep_open() succeeds. *)
Opening ==
  /\ pc = "opening"
  /\ FirstFill \/ CannotDecompress
  /\ \/ io' = "closed" /\ Returns(0, FALSE) /\ UNCHANGED <<contextVars, c>>
     \/ /\ io' = "ready" /\ pc' = "loop"
        /\ c' = 0 /\ StartFile
        /\ UNCHANGED <<operands, stdin, k, total, mcount, notfound, code>>
  /\ UNCHANGED opt

-----------------------------------------------------------------------------
(* The loop over the lines; -l and -q need no more than one. *)
ReadLine ==
  /\ pc = "loop"
  /\ c = 0 \/ ~(opt.l \/ opt.q)
  /\ CallFgetln
  /\ pc' = "line"
  /\ UNCHANGED <<opt, contextVars, operands, stdin, k, c, total, mcount, notfound, code>>

Reading ==
  /\ pc = "line"
  /\ FillBuffer \/ TakeLine \/ StartLine \/ ContinueLine
  /\ UNCHANGED <<opt, contextVars, mainVars>>

HasReturned == pc = "line" /\ io = "ready"

EndOfFile ==
  /\ \/ pc = "loop" /\ c > 0 /\ (opt.l \/ opt.q)
     \/ HasReturned /\ dat = <<>>
  /\ pc' = "end"
  /\ UNCHANGED <<opt, inputVars, contextVars, operands, stdin, k, c, total, mcount, notfound, code>>

SkipBinary ==
  /\ HasReturned /\ dat # <<>>
  /\ binary /\ opt.bin = "SKIP"
  /\ Close
  /\ Returns(0, FALSE)
  /\ UNCHANGED <<opt, contextVars, c>>

IsHit(line) == (Hit \in ToSet(line)) # opt.v

(* Variant: the limit is compared before the line is counted. *)
CountedLate(t) ==
  IF opt.m # NoLimit
  THEN mcount' = mcount - t /\ pc' = IF mcount <= 0 THEN "end" ELSE "loop"
  ELSE pc' = "loop" /\ UNCHANGED mcount

Counted(t) ==
  IF opt.m # NoLimit
  THEN mcount' = mcount - t /\ pc' = IF mcount - t <= 0 THEN "end" ELSE "loop"
  ELSE pc' = "loop" /\ UNCHANGED mcount

Selects ==
  /\ HasReturned /\ dat # <<>>
  /\ ~(binary /\ opt.bin = "SKIP")
  /\ ProcLine(k, IsHit(dat), binary)
  /\ LET t == IF IsHit(dat) THEN 1 ELSE 0
     IN  c' = c + t /\ Counted(t)
  /\ UNCHANGED <<opt, inputVars, operands, stdin, k, total, notfound, code>>

(* After the loop: -c without a count, -l, -L, and the word on binary files. *)
hflag == Len(operands) <= 1 /\ opt.dirs # "RECURSE"
Said(what, when) == IF when THEN <<[what |-> what, of |-> k]>> ELSE <<>>

FileDone ==
  /\ pc = "end"
  /\ EndFile(   Said("count", opt.c /\ ~hflag)
             \o Said("name", opt.l /\ ~opt.q /\ c # 0)
             \o Said("name", opt.L /\ ~opt.q /\ c = 0)
             \o Said("binary", /\ c # 0 /\ ~opt.c /\ ~opt.l /\ ~opt.L
                               /\ opt.bin = "BIN" /\ binary /\ ~opt.q))
  /\ Close
  /\ Returns(c, FALSE)
  /\ UNCHANGED <<opt, c>>

-----------------------------------------------------------------------------
(* The end of main(); with -R it is reached without an exit(). *)
Status ==
  CASE InTree    -> 0
    [] FromStdin -> IF total > 0 THEN 0 ELSE 1
    [] total > 0 -> IF notfound /\ ~opt.q THEN 2 ELSE 0
    [] OTHER     -> IF notfound THEN 2 ELSE 1

Finish ==
  /\ pc = "main" /\ ~AtName
  /\ Exit(Status)

Next ==
  \/ Pass \/ TreeError \/ StatFails \/ OpenFails \/ OpenName \/ Opening
  \/ ReadLine \/ Reading \/ EndOfFile \/ SkipBinary \/ Selects \/ FileDone
  \/ Finish

Spec == Init /\ [][Next]_vars

-----------------------------------------------------------------------------
(* With -m the lines selected in all the files together are never more,    *)
(* and once they are that many no line of any file is processed any more   *)
(* (util.c:159, 216).                                                      *)
Hits == {i \in DOMAIN seen : seen[i].hit}

LimitKept ==
  opt.m # NoLimit =>
    /\ Cardinality(Hits) <= opt.m
    /\ seen # <<>> /\ Cardinality(Hits) = opt.m => Len(seen) \in Hits

(* The exit status tells what was found: 0 (but for -R) that a line was    *)
(* selected and, without -q, that no name was missing; 1 that none was;    *)
(* and 2 that a name was missing (grep.c:670 to 689).                      *)
StatusTellsMatch ==
  pc = "exit" /\ ~InTree =>
    /\ code = 0 => Hits # {}
    /\ code = 1 => Hits = {}
    /\ code = 2 => notfound
    /\ ~FromStdin /\ ~opt.q /\ opt.m = NoLimit =>
         ((\E i \in DOMAIN operands :
             operands[i].kind = "missing" /\ FileMatching(operands[i])) => code = 2)

-----------------------------------------------------------------------------
(* Statements of the source that the code does not keep. *)

(* "Find out the correct return value according to the results and the     *)
(* command line option" (grep.c:687): with -R too.                         *)
StatusWithTree == pc = "exit" /\ Hits = {} => code # 0

(* "Check for file exclusion/includeion" (util.c:120): what a pattern of   *)
(* --exclude matches is not read.                                          *)
ExcludedIsNotRead ==
  pc = "opening" /\ ~FromStdin => "excl" \notin Name.matches
=============================================================================
