---------------------------- MODULE MCFunctions -----------------------------
(***************************************************************************)
(* The programs that are functions of their input, for TLC: a state is one *)
(* input, [of |-> which function, ...], and nothing happens in it.  That   *)
(* variable and tail are in MCTailCommand.                                 *)
(***************************************************************************)
EXTENDS MCTailCommand, SequencesExt

Search == INSTANCE GrepSearch WITH DOT <- "dot", NUL <- "nul", MAX_LINE_MATCHES <- 2
Cook == INSTANCE CatCook
  WITH NL <- "nl", TAB <- "tab", CTRL <- "ctrl", METANL <- "metanl",
       METACTRL <- "metactrl", META <- "meta"
HeadOf == INSTANCE HeadLines WITH NL <- "nl", BUF <- 2
Date == INSTANCE DateSet
Options == INSTANCE LsOptions
Show == INSTANCE LsShow
Subst == INSTANCE Strnsubst

-----------------------------------------------------------------------------
(* grep -F: lines of up to 4 bytes and what may lie behind them. *)
Flags(names) == [names -> BOOLEAN]

SearchInputs ==
  [of : {"search"}, pattern : SeqOf({"a", "b"}, 3) \ {<<>>}, line : SeqOf({"a", "b"}, 5),
   behind : {<<"nl", "a", "b", "a", "b">>, <<"nl", "b", "a", "a", "a">>},
   f : {f \in Flags({"x", "v", "o", "color", "quick"}) : ~f.quick \/ ~(f.o \/ f.color)}]

(* tail: a file of up to 6 bytes, in windows and blocks of a few. *)
TailInputs ==
  [of : {"tail"}, letter : {"n", "c", "b"}, sign : {"none", "+", "-"}, n : 0 .. 4,
   data : SeqOf({"nl", "x"}, 6)]

CookInputs ==
  [of : {"cook"}, data : SeqOf({"nl", "tab", "ctrl", "metanl", "x"}, 4),
   f : Flags({"b", "e", "n", "s", "t", "v"})]

HeadInputs == [of : {"head"}, n : 0 .. 3, data : SeqOf({"nl", "x"}, 6)]

(* date: values at and next to every border. *)
DateTuples ==
  {<<cc, yy, mm, dd, h, m>> :
     cc \in {18, 19, 20}, yy \in {0, 4, 68, 69, 99}, mm \in {0, 2, 3, 12, 13},
     dd \in {0, 1, 28, 29, 30, 31, 32}, h \in {0, 23, 24}, m \in {0, 59, 60}}

DateInputs ==
  [of : {"date"}, fields : {SubSeq(t, 7 - n, 6) : t \in DateTuples, n \in 1 .. 6},
   dot : [given : {TRUE}, digits : {2}, sec : {0, 61, 62}]
         \cup {[given |-> FALSE, digits |-> 0, sec |-> 0]},
   now : [year : {0, 100}, mon : {1, 3, 11}, mday : {28}, hour : {12}, min : {30}]]

(* ls: options, three entries to compare, and trees of three entries or    *)
(* lists of up to seven to be shown. *)
OptionInputs ==
  [of : {"options"},
   options : SeqOf({"1", "C", "x", "m", "l", "g", "n", "c", "u", "t", "B", "q", "w", "h", "k", "M"}, 3)]

Entry(name, info, level, dot, locked, weight) ==
  [name |-> name, info |-> info, locked |-> locked, level |-> level, dot |-> dot,
   size |-> IF weight = 0 THEN 0 ELSE 1, len |-> name,
   time |-> CASE weight = 0 -> <<0, 0>> [] weight = 1 -> <<0, 1>> [] OTHER -> <<1, 0>>]

Entries ==
  {Entry(n, info, 0, FALSE, FALSE, w) : n \in 1 .. 2, info \in {"D", "F", "NS", "ERR"}, w \in 0 .. 2}

OrderInputs ==
  [of : {"order"}, f : {[on |-> {}]}, a : Entries, b : Entries, c : Entries,
   sort : [key : {"BY_NAME", "BY_SIZE", "modified"}, reverse : BOOLEAN]]

On == {"listdot", "listdir", "recursive"}
Shapes == {p \in [1 .. 3 -> 0 .. 2] : \A n \in 1 .. 3 : p[n] < n}

(* The tree of a shape: roots and kids, in the order of the names. *)
Tree(parent, info, dots, locked) ==
  LET level[n \in 0 .. 3] == IF n = 0 THEN -1 ELSE level[parent[n]] + 1
      entry(n) == Entry(n, info[n], level[n], n \in dots, n = locked /\ info[n] = "D", 0)
      of(n) == SelectSeq(<<1, 2, 3>>, LAMBDA m : parent[m] = n)
      list(n) == [i \in DOMAIN of(n) |-> entry(of(n)[i])]
  IN  [roots |-> list(0), kids |-> [n \in 1 .. 3 |-> list(n)]]

Trees ==
  {Tree(p, info, dots, locked) :
     p \in Shapes, dots \in SUBSET (1 .. 3), locked \in {0, 3}, info \in [1 .. 3 -> {"D", "F", "NS"}]}

Sound(tree) == \A n \in DOMAIN tree.kids : tree.kids[n] # <<>> =>
  \E m \in DOMAIN tree.kids \cup {0} :
    \E e \in ToSet(IF m = 0 THEN tree.roots ELSE tree.kids[m]) : e.name = n /\ e.info = "D"

Printers == {"printscol", "printcol", "printacol", "printstream"}

TreeInputs ==
  [of : {"show"}, tree : {t \in Trees : Sound(t)}, on : SUBSET On, fn : Printers,
   termwidth : {8}, extra : {0}]

ListInputs ==
  [of : {"show"}, on : {{}}, fn : Printers, termwidth : 0 .. 20, extra : 0 .. 1,
   tree : {[roots |-> [i \in 1 .. n |-> Entry(i, "F", 0, FALSE, FALSE, 0)], kids |-> <<>>] :
             n \in 0 .. 7}]

(* xargs -I: words of up to 4 bytes, {} as one byte. *)
SubstInputs ==
  [of : {"subst"}, s : SeqOf({"{}", "x"}, 4), repl : SeqOf({"a"}, 2), maxsize : {8}]

FunctionsInit ==
  \/ input \in SearchInputs \/ input \in TailInputs \/ input \in CookInputs
  \/ input \in HeadInputs \/ input \in DateInputs \/ input \in OptionInputs
  \/ input \in OrderInputs \/ input \in TreeInputs \/ input \in ListInputs
  \/ input \in SubstInputs

FunctionsNext == UNCHANGED input

FunctionsSpec == FunctionsInit /\ [][FunctionsNext]_input

-----------------------------------------------------------------------------
(* Each is the property of that name in the module of the function, of     *)
(* every input: fastgrep.c and util.c, cat.c, head.c, date.c, and ls.c,    *)
(* cmp.c and print.c; of tail, ShowsWhatIsAsked in MCTailCommand. *)

(* grep finds the occurrences of a literal pattern. *)
FindsOccurrences ==
  Is("search") => Search!FindsOccurrences(input.pattern, input.line, input.f, input.behind)

(* cat -s -n numbers the lines it keeps. *)
NumbersLines == Is("cook") => Cook!NumbersLines(input.f, input.data)

(* head -n shows the first lines. *)
FirstLines == Is("head") => HeadOf!FirstLines(input.n, input.data)

(* date takes the dates of the calendar. *)
DateAsCalendar == Is("date") => Date!DateAsCalendar(input.fields, input.dot, input.now)

(* Of the options of ls that override each other the last one wins. *)
LastOptionWins == Is("options") => Options!LastOptionWins(input.options)

(* mastercmp() is an order. *)
OrderSorts == Is("order") => Show!OrderSorts(input.f, input.sort, input.a, input.b, input.c)

(* ls prints every entry once. *)
EveryEntryOnce ==
  Is("show") => Show!EveryEntryOnce([on |-> input.on], input.fn, input.tree.roots,
                                    input.tree.kids, input.termwidth, input.extra)

-----------------------------------------------------------------------------
(* The statements of the source that the code does not keep, each with its *)
(* quotation in the module of the function. *)
Behind == <<"nl", "a", "nul">>

EveryPatternCompared ==
  Is("search") => Search!EveryPatternCompared(<<input.pattern, input.line>>, input.line, Behind)
MatchInLine ==
  Is("search") => Search!MatchInLine(<<"dot", "dot">>, input.line, Behind)
WordsOnly ==
  Is("search") => Search!WordsOnly(<<"dot">>, input.line, Behind)
SearchEnds ==
  Is("search") => Search!SearchEnds(input.pattern, input.line \o <<"nul">> \o input.pattern, Behind)

LastLines == Is("tail") => Command!LastLines(input.n, input.data)
TailFilesFollow == Command!FilesFollowOptions(<< >>) /\ Command!FilesFollowOptions(<< <<"-", "q">> >>)
TailFilesFollowTwo == Command!FilesFollowOptions(<< <<"-", "q">>, <<"-", "n", "3">> >>)
StaysInArgv == Command!StaysInArgv(<< <<"-", "n">> >>)

ShowsEveryLine == Is("cook") => Cook!ShowsEveryLine(input.f, input.data)
LinesAreWhole == Is("cook") => Cook!LinesAreWhole(input.f, input.data)
OnlyLinesAreNumbered == Is("cook") => Cook!OnlyLinesAreNumbered(input.f, input.data)

FirstBytes == Is("head") => HeadOf!FirstBytes(input.n, input.data)
HeadFilesFollow == HeadOf!FilesFollowOptions(<< <<"q">>, <<"n", 2>> >>)
OldFormTaken == Is("head") => HeadOf!OldFormTaken(input.n)

EveryMonth == Is("date") => Date!EveryMonth(input.fields, input.dot, input.now)

LongBeforeGroup == Is("options") => Options!LongBeforeGroup(input.options)
StatWhenNeeded == Is("options") => Options!StatWhenNeeded(input.options)
BlocksizePositive == Options!BlocksizePositive(<<"s", "k", "i">>)
ListsTheFiles == Is("options") => Options!ListsTheFiles(input.options)

NonDirectoriesLarger ==
  Is("order") => Show!NonDirectoriesLarger(input.f, input.sort, input.a, input.b)
OrderWithErrors ==
  Is("order") => Show!OrderWithErrors(input.f, input.sort, input.a, input.b, input.c)
StreamShows ==
  Is("show") => Show!StreamShows([on |-> input.on], input.tree.roots, input.tree.kids, 80)
(* A visible directory, with a file, in a hidden one of argv's directory. *)
HiddenStaysHidden ==
  LET dir(n, dot) == Entry(n, "D", n - 1, dot, FALSE, 0) IN
  Show!HiddenStaysHidden([on |-> {"recursive"}], <<dir(1, FALSE)>>,
    << <<dir(2, TRUE)>>, <<dir(3, FALSE)>>, <<Entry(4, "F", 3, FALSE, FALSE, 0)>>, <<>> >>)

Substitutes == Is("subst") => Subst!Substitutes(input.s, <<"{}">>, input.repl, input.maxsize)
StaysInCopy == Is("subst") => Subst!StaysInCopy(input.s, <<"{}">>, input.repl, input.maxsize)
=============================================================================
