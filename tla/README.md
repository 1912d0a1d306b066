# A verification project for c-cmd

The repository holds hand-typed versions of BSD utilities, each in a directory
of its own: `xargs`, `find`, `grep`, `tail`, `cp`, `cat`, `head`, `ls`, `date`
and `echo`.  They share no code and never call each other.  There are no tests and,
apart from comments and usage strings, no documentation (the README links to
the originals).  This directory models the programs in TLA+, checks the models
with TLC and proves the results that matter most with TLAPS.

## How the source is read

The source was typed by hand, and parts of it do not compile.  It is read by
two rules:

- an identifier that names nothing (`optrag`, `argc. av`, `exit(val)`, a
  missing semicolon) is read as the evident one;
- what parses as C is taken as it stands, however unlikely: a brace in the
  wrong place, a wrong operator, an assignment in the place of a comparison.

`getopt()` is the BSD one, which stops at the first word that is not an option.

## Inventory

| component | state | operations | what is hard | what makes it correct |
|---|---|---|---|---|
| xargs reader, `parse_input()` in `xargs/xargs.c` | one buffer (`bbp`, `p`, `argp`, `ebp`), the vector of starts (`bxp`, `xp`, `endxp`), quotes, `wasquoted`, `count`, `inpline` | one call per character; `prerun()` when a limit is met; reset or copy-down afterwards | five reasons to end a command, three places that reset state, a buffer that fills in the middle of a word | every word reaches exactly one command, in order; commands respect and use the limits; no byte outside the buffer |
| xargs commands, `run()`, `waitchildren()`, `prompt()` | `childerr`, `curprocs`, `rval` and the kernel's children | vfork and exec, waiting with or without blocking, exit | children share the parent's memory until exec, end in any order and any way | at most `-P` children; none started after a fatal end; an exit status that tells what happened; it ends |
| xargs command line, `main()` | flags and limits, `argc`/`argv`, `linelen`, `nline` | one option, the checks, the allocation | a loop that closes in the wrong place, int arithmetic on sizes | what it hands over is what the reader assumes; the vector is large enough |
| xargs `strnsubst()` | none (a function) | substitution with a size limit | the limit, the shell of `-I` | the result is the substitution, cut at the limit |
| find plan, `find_formplan()`, `operator.c`, `find_create()` | a list of nodes, rearranged in place | squish of parentheses, not, or | in-place surgery on a linked list | the plan means what the expression says; no node lost |
| find search, `find_execute()`, `find_traverse()`, `f_exec()`, `plan_cleanup()` | `g_entry`, `sig_lock`, `isdepth`, the paths collected for `{} +` | walk, evaluation with short circuit, batching, flush at the end | SIGINFO handler against `fts_read()`; collected paths under an operator | every path that matched is handed over once |
| find command line, `main()`, `option.c` | `ftsoptions`, four flags, the list of paths `start` to `p` | one option letter, one operand | joined and repeated options; a loop that closes in the wrong place | one way to walk; the list of paths has room |
| find primaries, `function.c`, `misc.c`, `ls.c` | none | comparisons with a stat field, formatting | `-delete`, `-prune` and depth | each test is the test it is named for |
| grep context, `procfile()`, `procline()`, `queue.c` | the queue of the last `-B` lines, `tail`, `since_printed`, `first`, counts | enqueue, print the queue, print a line | overlap of the contexts of two matches | a line is printed once, in order, if it is near a match |
| grep input, `file.c` | read buffer, line buffer | refill, take a line | a line that crosses several reads | the lines are those of the file |
| grep literal search, `fastgrep.c` | shift table | compile, search forward or backward | the shift at word ends and at `^`, `$` | finds what a naive search finds |
| tail, `forward.c`, `tail.c` | the file, `kq`, `action`, the saved stat | show the end, then follow | the file rotated, truncated or removed between two steps | nothing that is written is shown twice or left out between two bytes shown, unless a rename meets `freopen()` |
| cp, `cp.c`, `utils.c` | the target path, the stack of modes | walk, create, copy, restore | the loop over the hierarchy ends before anything is copied | (not modelled, see below) |
| cat, `cat.c` | the buffer, `off`, `nr`, `rval`; `gobble`, `line`, `prev` | read, write, cook a character | short reads and writes, errors half way | the output is the operands, between the text of `main()` that was written before and that which stdio held; the status tells of each that failed |
| head, `head.c` | counts | one option, one line | the options move `argv` while getopt() counts | the first lines |
| ls, `ls.c`, `cmp.c`, `print.c` | the flags, the list of entries | options, traverse, sort, lay out | options that override each other; entries of different kinds in one comparison; columns | the last option wins; the comparison is an order; every entry is printed once |
| date, `setthetime()` | `struct tm` | parse, check, set | leap years, month ends | it accepts exactly the valid dates |
| echo | none | print | nothing | |

Interactions: within xargs, `parse_input()` calls `prerun()`, which calls
`run()`, which calls `waitchildren(name, 0)`; at the end of the input it calls
`waitchildren(name, 1)`; children share the parent's memory between `vfork()`
and `execvp()`.  Within find, `find_execute()` evaluates the plan for each
entry that fts(3) returns and a signal handler reads the same entry.  Within
grep, `procfile()` takes lines from `file.c`, and gives them to `procline()`,
which uses the queue.  The others are sequential, against a file system that
other processes change.

## Modules

### The reader: `XargsParse`, `XargsArguments`, `XargsArguments_proofs`

`XargsParse` is `parse_input()` and the part of `prerun()` that decides what is
run.  A step is one call of `parse_input()`, that is one character or the end
of the input, cut in two where it calls `prerun()`:

| TLA+ | code |
|---|---|
| `buf`, `argp`, `xp` | the bytes from `bbp` to `p`; `argp`; the pointers from `bxp` to `xp`, as offsets |
| `ebp` | the pointer of that name, as an offset: `nline - 1` |
| `Blank`, `Nul`, `Newline`, `SingleQuote`, ... | the cases of the switch |
| `EndArgument` | labels `arg1` and `arg2`: store the argument, decide whether to run |
| `AddCharacter` | label `addch`: store the character or, when the buffer is full, run what there is |
| `EofEmpty`, `EofArgument`, `EofInQuotes` | `case EOF` |
| `Resume` | the code after each of the two calls of `prerun()`: stop, reset, or copy down |
| `CopyDown` | the `memcpy()` of the argument in hand; on overlapping regions it may go either way |
| `RunExits` | `run()` ends the program |

The alphabet is what the switch tells apart: NUL, blank, newline, the two
quotes, backslash, and the ordinary characters `Plain`.  `cmds`, `read` and `overlapped`
are history: the commands so far, the characters so far, and whether
`memcpy()` was ever given overlapping regions (undefined in C: the properties
about content are stated for runs in which that did not happen, and both
results are modelled).

`XargsArguments` says what the reader promises.  The reference is `Words`: the
words of the whole input, found by one fold from the left with no buffer and no
limit.  The properties relate the commands, and while reading also the buffer,
to the words:

- `AllWordsDelivered`: no word lost, repeated, joined, split
  or reordered, whatever the limits do;
- `CommandsAreFull`: a command takes as many words as `-n` and `-s` allow and
  not one more;
- `CommandsFollowLines`: with `-L` and `-I` the k-th command has exactly the
  words of its lines;
- `BufferInBounds`, `ArgvInBounds`: nothing is stored outside what `main()`
  allocated.

### The commands: `JobPool`, `XargsRun`, `XargsRun_proofs`

`XargsRun` is `run()`, `prompt()` and `waitchildren()` with the kernel's table
of children.  The parent is at `pc` "read" (in `parse_input()`), "vfork"
(suspended), "wait" and "drain" (in `waitchildren()` with `waitall` 0 and 1) or
"exit".  A child goes from "setup" (in the parent's memory) to "running",
"leaving" (`_exit()` was called, the parent may already go on), "zombie" and
"reaped".  One action is one step of the parent between two system calls
(`Vfork`, `VforkReturns`, `Reap`, `NoneReady`, `NoChildren`, ...) or one step of
a child (`Executes`, `ExecFails`, `SetupFails`, `Ends`, `BecomesZombie`).

`JobPool` is what a user relies on: jobs start while fewer than `Limit` are
open, none after a fatal end, and the verdict tells how they ended.  `XargsRun`
implements it (`ImplementsPool`): a job is open from `vfork()` to the
`waitpid()` that returns it, and the verdict is read from the exit status.

### The whole: `Xargs`, `Xargs_proofs`

`Xargs` joins the two: the reader moves while the runner is in "read", the
runner's `vfork()` takes the command the reader asks for, and the two end
together.  Its properties need both: `SuccessMeansDone` (exit status 0: every
word was in a command that succeeded) and `ArgumentsHeldForExec` (the reader
leaves the buffer alone while a child that shares it has not executed).

### The command lines: `XargsOptions`, `CommandLines`, `CommandLines_proofs`

`XargsOptions` is `main()` up to the first call of `parse_input()`.  The body of
the getopt loop closes only at line 243: after its first option the program
goes on to its input and never returns to getopt, and without an option it
never starts.  `ReaderSettings` is what the other modules take for granted
(positive limits, `-x` exactly with `-I` and `-L`, no `-p` with `-P`).  The size
of the vector is computed in an int of a few bits, where the product wraps
around: the vector is then too small, which refutes `ArgvIsAllocated`.

Its constants are assumed together in `MainAssumption`.

`CommandLines` puts the `main()` of xargs beside that of find (`FindMain`, below),
so that one run checks both and one module proves both: `program` says whose
line it is, and the variables of the other program do not move.

`MCXargsReader`, `MCXargs` and `MCXargsRun` give the constants their values.
`MCXargsRun` has `XargsRun` twice, with `-P 2` and with `-p`.  The words that TLC
gives both programs (`SomeWords`, `SomeNumbers`) are at the end of `CommandLines`.

### The plan of find: `FindPlan`, `FindMeaning`

`FindPlan` is `find_formplan()`: one step creates the nodes (`-a` gives none;
without an action the whole is bracketed and a print is added) and one step is
each squish of `operator.c`.  A list of nodes is a sequence and NULL the empty
one, so that what the code unlinks and relinks is built anew; a primary is
known by its place on the command line.

| TLA+ | code |
|---|---|
| `Yanked`, `Deeper`, `Collect`, `CloseParen` | `yankexpr()`, whose recursion is the stack `open`, and the loop of `paren_squish()` |
| `NotSquish`, `NotsBefore`, `Negated` | `not_squish()`: a run of `!` and its `notlevel` |
| `OrSquish`, `SecondOperand` | `or_squish()`; line 223 assigns NULL to the second operand |
| `NotFails`, `OrFails`, an empty `open` | the calls of `err()` and `errx()` |

`FindMeaning` holds two evaluations of a file: `EvalList` is what the plan does
(`f_expr()`, `f_not()`, `f_or()` and the same loop in `find_execute()`), `Means`
is the meaning of the tokens, by recursive descent without lists.  Both tell the
result and which primaries were evaluated, in order, which is all that find
does to a file.  `PlanFollowsExpression` compares them for every truth of the
primaries; `SensibleAccepted` says that no well-formed expression is refused.

### `-exec utility {} +`: `ExecBuffer`, `ExecBatch`, `ExecBatch_proofs`

`ExecBuffer` defines the state of one such primary and the functions on it
(`RunExec` is `run_f_exec()`, `CollectPath` is `f_exec()`, `CleanUp` is
`plan_cleanup()`, `NewBatch` is `c_exec()`); pointers are offsets from `ep_bbp`.
`ExecBatch` is one primary from its creation to the end of find, evaluated for
any paths, with commands that end in any way.

### The search: `FindLoop`, `FindExecute`

`FindLoop` is `find_execute()` and `find_traverse()` for any plan: the
entries of the hierarchy come one by one, each is skipped, warned about or
evaluated, and each `-exec ... {} +` keeps a state of `ExecBuffer`.  fts(3)
is external: it returns a sequence of entries and may fail at any call, and an
entry is gone when the next is asked for (`g_entry` "freed").  The SIGINFO
handler only reads, so it is not an action: it may run in every state with
`handler` and without `blocked`, and `HandlerReadsEntry` says what it then
finds.  Which primaries an evaluation comes to, and which `find_traverse()`
does, is left open: `EvaluateWith` and `TraverseWith` take them as parameters,
and `LoopSpec` takes any of them.

`FindExecute` fills them in with the plan of `FindPlan`: a step of it forms the
plan, which leaves the variables of the loop alone, or is a step of the loop
with one choice of these parameters, so that each is a step of `LoopSpec` or
leaves it unchanged.  What is proved of `LoopSpec` needs no tree and no
recursive operator, which is why the two are apart.  Of the primaries `-exec ... {} +` and `-exit` (which the table of
`option.c` spells `-exeit`) are there; the others are true or false of a file in
any combination.  The buffers are large enough for one byte after a flush;
`err()` for want of it, and for a `vfork()` that fails, are in `ExecBatch`.

### The command line of find: `FindMain`, `CommandLines_proofs`

`FindMain` is `main()` letter by letter, with getopt(3) as external code.  As its
braces stand, the loop over the operands holds the rest of `main()`: a search is
started only after `-f`, at the first operand that is not an expression, which
`find_create()` then does not know.  `FindPlan` and `FindExecute` therefore take
the functions as components: they show what a search does if it is started.

`MCFindPlan`, `MCExecBatch` and `MCFindExecute` give the constants their values.

### grep: `GrepInput`, `GrepContext`, `Grep`, `Grep_proofs`

`Grep` is built on two modules, each with the variables of its source file:

| TLA+ | code |
|---|---|
| `GrepInput`: `opt`, `Setting` | the flags of `grep.h` that all the files read; one record, fixed in a run |
| `GrepInput`: `buf` | `bufpos` and `bufrem`: what is left of the read buffer |
| `Refills` | what one `grep_refill()` may do: a short read, the decompressor, the restart of a file that is not compressed after all, an error |
| `CallFgetln`, `FillBuffer`, `TakeLine`, `StartLine`, `ContinueLine` | `grep_fgetln()`, cut before each `grep_refill()` |
| `lnbuf`, `lnbuflen`, `Grown` | the line buffer, its size, `grep_lnbufgrow()` |
| `GrepContext`: `queue`, `Enqueue` | `queue.c` |
| `ProcLine` | `procline()` from "Dealing with the context" on |
| `PrintMatch`, `PrintTail`, `Keep`, `BinaryMatch` | its branches |
| `Grep`: `OpenName`, `Opening`, `ReadLine`, `Selects`, `SkipBinary`, `FileDone` | `procfile()` |
| `StatFails` | `f` is tested before it is assigned: what the stack held is NULL, or the program goes on with it (`pc` "crash") |
| `Considered`, `Pass`, `TreeError` | `file_matching()`, `grep_tree()`, the loop over the operands |
| `Status`, `Finish` | the end of `main()` |

`taken`, `seen` and `failed` are history.  As the code stands a line is printed only with
`-L`, because procline() tests `Lflag` where `!Lflag` must be meant
(util.c:336), so the settings about context have it.  `OutputExact` compares what was printed with
`Reference`, which is computed from all the lines and their matches, with no
queue and no counter: a line is due if it is selected or near enough to one
that is, and a mark is due before it if context is asked for, something was due
before, and the line before it was not; `LinesAreTheFile` relates the lines to the file and to
the descriptor's offset.

`GrepSearch` is the search in a line: `fgrepcomp()`, `grep_search()`,
`grep_cmp()` and the loops of `procline()`, as functions.  What `fastcomp()` takes
is nothing but dots, or needs `^`, `$` or `[[:<:]]`, which are left out, as is regexec(3).

### tail: `TailFollow`, `TailCommand`, `CatTail_proofs`

`TailFollow` is the loop of `forward()`, one action for each step between two
system calls; between any two of them others write, truncate, rename and create
(`Others`).  `action`, `kq`, `sbp` and `statbuf` are the code's; `armed` and
`renamed` are what kqueue(2) reports.  An inode is not used again while tail has
it open.  `MCTail` adds two history variables, for what happens at the two
moments at which the code does not look: `raced` (between `stat()` and
`freopen()`) and `missed` (between `freopen()` and the registration).
`ShownOnce` is stated for runs without the first, `FollowsToTheEnd` allows for the second.

`TailCommand` is `obsolete()`, the loop over the options and the style, and what
`forward()` shows first, with the windows of `rlines()`.  `Window`, `OldTurn` and
`Turn` are one turn of the loops of `rlines()`, `obsolete()` and `main()`.  The
`+--p` of `rlines()` does not compile (no unary plus of a pointer) and is read as
`*--p`, the byte.  `MCTailCommand` holds the instance and `ShowsWhatIsAsked`,
apart from the other functions, for the proof; the sizes of a window and of a
block are constants there.
mmap() is taken to work: `rlines()` passes offsets that are not those of a
page, and where that fails nothing is shown.

### The others: `CatRaw`, `CatTail_proofs`, `CatCook`, `HeadLines`, `DateSet`, `LsOptions`, `LsShow`, `Strnsubst`

`CatRaw` is a state machine: `main()` from the lock on, `raw_args()` and
`raw_cat()`, under short reads and writes, with the errors of the lock, `open()`,
`fstat()`, `malloc()`, `read()`, `write()` and `fclose()`.  `raw_cat()` writes
past stdio, to which `main()` has printed (cat.c:30 and 76): of that text stdio
has written some before (`early`) and holds the rest (`late`) until `fclose()` or the
`exit()` of `err()` writes it.  How it is divided is chosen at the start, since nothing
between depends on it.  A `write()` that takes nothing is a stuttering step, and
`printf()` itself does not fail.  The rest are functions, each beside a
reference that is written without the code's state: `CatCook` (`cook_buf()`),
`HeadLines` (`head()`, `obsolete()` and the options), `DateSet`
(`setthetime()`), `LsOptions` (the switch of `ls_main()` and what follows it),
`LsShow` (`mastercmp()` and the comparisons, `traverse()`, `display()`,
the layouts of `print.c`) and `Strnsubst`.  `MCFunctions` makes one run of them, with
`GrepSearch` and `TailCommand`: a state is one input, and an invariant is
a property of the function on all of them.  It takes tail from `MCTailCommand`.

### Variants

Next to some definitions stands a variant, marked as such: the same definition
with a plausible mistake.  Nothing uses them; each is there to show that a
property tells the code from the mistake.

## Runs

| run | what it asks | bounds, and why they are enough |
|---|---|---|
| `xargs_reader` | the limits `-n`, `-s`, `-J`, and the lines and the end, `-L`, `-I`, `-0`, `-E` | every input of up to 6 characters over 8 kinds, twelve settings; buffers of 4 to 9 bytes and `-n` of 1, 2 and none: a word that fills the buffer exactly, one that overflows it, one too long, and a second overflow after a copy-down all fit into 6 characters; with `-L 2` these are two groups and a rest; an end-of-file string of two characters has a proper prefix |
| `xargs_run` | `-P 2`, and `-p` with one process; any scheduling and status | four commands: the limit is reached, left and reached again, and a fatal end meets another child in every state |
| `xargs_whole` | reader and commands together | 4 characters, a buffer of 3 bytes, so up to two commands before the last one |
| `command_lines` | command lines of up to three words | for find fourteen words: options alone and joined, `-f` with its argument in the same word, in the next and missing, operands and operators; for xargs every option letter, numbers on both sides of each check, an int of five bits |
| `find_plan` | what plan an expression gives | every expression of up to five tokens of seven kinds, and of seven tokens of five kinds: two `!` before an `-o` in parentheses need six, parentheses in parentheses five |
| `exec_batch` | one `-exec ... {} +` | up to five paths of 1, 3 and 8 bytes in buffers of 2 and 8, three to a command: the vector fills, the buffer fills, a path needs all of it, and flushes follow each other |
| `find_execute` | a search, with a signal at any time | nine expressions with an exec at the top, in parentheses, below one and two `!`, beside `-o` and `-exit`; four hierarchies of up to five entries, with and without `-d`, `-X` and a terminal |
| `grep` | lines, contexts, names and the status | a buffer of 3 bytes and lines of up to 7, so a line crosses two refills; `-A` and `-B` of 0 to 2 over one file of up to 8 lines, or two of up to 4, so that contexts meet, overlap, and end at a file's end; up to three names of seven kinds, with `-m`, `-l`, `-q`, `-c`, `-v`, `-R`, `--include` |
| `tail` | following a file while others change it | three files of up to 2 bytes, one truncation of each, two renames: rotated twice, rotated and put back, truncated and grown again |
| `cat` | short reads and writes, errors, and the text that stdio holds | two operands of stdin and two files of up to 2 bytes, buffers of 1 and 2; one or two bytes of text of `main()`, written before, held, or one of each |
| `functions` | nine functions against references | texts of up to 4 to 6 bytes with windows of 2 bytes: at least three windows; dates at and beside every border; up to three options of ls, from those that override each other; trees of three entries in every shape, lists of up to seven on terminals of 0 to 20 columns |
| `xargs_run_lost_error` | a statement of the source that the code does not keep | see below |

`-n 5000` in a setting is the default, which inputs of these lengths never
reach.  Permutation symmetry is used in `xargs_reader`: only `-E` tells the two
ordinary characters apart, and the settings give it with both orders of them.
Deadlock is not checked where the program ends and its model has no step after that.

The type invariants, and the bound, the stop after a fatal end and the status that
are theorems (below), are left out of the runs: `ImplementsPool` and the other
properties fail where they would.

### Disagreements between the code and what it says

One has a run of its own: `xargs_run_lost_error`.  With `-P` above 1 `run()` resets
`childerr` (line 541) while an earlier child that could not be executed is not
waited for yet; "If we couldn't invoke the utility, exit" (line 576) does not
happen, and the failure counts as an ordinary one (exit 123).

The others are stated at the end of the modules named below.  TLC refutes each of
them when it takes the place of the properties in the configuration named (as a
PROPERTY where that is said); the
hypotheses of the properties that do hold name each of these cases.

| statement | where it fails | configuration |
|---|---|---|
| `OptionsAreOptional` (`XargsOptions`) | without an option xargs returns without reading | `CommandLines.cfg` |
| `ArgvIsAllocated` (`XargsOptions`) | `argc * nargs` wraps around for a large `-n` | `CommandLines.cfg` |
| `ArgvIsAllocated` (`XargsArguments`) | without a utility there are two slots, and echo, the arguments and NULL are stored | `XargsReader.cfg`, `Settings <- NoUtility` |
| `QuotedEmptyIsMade` (`XargsArguments`) | a quoted empty word alone at the end of the input is dropped, although "empty args" are made when "they are quoted" (xargs.c:294) | `XargsReader.cfg` |
| `NotNegates` (`FindMeaning`) | `or_squish()` does not go below a `!`, so that an `-o` in parentheses there is never true | `FindPlan.cfg` |
| `OnlySensibleAccepted` (`FindMeaning`) | an expression may end in `-o` | `FindPlan.cfg` |
| `SpaceIsConfirmed` (`ExecBatch`) | after a flush one byte is asked for, whatever the path's length (function.c:577) | `ExecBatch.cfg`, `PathLen <- TooLong` |
| `NullHasSlot` (`ExecBatch`) | with `ep_maxargs` paths NULL goes behind the last slot (function.c:627, 732) | `ExecBatch.cfg` |
| `FileListIsDelimited` (`FindMain`) | the plan is made at the first file operand | `CommandLines.cfg` |
| `OrEvaluatesSecond` (`FindMeaning`) | NULL is assigned to the second operand (`=` for `==`, operator.c:223): the right operand of `-o` is never evaluated | `FindPlan.cfg` |
| `AllPlansCleanedUp` (`FindExecute`) | find_traverse() does not go into an `N_NOT` (find.c:254): what an `-exec ... {} +` below a `!` collected is never given to its command | `FindExecute.cfg` |
| `MatchesArePrinted` (`GrepContext`) | `Lflag` for `!Lflag` (util.c:336): without `-L` no line is printed | `Grep.cfg` |
| `NothingDropped` (`GrepInput`) | the last line of a bzip2 file without a newline is lost at the read after `BZ_STREAM_END` (file.c:73) | `Grep.cfg` |
| `StatusWithTree` (`Grep`) | with `-R` main() ends without exit() (grep.c:673 to 691) | `Grep.cfg` |
| `ExcludedIsNotRead` (`Grep`) | `mode = EXCL_PAT` assigns: a file that `--exclude` matches is included (util.c:41; the comment at util.c:120) | `Grep.cfg` |
| `EveryPatternCompared`, `MatchInLine`, `WordsOnly`, `SearchEnds` (`GrepSearch`) | the next pattern starts where the last match was; a match may begin in the last bytes and end behind the line; `-w` looks only at matches that do not begin the line, and takes a following word; a NUL in the text shifts by 0, for ever | `Functions.cfg` |
| `FollowsTheName`, `ShrinkingIsSeen` (PROPERTY), `NothingLost`, `NeverTwice` (`MCTail`) | after a reopening tail may wait for events that nobody asked for; a truncation is seen only with kqueue(); what is written between the last read and freopen() is lost; a file that took the name in between is shown twice | `Tail.cfg` |
| `LastLines` (`TailCommand`) | a newline at the border of a window is not counted | `Functions.cfg` |
| `TailFilesFollow`, `TailFilesFollowTwo`, `StaysInArgv` (`TailCommand`) | argv moves by optind after every option, while getopt() counts from its first word; obsolete() steps past the end of argv | `Functions.cfg` |
| `ShowsEveryLine`, `LinesAreWhole`, `OnlyLinesAreNumbered` (`CatCook`) | without `-s` cook_buf() shows nothing; with it, of each line the first character (cat.c:136 to 187 are all under `prev == '\n'`); a character that toascii() makes a newline begins a line | `Functions.cfg` |
| `FirstBytes`, `HeadFilesFollow`, `OldFormTaken` (`HeadLines`) | bytecnt goes down only when a write fails; argv moves as in tail; `--5` is no option | `Functions.cfg` |
| `EveryMonth` (`DateSet`) | months of 30 days have no case | `Functions.cfg` |
| `LongBeforeGroup`, `StatWhenNeeded`, `BlocksizePositive`, `ListsTheFiles` (`LsOptions`) | what follows the switch is done after every option: grouponly is reset and `-g` wins, FTS_NOSTAT stays, the block size is divided again and the files are listed once for each option, or not | `Functions.cfg` |
| `NonDirectoriesLarger`, `OrderWithErrors`, `StreamShows`, `HiddenStaysHidden` (`LsShow`) | directories are the larger; entries in error are equal to all; `-m` prints no name; fts_read() goes on below a hidden directory | `Functions.cfg` |
| `Substitutes`, `StaysInCopy` (`Strnsubst`) | `if (maxsize = 0)` assigns: nothing is substituted, and what is copied does not fit | `Functions.cfg` |

### Fairness

`Terminates` assumes that the kernel schedules the xargs process and each child
(weak fairness of the parent's steps, and of each child's), and, about the
world outside, that the input ends and that every utility ends; the latter is
part of the fairness of a child, whose `Ends` is always enabled while it runs.
Nothing is assumed about order or about which status a child ends with.  Weak
fairness is enough: the parent's waiting steps, once enabled, stay enabled
until taken.

`FollowsToTheEnd` assumes that tail goes on while it can (weak fairness of
`Forward`): sleep() returns, and kevent() returns when there is an event to
report.  Nothing is assumed of those who change the file, and an error need not
happen.  That the file is at last left alone is not assumed but comes from the
bounds: writes, truncations and renames run out.

## Proofs

All constants are arbitrary under the named assumptions of the modules: the
characters differ from the special ones, settings are well typed, `-J`'s words
lie within argv, `-x` is given exactly with `-I` or `-L` (which `ReaderSettings`
says of `main()`), `-P` is at least 1 and is 1 with `-p`, buffers are not
empty.  `Xargs` states those of its halves as `XargsAssumption`, so that the
theorems about them may be used.

| theorem | property | invariant |
|---|---|---|
| `BufferSafe`, `ArgvSafe` | `BufferInBounds`, `ArgvInBounds` | `IInv` of `XargsArguments_proofs` |
| `EveryWordIsDelivered` | `AllWordsDelivered` | `WordsInv` |
| `CommandsAreFilled` | `CommandsAreFull` | `FullInv` |
| `CommandsKeepToLines` | `CommandsFollowLines` | `LinesInv` of `XargsArguments_proofs` |
| `CurprocsCorrect`, `StatusFaithful`, `RefinesPool` | `CurprocsExact`, `ExitStatusFaithful`, `ImplementsPool` | `RunInv` |
| `LastExecFailureReported` | `LastFailureReported` | `LastInv` |
| `EachHalfKept`, `SuccessIsTrue`, `ArgumentsHeld` | `SuccessMeansDone`, `ArgumentsHeldForExec` | `JointInv` |
| `SettingsForReader` | `ReaderSettings` | `SettingsInv` |
| `OneWalkModeAlways`, `PathsAlwaysFit` | `OneWalkMode`, `PathsFit` | `IInv` of `CommandLines_proofs` |
| `PathsDelivered`, `NargBounded`, `BytesBounded` | `EachPathOnce`, `NargInBounds`, `BytesInBounds` | `IInv` of `ExecBatch_proofs` |
| `CommandsOfFindAreFull` | `BatchesAreFull` | `FullInv` of `ExecBatch_proofs` |
| `GrepLinesAreTheFile` | `LinesAreTheFile` | `ReadingInv` |
| `GrepLimitKept`, `GrepStatusTellsMatch` | `LimitKept`, `StatusTellsMatch` | `CountingInv` |
| `GrepShowsContext` | `OutputExact` | `PrintingInv` |
| `CatCopies` | `CopiesInOrder` | `IInv` of `CatTail_proofs` |
| `TailShowsOnce` | `ShownOnce` | `FollowInv` |
| `TailShowsWhatIsAsked` | `ShowsWhatIsAsked` | `Searched`, of `rlines()` |
| `HandlerNeverReadsFreed`, `MaskIsRestored` | `HandlerReadsEntry`, `MaskRestored` | `MaskInv` |
| `ExecsStayInBounds`, `ExecsGetTheirFiles` | (of `FindLoop`) | `LoopInv` |
| `ZeroMeansDone` | (of `FindLoop`) | `DealtInv` |
| `SearchFindsFirst` | (of `GrepSearch`) | the place from which the loop goes on |
| `DatesOfTheCalendar`, `MasterIsAnOrder`, `LastOfAnyOptionsWins` | `DateAsCalendar`, `OrderSorts`, `LastOptionWins` | `Tell` for the last |
| `HeadShowsFirstLines` | `FirstLines` | |
| `CatNumbersLines` | `NumbersLines` | `Knows` |

### What the proofs share: `Totals`, `SequenceFacts`

Many properties compare a state with a fold, a flattened sequence or a sum.  The
library's induction theorems take an operator as a parameter and cannot be
instantiated here, but a set can: `LeastElement` says that a set of numbers which is
not empty has a least one (numbers are well founded), and from it follow
`NatInd` and `RangeInd`, induction for the set of the numbers that have a
property.  With them `SequenceFacts` proves that a recursive function meets its
equation at every number (`RecursiveFunction`), and what `FlattenSeq` and `Total` (the sum
of a sequence, from `Totals`) give for the empty sequence, an element more
(`FlattenAppend`, `TotalAppend`), a blank one (`FlattenBlank`) and a sequence cut
in two (`FlattenSplit`).  The modules with theorems extend it.

### xargs

- `XargsArguments_proofs`: `TypeCorrect`, `BufferSafe`, `ArgvSafe`, for every
  input length and every setting.  `BufferInBounds` is not inductive: the
  overflow path stores one byte after the copy without a test.  The
  strengthening `StoreInv` says that while the reader reads `p` has not passed
  `ebp` and a complete argument means `argp > 0`, and that in the overflow path
  the buffer is exactly full and `argp > 0`: the copy is then shorter than what
  it replaces, and one more byte has room.

  `EveryWordIsDelivered` relates the reader to the scan of the whole input.
  `WordsInv` says where the words of `Scan(read)` are: those delivered, then
  those waiting in the buffer from `bxp` to `xp`, then the one in hand from `argp`
  to `p`, with the scan's quotes and the reader's equal; and between the call of
  `prerun()` and its return, which part the command took (`Overflowing`,
  `Limited`).  That the scan makes one step for each character is a lemma over
  the fold.

  `CommandsAreFilled` is for the limits alone, without `-L`, `-I` and `-E`, as
  `CommandsAreFull` is.  `FullInv` says of each command that its words fit and
  that the next one would not have, and of the buffer that `argp` counts the bytes of the
  waiting words and that what is waiting is below both limits; the sums are
  split at the commands with `TotalAppend`.

  `CommandsKeepToLines` is for `-L` and `-I` with a utility, no `-E` and no limit from `-n`
  (`OnlyLines`, as the property says).  The scan numbers the lines from the
  first, `count` begins anew with each command, and `LinesInv` joins the two:
  with n commands the scan is on line n * Lflag + count.  What waits in the
  buffer are the words of the lines since n * Lflag, and `inpline` is these words joined; after a command
  no word is on a line of the next group yet.  The copy-down never happens: with
  `-L` and `-I` an overflow is an error, because of `-x`.

- `XargsRun_proofs`: `RunTypeCorrect`, `PoolBounded`, `CurprocsCorrect`,
  `StatusFaithful`, `FatalIsFinal`, `SerialExecFailureReported`,
  `LastExecFailureReported`, `RefinesPool`.
  The invariant `RunInv` adds to the properties themselves: `RoomLeft`, back in
  the reader `curprocs` is below `maxprocs` (this is where the bound comes from:
  `run()` does not test it); `KidsInv`, only the last child can still be in the
  parent's memory, and only during `vfork()`, and what ended with anything but
  a failure was executed; `RvalInv`, before the exit `rval` is 123 exactly when a
  child that was waited for failed, and none of these ended fatally;
  `ErrnoInv`, a non-zero `childerr` belongs to a child that could not be executed.
  With one process at a time `SerialInv` says that a failed `execvp()` is still in
  `childerr` until its child is waited for; it is what breaks under `-P 2`.
  What remains true with several is `LastExecFailureReported`: of the command
  that was started last nothing resets `childerr`, so the first child that is
  waited for after it, whichever that is, ends xargs (`LastInv`).
  `RefinesPool` shows that `vfork()` is the pool's Start, a `waitpid()` its
  Finish, the exits its GiveUp or Conclude, and that every other step leaves it
  unchanged.

- `Xargs_proofs`: each step of the whole is a step of `XargsArguments` or leaves
  it alone, and the same for `XargsRun` (`ReaderSteps`, `RunnerSteps`), so
  `EachHalfKept`: what is proved of the halves holds of the process, their theorems
  being used through INSTANCE.  `JointInv` relates the two: at most one command
  is asked for and not yet run, the pool is drained or has ended when the reader
  says so, and without `-p` there is a child for every command unless `vfork()` failed.
  `SuccessIsTrue` then needs all three: status 0 means that
  waitchildren() saw only children that succeeded (runner), each command had one
  (joint), and the commands are the words (reader).  `ArgumentsHeld` needs
  only `RunInv`: a child in "setup" means that the parent is suspended.

- `CommandLines_proofs`, `SettingsForReader`: `OneOption` says that when the
  checks are made exactly one option has been taken, since the loop closes
  behind them; each of its letters then gives settings that pass the checks or
  end the program.  If the loop were closed where it must be meant, options
  could be combined, and the invariant would not hold.

### find

- `ExecBatch_proofs`: `BatchTypeCorrect`, `PathsDelivered`, `NargBounded`,
  `BytesBounded`, `StatusKept`, for every set of paths and lengths, every room
  that the utility's words leave, every `ep_maxargs` above 1 and any number of
  paths.  The properties are inductive together, as `IInv`: that a path taken
  after a flush stays inside needs both `ep_p = 0` there and the bound on
  lengths; that a slot is free for the next path needs `ep_maxargs > 1`, because the
  flush path does not compare.  `NargInBounds` is about the paths, those that wait and
  those of the commands run; the NULL behind a full command has no slot (`NullHasSlot`).  `CollectKeeps` does the work, one case for each
  way through `f_exec()`.  `CommandsOfFindAreFull` adds that `ep_p` is the sum of the
  paths that wait, so that when a flush is decided the comparison of the code is
  the one of the property, and that commands already run keep their next path.

- `ExecBatch_proofs`, of `FindLoop`, for every hierarchy and whatever primaries
  the plan comes to: `MaskInv` says at which steps SIGINFO is blocked (from
  `sig_lock()` to `sig_unlock()`), that the mask saved is always the one without
  it, and that the entry is "freed" only while `fts_read()` works.  From it follow
  `HandlerNeverReadsFreed` and `MaskIsRestored`.  `LoopInv` says that each
  exec is as `ExecBatch` keeps it (`Held`), so that the lemmas about
  `f_exec()` and `plan_cleanup()` hold of any number of execs evaluated in any order: `ExecsStayInBounds`,
  and `ExecsGetTheirFiles`, an action property, that an evaluation gives its
  file to the execs it comes to and to no other, and that `find_traverse()`
  sends what it comes to.  `DealtInv` relates `seen` to the hierarchy by the
  places of the entries that were evaluated: as long as nothing was warned of,
  they are all that are not skipped, each once and in order.  `ZeroMeansDone`
  says so of exit status 0.

- `CommandLines_proofs`: `MainTypeCorrect`, `OneWalkModeAlways`, `PathsAlwaysFit`, for
  command lines of any length made of any words.  `PathsFit` is not inductive:
  `PathsBehind` says that each path in the list took a word which getopt() has
  passed (a letter `f` whose argument is the rest of its word counts that word),
  so that there are fewer paths than `at`.  `InsideLetters` says that getopt() is
  past the beginning of a word only when that word is one of letters; without
  it `--` could leave a letter position in the word that follows.

### grep

`Grep_proofs` builds three invariants, each on the one before.

- `ReadingInv`: what has been read of the file is what was returned, then what is
  pending (the read buffer, or the line buffer and the read buffer while a line is put together);
  each line returned ends with the only separator in it, or is the rest of a
  file that is read to its end.  It is stated for each stage of
  `grep_fgetln()` and says also what a restart of a file that is not
  compressed may find.
- `CountingInv`: `c`, `total` and `mcount` count the lines selected in the file,
  in all files and up to the limit; when the limit is met the last line
  processed is the last selected; without `-m` a missing name that was passed
  is in `notfound`.
- `PrintingInv` adds `LinesInv`: what is printed is what is due of the lines so
  far (`Shown`); `tail` counts down from the last match (`Following`); the queue
  holds the last lines that were not printed, `-B` of them at most (`Waiting`);
  `since_printed` is the distance to the last line printed in this file
  (`Since`).  The difficulty is a match: it makes lines wanted that were not, which are
  those in the queue; the reference changes on that stretch only,
  and what it gives there is what the queue is printed as.

`SearchFindsFirst` is about `grep_search()`: for any pattern and line without NUL, of any
length, and whatever stands behind the line, the search ends and finds the
first place from its offset on, or none if there is none (`FirstFrom`).  What the search gives from an offset is what one turn of it
gives or what the search gives from the offset that turn jumps to, so that the
proof goes by induction from the line's end: the shift of the table jumps over
no occurrence.

### cat and tail

`CatCopies`: the invariant says which operand is being read (`NameInv`), that
`buf` holds the bytes of the file just before the descriptor's offset
(`BufferInv`), and that the output is the operands before it and as much of this one as the offset says,
less what is still to be written (`OutInv`), all of it behind what stdio had
written of `main()`'s text (`BehindAhead`).  What stdio held is behind the operands, whole
when `fclose()` succeeds (`CloseKeeps`) and in part when it or `err()` ends the
program (`DieKeeps`).  Standard input is named any number of times but
gives its bytes once, which `OffsetInv` says.  A write then adds a stretch of the buffer that is the same
stretch of the file (`SameStretch`), and the next operand a whole piece
(`NameDone`).

`TailShowsOnce` is for any number of files, writes, truncations and renames.
`FollowInv` says that the name stands for the newest file, if for any, and
that tail has opened no newer one (`Newest`); that what was shown is of files up to the
open one, and of the present or an earlier content of each (`Behind`); and, while
`freopen()` never raced, that `sbp` is the open file and `freopen()` is reached only for
another (`Opened`).  The bytes shown of the present content then end at the
position of the stream (`Aligned`), so that the next one continues them.

`TailShowsWhatIsAsked` is for files of any length and any bytes, windows and
blocks of any size, and `-n`, `-c` and `-b` with one digit in each of their
spellings (`-n 5`, `-n5`, and with a sign `-5`, `+5l`, `-5c`).  `Searched` says
what `rlines()` knows after each window: as many lines are still to be found as
were asked for, less the newlines behind the window (`Looks`), or it is over and
begins where the last lines do (`Begins`).  Both are stated with the number of
newlines before a place (`Below`), and so is where the k-th line of a file
begins (`StartIs`).  The loss of a newline at a border of two windows
is the hypothesis `~NewlineAtBorder` of the property, where it is needed:
`WindowKeeps` uses it.  Of the command line the proof says what `obsolete()`
rewrites (`Rewritten`), that the loop of `main()` then takes one option and ends
at the file (`OptionsFor`), and which style and offset ARG and the switch make of
it (`MainFor`).

### The functions

These are theorems about one input, in `CommandLines_proofs`, with its length
and values left open.  A loop of the code is a fold in the model, which is a
recursive function over sets; each proof first shows that such a function
exists and what one more turn of it does, by induction on the number of turns.

- `DatesOfTheCalendar`: `setthetime()` takes exactly the times of the
  calendar, but for months of 30 days, for any digits and any time it is.
- `MasterIsAnOrder`: of any three entries without an error the comparison is one-way
  and transitive, and equal only for equal names.
- `LastOfAnyOptionsWins`: `Tell` says what the options so far, from the last
  one backwards, mean for the flags.
- `HeadShowsFirstLines`: both spellings of `-n N` leave `argv` at the file, though it
  is moved while getopt() counts; and what is shown ends behind the N-th newline.  That
  there is one is shown with the least place with so many newlines before it.
- `CatNumbersLines`: `Knows` says of the loop of `cook_buf()` that `prev` is a
  newline exactly where a line begins, that `gobble` is set exactly behind an
  empty line, and that `line` counts the lines that had a number.

### Not proved

Proved and no longer among the runs' properties: the `TypeOK` of each of these
modules, `AtMostMaxProcs`, `NoStartAfterFatal`, `StatusPreserved`; and
`ExecFailureReported` with one process at a time.

Model-checked only:

- liveness, which needs fairness: `Terminates`, `FollowsToTheEnd`;
- `FindPlan`, `FindMeaning`, and of `FindExecute` what depends on the plan
  (`RunsForEveryFile`, `FindSuccessMeansDone`): the lists are trees and their
  definitions recursive operators, for which the provers lose their SMT solver;
- `EveryEntryOnce` of ls, which is about trees of any depth and the layout of columns;
- `FindsOccurrences`, of which `SearchFindsFirst` is the search itself: the loops of
  `procline()` over the matches of several patterns remain.

## Not modelled

- xargs: what `-t` and `-p` print; option letters clustered in one word; children
  inherited through exec; EINTR in `waitpid()`; the locale.
- find: `-exec ... ;` (its braces run the utility inside the loop over its
  words), `-execdir`, `-ok`, `-delete`, `-prune`; what the other primaries test,
  each one comparison with a stat field; the order of entries (`-s`); `ls.c`,
  which is formatting.
- grep: the table of options; regexec(3) and the patterns with `^`, `$` and
  `[[:<:]]`; what is printed before a line.
- cat: a stdout that fails under `cook_buf()`; a `printf()` of `main()` that fails.
- tail: input that is not a regular file; `-r`, whose `reverse()` is not in
  the repository; the headings between files.
- cp: the loop over the hierarchy closes at cp.c:369, before anything is
  copied, and what follows uses what `fts_read()` returned last, NULL;
  `utils.c` breaks off inside `copy_file()`.  There is no copying to state
  properties of.
- ls: the widths and texts of the long format, `util.c`, a terminal without a
  width.  date: the formats of the output, `-d`, `-r`.  head: the headings.
- echo is one loop with no state beyond its position; usage texts.

## Plan

What would come next:

1. `FindsOccurrences`, from `SearchFindsFirst` and the place where each search
   begins; `EveryEntryOnce` for the layouts in columns.
2. The options of grep, with `-NUM` and `GREP_OPTIONS`, and `-exec ... ;` with
   `brace_subst()`.
3. `FindMeaning` with the tree as a function on places instead of recursive
   operators, so that what a plan means may be proved of any expression.
