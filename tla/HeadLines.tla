----------------------------- MODULE HeadLines ------------------------------
(***************************************************************************)
(* head (src/head/head.c): obsolete(), the loop over getopt(3), which is   *)
(* external, and head() for one file.  A word of argv is <<"n">> or        *)
(* <<"c">> with its argument glued to it or as the next word, <<"q">>,     *)
(* <<"v">>, <<"old", n>> for -n, <<"dash", n>> for --n, <<"number", n>> or *)
(* a file.  A byte is NL or another.                                       *)
(***************************************************************************)
EXTENDS Integers, FiniteSets, SequencesExt

CONSTANTS NL, BUF            \* BUF: sizeof(buf)

(* head(): with a byte count all of the file, in pieces: bytecnt goes down *)
(* only when a write fails.  cnt = 0 never meets --cnt == 0.               *)
(* Variant: the newline is counted one too late.                           *)
HeadOneMore(data, cnt, bytecnt) ==
  LET ends == {i \in DOMAIN data : data[i] = NL}
      last == {i \in ends : Cardinality({j \in ends : j <= i}) = cnt + 1}
  IN  IF bytecnt # 0 \/ last = {} THEN data ELSE SubSeq(data, 1, CHOOSE i \in last : TRUE)

HeadOf(data, cnt, bytecnt) ==
  LET ends == {i \in DOMAIN data : data[i] = NL}
      last == {i \in ends : Cardinality({j \in ends : j <= i}) = cnt}
      piece == IF bytecnt > BUF THEN BUF ELSE bytecnt
      pieces == (Len(data) + piece - 1) \div piece
      upTo(k) == IF k * piece < Len(data) THEN k * piece ELSE Len(data)
  IN  IF bytecnt # 0
      THEN FlattenSeq([k \in 1 .. pieces |-> SubSeq(data, (k - 1) * piece + 1, upTo(k))])
      ELSE IF last = {} THEN data ELSE SubSeq(data, 1, CHOOSE i \in last : TRUE)

(* obsolete(): the old words at the front of argv get a second dash. *)
Obsolete(argv) ==
  [i \in DOMAIN argv |->
     IF i > 1 /\ \A j \in 2 .. i : argv[j][1] = "old" THEN <<"dash", argv[i][2]>> ELSE argv[i]]

(* getopt() with "c:n:qv" at the word optind, from 0; --5 is not an option. *)
Getopt(argv, optind) ==
  LET word == argv[optind + 1]
      next == argv[optind + 2]
  IN  CASE optind >= Len(argv)           -> [ch |-> "end", arg |-> 0, optind |-> optind]
        [] optind < Len(argv) /\ word[1] \in {"n", "c"} ->
             IF Len(word) = 2 THEN [ch |-> word[1], arg |-> word[2], optind |-> optind + 1]
             ELSE IF optind + 1 < Len(argv) /\ next[1] = "number"
             THEN [ch |-> word[1], arg |-> next[2], optind |-> optind + 2]
             ELSE [ch |-> "?", arg |-> 0, optind |-> optind + 1]
        [] optind < Len(argv) /\ word[1] \in {"q", "v"} ->
             [ch |-> word[1], arg |-> 0, optind |-> optind + 1]
        [] optind < Len(argv) /\ word[1] \in {"old", "dash"} ->
             [ch |-> "?", arg |-> 0, optind |-> optind + 1]
        [] OTHER                         -> [ch |-> "end", arg |-> 0, optind |-> optind]

(* One turn of the loop in main(): what getopt() has passed leaves argv    *)
(* after every option.  A count must be positive.                          *)
Turn(s, i) ==
  LET r == Getopt(s.argv, s.optind)
      t == [s EXCEPT !.argv = SubSeq(@, r.optind + 1, Len(@)), !.optind = r.optind]
  IN  CASE s.over \/ r.ch = "end"            -> [s EXCEPT !.over = TRUE]
        [] ~s.over /\ r.ch = "?"             -> [s EXCEPT !.over = TRUE, !.exits = TRUE]
        [] ~s.over /\ r.ch \in {"n", "c"} ->
             IF r.arg <= 0 THEN [s EXCEPT !.over = TRUE, !.exits = TRUE]
             ELSE IF r.ch = "n" THEN [t EXCEPT !.linecnt = r.arg] ELSE [t EXCEPT !.bytecnt = r.arg]
        [] OTHER                             -> [t EXCEPT !.vflag = r.ch = "v"]

(* main(): the counts, and the files that are shown. *)
Main(argv) ==
  FoldLeft(Turn, [argv |-> Obsolete(argv), optind |-> 1, linecnt |-> 0, bytecnt |-> 0,
                  vflag |-> FALSE, over |-> FALSE, exits |-> FALSE],
           [i \in 1 .. Len(argv) |-> i])

-----------------------------------------------------------------------------
(* head -n N, with its number glued or not, shows the first N lines of the *)
(* file behind it, all of it when it has fewer: main() and getopt() each   *)
(* move along argv, and head() stops at a newline, not behind one too many *)
(* (head.c:36 to 71, 121 to 128).                                          *)
FirstLines(n, data) ==
  n > 0 =>
    \A words \in {<< <<"n", n>> >>, << <<"n">>, <<"number", n>> >>} :
      LET r == Main(<< <<"head">> >> \o words \o << <<"file">> >>)
          shown == HeadOf(data, r.linecnt, r.bytecnt)
          newlines(s) == Cardinality({i \in DOMAIN s : s[i] = NL})
      IN  /\ ~r.exits /\ r.argv = << <<"file">> >>
          /\ IsPrefix(shown, data)
          /\ newlines(shown) <= n
          /\ IF newlines(data) < n THEN shown = data
             ELSE newlines(shown) = n /\ Last(shown) = NL

-----------------------------------------------------------------------------
(* Statements of the source that the code does not keep. *)

(* "illegal byte count" (head.c:42): -c N is a count of bytes. *)
FirstBytes(n, data) == n > 0 => Len(HeadOf(data, 0, n)) <= n

(* "usage: program [-n lines] [file ...]" (head.c:152). *)
FilesFollowOptions(words) ==
  LET r == Main(<< <<"head">> >> \o words \o << <<"file">> >>)
  IN  ~r.exits => r.argv = << <<"file">> >>

(* "Return if not -[0-9]*" (head.c:136): -5 is an option. *)
OldFormTaken(n) == n > 0 => ~Main(<< <<"head">>, <<"old", n>>, <<"file">> >>).exits
=============================================================================
