---------------------------- MODULE TailCommand -----------------------------
(***************************************************************************)
(* Where tail begins: its command line (src/tail/tail.c), with obsolete(), *)
(* which rewrites words like -3lf, the loop over getopt(3), which is       *)
(* external, and the choice of the style; then what forward() shows first  *)
(* (src/tail/forward.c), with rlines(), which looks for the last lines in  *)
(* windows of the file, backwards.                                         *)
(*                                                                         *)
(* A word is a sequence of characters; a character is a letter, a sign or  *)
(* a digit.  The file is regular and a sequence of bytes, of which NL is   *)
(* told apart; offsets are those of the code, from 0.  mmap() and fseeko() *)
(* work: where they fail, nothing is shown.                                *)
(***************************************************************************)
EXTENDS Integers, FiniteSets, SequencesExt

CONSTANTS
  NL,
  MMAP_MAXSIZE,
  BLOCK,       \* 512, the bytes that -b counts in
  LINES        \* 10, the lines without an option

(* The head of forward(), with the switch over the styles. *)
Smaller(a, b) == IF a < b THEN a ELSE b

(* The offset behind the last of the first k newlines of nl, or end. *)
BehindNewline(nl, k, end) ==
  IF Cardinality(nl) < k THEN end
  ELSE 1 + CHOOSE o \in nl : Cardinality({p \in nl : p <= o}) = k

(* The newlines that the inner loop of rlines() sees in the window of n    *)
(* bytes from lo on: "Last char is special".                               *)
(* Variant: it is not.                                                     *)
NewlinesAll(data, lo, n) == {o \in lo .. lo + n - 1 : data[o + 1] = NL}

Newlines(data, lo, n) == {o \in lo .. lo + n - 2 : data[o + 1] = NL}

(* One turn of the loop of rlines(), over one window: the n bytes from lo  *)
(* on, with off lines still to be found and the bytes behind "remaining"   *)
(* looked at.  WR() writes from "from" on to the end of the last window.   *)
(* "+--p" is read as *--p, the byte: of a pointer there is no unary plus.  *)
Window(s, data) ==
  LET nl == Newlines(data, s.lo, s.n)
      found == Cardinality(nl) >= s.off
      left == s.remaining - s.n
  IN  IF s.over THEN s
      ELSE IF found \/ left = 0
      THEN [s EXCEPT !.over = TRUE,
              !.from = IF found THEN BehindNewline(nl, Cardinality(nl) - s.off + 1, 0) ELSE s.lo]
      ELSE [s EXCEPT !.off = @ - Cardinality(nl), !.remaining = left,
              !.lo = IF @ >= MMAP_MAXSIZE THEN @ - MMAP_MAXSIZE ELSE 0,
              !.n = IF s.lo >= MMAP_MAXSIZE THEN @ ELSE left]

(* rlines(): each window has a byte, so there are no more turns than       *)
(* bytes; fp is left at "to". *)
Rlines(data, lines) ==
  LET n == Smaller(Len(data), MMAP_MAXSIZE)
      start == [off |-> lines, lo |-> Len(data) - n, n |-> n, remaining |-> Len(data),
                from |-> 0, over |-> FALSE]
      turn[i \in 0 .. Len(data)] == IF i = 0 THEN start ELSE Window(turn[i - 1], data)
      r == turn[Len(data)]
  IN  [from |-> r.from, end |-> r.lo + r.n, to |-> r.remaining]

(* Everything forward() writes of the file: what rlines() does, and the    *)
(* rest from where fp was left on. *)
Forward(style, off, data) ==
  LET size == Len(data)
      rest(pos) == SubSeq(data, pos + 1, size)
      r == Rlines(data, off)
  IN  CASE style = "FBYTES" -> rest(Smaller(off, size))
        [] style = "FLINES" ->
             IF off = 0 THEN data
             ELSE rest(BehindNewline({o \in 0 .. size - 1 : data[o + 1] = NL}, off, size))
        [] style = "RBYTES" -> rest(IF size >= off THEN size - off ELSE 0)
        [] style = "RLINES" ->
             IF off = 0 THEN <<>> ELSE SubSeq(data, r.from + 1, r.end) \o rest(r.to)

-----------------------------------------------------------------------------
(* The command line. *)
Digits == <<"0", "1", "2", "3", "4", "5", "6", "7", "8", "9">>
Digit == ToSet(Digits)
Value(c) == CHOOSE d \in 0 .. 9 : Digits[d + 1] = c
Word(w, i) == IF i <= Len(w) THEN w[i] ELSE "NUL"

ILLEGAL == <<"illegal">>        \* xerrx(): the end

(* The new word for an old one: -, f or r, the unit's letter, the sign and *)
(* the digits.                                                             *)
NewWord(w) ==
  LET follow == IF Last(w) \in {"f", "r"} THEN <<Last(w)>> ELSE <<>>
      rest == SubSeq(w, 1, Len(w) - Len(follow))
      unit == Last(rest)
      word(letter, digits) == <<"-">> \o follow \o <<letter, w[1]>> \o Tail(digits)
  IN  CASE unit \in {"b", "c"} -> word(unit, Front(rest))
        [] unit = "l"          -> word("n", Front(rest))
        [] unit \in Digit      -> word("n", rest)
        [] OTHER               -> ILLEGAL

(* One turn of the loop of obsolete(), for the word at s.at; s.old are the *)
(* places of the words that are rewritten.  Behind -b, -c or -n without an *)
(* argument as the last word it goes past the end of argv: "past".         *)
OldTurn(s, argv) ==
  LET w == argv[s.at]
      c == Word(w, 2)
      go(n, old) == [s EXCEPT !.at = @ + n, !.old = @ \cup old]
  IN  IF s.over \/ s.at > Len(argv) \/ Word(w, 1) \notin {"-", "+"} \/ (w[1] = "-" /\ c = "-")
      THEN [s EXCEPT !.over = TRUE]
      ELSE CASE c \in Digit -> go(1, {s.at})
             [] c \in {"b", "c", "n"} /\ Len(w) = 2 ->
                  IF s.at < Len(argv) THEN go(2, {}) ELSE [s EXCEPT !.past = TRUE, !.over = TRUE]
             [] c \in {"b", "c", "n", "f", "r"} /\ (c \in {"f", "r"} \/ Len(w) > 2) -> go(1, {})
             [] OTHER -> [s EXCEPT !.over = TRUE]

(* obsolete(), from argv[1] on. *)
Obsolete(argv) ==
  LET start == [at |-> 2, old |-> {}, past |-> FALSE, over |-> FALSE]
      turn[i \in 0 .. Len(argv)] == IF i = 0 THEN start ELSE OldTurn(turn[i - 1], argv)
      r == turn[Len(argv)]
  IN  [argv |-> [i \in DOMAIN argv |-> IF i \in r.old THEN NewWord(argv[i]) ELSE argv[i]],
       past |-> r.past]

-----------------------------------------------------------------------------
(* strtoll() of the digits at the head of s, behind a sign. *)
Signed(s) == Word(s, 1) \in {"-", "+"}
Number(s) ==
  LET digits == IF Signed(s) THEN Tail(s) ELSE s
      value[i \in 0 .. Len(digits)] ==
        IF i = 0 THEN 0 ELSE 10 * value[i - 1] + Value(digits[i])
      n == Cardinality({i \in DOMAIN digits : \A j \in 1 .. i : digits[j] \in Digit})
  IN  value[n]

(* ARG(): o holds style and off.  +0 leaves the style as it is. *)
Arg(o, units, forwards, backwards, optarg) ==
  LET off == Number(optarg) * units
  IN  IF optarg[1] # "+" THEN [o EXCEPT !.style = backwards, !.off = off]
      ELSE IF off = 0 THEN [o EXCEPT !.off = 0]
      ELSE [o EXCEPT !.style = forwards, !.off = off - units]

(* getopt() with "Fb:c:fn:rqv": the next option of argv, whose words count *)
(* from 0, at the word optind or, inside a word, at place. *)
Getopt(argv, optind, place) ==
  LET word == argv[optind + 1]
      new == place = <<>>
      at == IF new THEN Tail(word) ELSE place
      c == Head(at)
      more == Tail(at)
      none == [ch |-> "end", optarg |-> <<>>, optind |-> optind, place |-> <<>>]
  IN  IF new /\ (optind >= Len(argv) \/ Word(word, 1) # "-" \/ Len(word) = 1) THEN none
      ELSE IF new /\ word[2] = "-" THEN [none EXCEPT !.optind = optind + 1]
      ELSE IF c \in {"b", "c", "n"}
      THEN IF more # <<>> THEN [none EXCEPT !.ch = c, !.optarg = more, !.optind = optind + 1]
           ELSE IF optind + 1 < Len(argv)
           THEN [none EXCEPT !.ch = c, !.optarg = argv[optind + 2], !.optind = optind + 2]
           ELSE [none EXCEPT !.ch = "?", !.optind = optind + 1]
      ELSE [none EXCEPT !.ch = IF c \in {"F", "f", "r", "q", "v"} THEN c ELSE "?",
                        !.place = more,
                        !.optind = IF more = <<>> THEN optind + 1 ELSE optind]

Option(o, r) ==
  IF r.ch \in {"b", "c", "n"} /\ o.style # "NOTSET" THEN [o EXCEPT !.usage = TRUE]
  ELSE CASE r.ch = "F" -> [o EXCEPT !.fflag = 2]
         [] r.ch = "f" -> [o EXCEPT !.fflag = 1]
         [] r.ch = "r" -> [o EXCEPT !.rflag = TRUE]
         [] r.ch = "b" -> Arg(o, BLOCK, "FBYTES", "RBYTES", r.optarg)
         [] r.ch = "c" -> Arg(o, 1, "FBYTES", "RBYTES", r.optarg)
         [] r.ch = "n" -> Arg(o, 1, "FLINES", "RLINES", r.optarg)
         [] r.ch = "q" -> [o EXCEPT !.qflag = TRUE, !.vflag = FALSE]
         [] r.ch = "v" -> [o EXCEPT !.qflag = FALSE, !.vflag = TRUE]
         [] OTHER      -> [o EXCEPT !.usage = TRUE]

(* One turn of the loop: what getopt() has passed is taken from argv after *)
(* every option, and getopt() goes on at its own count.                    *)
Turn(s) ==
  LET take(r, o) ==
        IF s.over \/ r.ch = "end" THEN [s EXCEPT !.over = TRUE]
        ELSE [s EXCEPT !.o = o, !.optind = r.optind, !.place = r.place,
                       !.words = SubSeq(@, r.optind + 1, Len(@)),
                       !.past = @ \/ r.optind > Len(s.words),
                       !.over = o.usage]
      turn(r) == take(r, Option(s.o, r))
  IN  turn(Getopt(s.words, s.optind, s.place))

(* The loop for argv, the program's name first; the files are what is left *)
(* of argv.                                                                *)
Options(argv) ==
  LET turns == Len(FlattenSeq(argv))
      start == [words |-> argv, optind |-> 1, place |-> <<>>, over |-> FALSE, past |-> FALSE,
                o |-> [style |-> "NOTSET", off |-> 0, fflag |-> 0, rflag |-> FALSE,
                       qflag |-> FALSE, vflag |-> FALSE, usage |-> FALSE]]
      turn[i \in 0 .. turns] == IF i = 0 THEN start ELSE Turn(turn[i - 1])
      s == turn[turns]
  IN  [o |-> s.o, files |-> s.words, past |-> s.past]

(* The style when nothing, or -r, was said. *)
StyleOf(o) ==
  CASE o.style = "NOTSET" /\ o.rflag  -> [style |-> "REVERSE", off |-> 0]
    [] o.style = "NOTSET" /\ ~o.rflag -> [style |-> "RLINES", off |-> LINES]
    [] o.style = "FBYTES" /\ o.rflag  -> [style |-> "RBYTES", off |-> o.off]
    [] o.style = "FLINES" /\ o.rflag  -> [style |-> "RLINES", off |-> o.off]
    [] OTHER                          -> [style |-> o.style, off |-> o.off]

(* main() up to the files: argv of the command line, or that it ends.      *)
Main(argv) ==
  LET main(old, r) ==
        [past   |-> old.past \/ r.past,
         exits  |-> \/ ILLEGAL \in ToSet(old.argv) \/ r.o.usage
                    \/ r.o.fflag > 0 /\ (Len(r.files) > 1 \/ r.o.rflag),
         start  |-> StyleOf(r.o), fflag |-> r.o.fflag, rflag |-> r.o.rflag,
         files  |-> r.files]
      parse(old) == main(old, Options(old.argv))
  IN  parse(Obsolete(argv))

-----------------------------------------------------------------------------
(* The lines of a file, the last one with or without its newline. *)
LinesOf(data) ==
  LET starts == {o \in 1 .. Len(data) : o = 1 \/ data[o - 1] = NL}
      first(i) == CHOOSE o \in starts : Cardinality({p \in starts : p <= o}) = i
      end(i) == IF i = Cardinality(starts) THEN Len(data) ELSE first(i + 1) - 1
  IN  [i \in 1 .. Cardinality(starts) |-> SubSeq(data, first(i), end(i))]

(* The last bytes of the windows but the one at the end of the file. *)
NewlineAtBorder(data) ==
  \E w \in 1 .. Len(data) :
    LET o == Len(data) - w * MMAP_MAXSIZE IN o > 0 /\ data[o] = NL

(* What an option asks for: the unit's letter, the sign and the number. *)
Wanted(letter, sign, n, data) ==
  LET size == Len(data)
      lines == LinesOf(data)
      skip(k, from) == SubSeq(from, Smaller(k, Len(from)) + 1, Len(from))
      last(k, from) == skip(Len(from) - Smaller(k, Len(from)), from)
      bytes == n * (IF letter = "b" THEN BLOCK ELSE 1)
  IN  CASE sign = "+" /\ letter = "n"  -> FlattenSeq(skip(n - 1, lines))
        [] sign = "+" /\ letter = "c"  -> skip(n - 1, data)
        [] sign = "+" /\ letter = "b"  -> skip(bytes - BLOCK, data)
        [] sign # "+" /\ letter = "n"  -> FlattenSeq(last(n, lines))
        [] OTHER                       -> last(bytes, data)

(* The words for it: -n +5, -n+5 or +5l; follow is for the old form only.  *)
Spellings(letter, sign, n) ==
  LET arg == (IF sign = "none" THEN <<>> ELSE <<sign>>) \o <<Digits[n + 1]>>
      units == CASE letter = "n" -> {<<>>, <<"l">>} [] OTHER -> {<<letter>>}
  IN  {<< <<"-", letter>>, arg >>, << <<"-", letter>> \o arg >>}
      \cup {<< arg \o u >> : u \in IF sign = "none" THEN {} ELSE units}

(* One option, in any spelling, shows of the file behind it what it asks   *)
(* for: obsolete(), getopt(), ARG, the switch and rlines() each shift and  *)
(* count by one in their own way (tail.c:33 to 97, 183 to 281; forward.c:31 *)
(* to 128, 230 to 314).  +0, the lines of a file with a newline at a       *)
(* window's border and more than one option are not in it.                 *)
ShowsWhatIsAsked(letter, sign, n, data) ==
  (sign = "+" => n > 0) /\ (sign # "+" /\ letter = "n" => ~NewlineAtBorder(data)) =>
    \A words \in Spellings(letter, sign, n) :
      \E r \in {Main(<< <<"tail">> >> \o words \o << <<"file">> >>)} :
          /\ ~r.exits /\ ~r.past /\ r.fflag = 0
          /\ r.files = << <<"file">> >>
          /\ Forward(r.start.style, r.start.off, data) = Wanted(letter, sign, n, data)

-----------------------------------------------------------------------------
(* Statements of the source that the code does not keep. *)

(* "display the last offset lines of the file" (forward.c:226). *)
LastLines(n, data) == Forward("RLINES", n, data) = Wanted("n", "none", n, data)

(* "[-qv] [-f | -F | -r] [-b # | -c # | -n #] [file ...]" (tail.c:284):    *)
(* what is behind the options is the files.                                *)
FilesFollowOptions(words) ==
  LET r == Main(<< <<"tail">> >> \o words \o << <<"file">> >>)
  IN  ~r.exits => r.files = << <<"file">> >>

(* "Options w/ arguments, skip the argument and continue with the next     *)
(* option" (tail.c:261): the argument that is skipped is there.            *)
StaysInArgv(words) == ~Main(<< <<"tail">> >> \o words).past
=============================================================================
