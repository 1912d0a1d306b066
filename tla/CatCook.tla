------------------------------ MODULE CatCook -------------------------------
(***************************************************************************)
(* cat with -b, -e, -n, -s, -t or -v: cook_buf() (src/cat/cat.c) for one   *)
(* input.  A character is one of NL, TAB, a control character, METANL,     *)
(* which toascii() turns into NL, METACTRL, into another control           *)
(* character, META, into a letter, and the letters.  The braces put        *)
(* everything under prev == '\n' and, but for the tests for errors, under  *)
(* -s: of a line cat shows the first character, and nothing without -s.    *)
(* The output is a sequence of <<"char", character>>, <<"number", n>> *)
(* and <<"escape", text>>; the stream of output does not fail.             *)
(***************************************************************************)
EXTENDS Integers, SequencesExt

CONSTANTS NL, TAB, CTRL, METANL, METACTRL, META

Plain(ch) == ch \notin {NL, TAB, CTRL, METANL, METACTRL, META}
ToAscii(ch) == CASE ch = METANL -> NL [] ch = METACTRL -> CTRL [] ch = META -> "m" [] OTHER -> ch
Cntrl(ch) == ch \in {NL, TAB, CTRL}

(* What is put before the first character of a line: its number. *)
NumberOf(f, ch, line) ==
  CASE f.n /\ (~f.b \/ ch # NL) -> << <<"number", line + 1>> >>
    [] f.n /\ f.b /\ ch = NL /\ f.e -> << <<"escape", "blank">> >>
    [] OTHER -> <<>>

(* The character itself, and what prev becomes. *)
Char(ch) == <<"char", ch>>
Escape(text) == <<"escape", text>>

Cooked(f, ch) ==
  LET mark == IF ch \in {METANL, METACTRL, META} THEN <<Escape("M-")>> ELSE <<>>
      low == ToAscii(ch)
  IN  CASE ch = NL  -> [put |-> IF f.e THEN <<Escape("$"), Char(NL)>> ELSE <<Char(NL)>>, prev |-> NL]
        [] ch = TAB -> [put |-> IF f.t THEN <<Escape("^I")>> ELSE <<Char(TAB)>>, prev |-> TAB]
        [] ch \notin {NL, TAB} /\ f.v ->
             [put |-> mark \o IF Cntrl(low) THEN <<Escape("^")>> ELSE <<Char(low)>>, prev |-> low]
        [] OTHER    -> [put |-> <<Char(ch)>>, prev |-> ch]

(* One turn of the loop: s is gobble, line, prev and the output. *)
(* Variant: gobble is not taken back.                             *)
TurnGobbles(f, s, ch) ==
  IF s.prev # NL \/ ~f.s THEN [s EXCEPT !.prev = ch]
  ELSE IF ch = NL /\ s.gobble THEN s
  ELSE LET number == NumberOf(f, ch, s.line)
           c == Cooked(f, ch)
       IN  [gobble |-> s.gobble \/ ch = NL, prev |-> c.prev,
            line |-> IF f.n /\ (~f.b \/ ch # NL) THEN s.line + 1 ELSE s.line,
            out |-> s.out \o number \o c.put]

Turn(f, s, ch) ==
  IF s.prev # NL \/ ~f.s THEN [s EXCEPT !.prev = ch]
  ELSE IF ch = NL /\ s.gobble THEN s
  ELSE LET number == NumberOf(f, ch, s.line)
           c == Cooked(f, ch)
       IN  [gobble |-> ch = NL, prev |-> c.prev,
            line |-> IF f.n /\ (~f.b \/ ch # NL) THEN s.line + 1 ELSE s.line,
            out |-> s.out \o number \o c.put]

CookBuf(f, data) ==
  FoldLeft(LAMBDA s, ch : Turn(f, s, ch),
           [gobble |-> FALSE, line |-> 0, prev |-> NL, out |-> <<>>], data).out

-----------------------------------------------------------------------------
(* The lines of data by their first characters, an empty one behind an     *)
(* empty one left out. *)
Starts(data) == {i \in DOMAIN data : i = 1 \/ data[i - 1] = NL}
Kept(data) ==
  {i \in Starts(data) : ~(data[i] = NL /\ i > 1 /\ i - 1 \in Starts(data) /\ data[i - 1] = NL)}

(* With -s and -n every line that is kept has its number before its first  *)
(* character, empty lines in a row are one, with -b empty ones have none   *)
(* (cat.c:133 to 157).  No character here is changed by toascii().         *)
NumbersLines(f, data) ==
  (f.s /\ f.n /\ METANL \notin ToSet(data)) =>
    LET numbered == {i \in Kept(data) : ~f.b \/ data[i] # NL}
        number(i) == NumberOf(f, data[i], Cardinality({j \in numbered : j < i}))
        shown[i \in 0 .. Len(data)] ==     \* of the first i characters
          CASE i = 0                     -> <<>>
            [] i \in Kept(data)          -> shown[i - 1] \o number(i) \o Cooked(f, data[i]).put
            [] i \in DOMAIN data \ Kept(data) -> shown[i - 1]
    IN  CookBuf(f, data) = shown[Len(data)]

-----------------------------------------------------------------------------
(* Statements of the source that the code does not keep. *)

(* "-b is the same as -n" (cat.c:41): the input is shown with either. *)
ShowsEveryLine(f, data) ==
  LET newlines(s) == Len(SelectSeq(s, LAMBDA x : x = Char(NL))) IN
  ~f.s => newlines(CookBuf(f, data)) = Len(SelectSeq(data, LAMBDA x : x = NL))

(* "-s" takes away empty lines behind empty ones; what else getc() gives is *)
(* put out (cat.c:134 to 185), each line to its end.                        *)
LinesAreWhole(f, data) ==
  f.s /\ ~f.n /\ ~f.e /\ ~f.t /\ ~f.v =>
    Len(CookBuf(f, data)) = Len(data) - Cardinality(Starts(data) \ Kept(data))

(* prev is the character before (cat.c:134): a line has one number.        *)
OnlyLinesAreNumbered(f, data) ==
  f.s /\ f.n => Len(SelectSeq(CookBuf(f, data), LAMBDA x : x[1] = "number"))
                  <= Cardinality(Starts(data))
=============================================================================
