----------------------------- MODULE GrepSearch -----------------------------
(***************************************************************************)
(* How grep looks for its patterns in a line (src/grep/fastgrep.c, and the *)
(* loop of procline() in util.c).  Patterns and lines are sequences of     *)
(* bytes; of all bytes only DOT, NUL and the others are told apart.  data  *)
(* is the line and what lies behind it in its buffer.  Of the patterns     *)
(* that fastcomp() takes on, those with ^, $ or [[:<:]] are left out, as   *)
(* is everything that goes to regexec(3).                                  *)
(*                                                                         *)
(* Offsets are those of the code, from 0.                                  *)
(***************************************************************************)
EXTENDS Integers, SequencesExt

CONSTANTS DOT, NUL, MAX_LINE_MATCHES

(* The bytes of data from offset o on; what is not there has no value. *)
At(data, o) == data[o + 1]
Slice(data, from, to) == SubSeq(data, from + 1, to)

-----------------------------------------------------------------------------
(* fgrepcomp(): the shifts of Quick Search, but for the byte behind the    *)
(* pattern, its NUL, which gets 0 from the last turn of the loop.          *)
LastBut(pattern, byte) ==
  {i \in 1 .. Len(pattern) :
     IF i = Len(pattern) THEN byte = NUL ELSE At(pattern, i) = byte}

(* fg->word stays FALSE. *)
FgrepComp(pattern) ==
  [pattern |-> pattern, wild |-> FALSE, word |-> FALSE,
   qsBc |-> [byte \in ToSet(pattern) \cup {NUL} |->
               IF LastBut(pattern, byte) = {} THEN Len(pattern)
               ELSE Len(pattern) - CHOOSE i \in LastBut(pattern, byte) :
                                     \A j \in LastBut(pattern, byte) : j <= i]]

(* fastcomp(): only what has nothing but dots is not left to regexec().    *)
(* The last dot is then the last byte, and every shift is 1; the pattern   *)
(* is never reversed.                                                      *)
FastComp(pattern, word) ==
  [pattern |-> pattern, wild |-> TRUE, word |-> word,
   qsBc |-> [byte \in {} |-> 1]]

Shift(fg, byte) ==
  IF byte \in DOMAIN fg.qsBc THEN fg.qsBc[byte]
  ELSE IF fg.wild THEN 1 ELSE Len(fg.pattern)

(* grep_cmp(): nothing stops it at the end of the line. *)
Matches(fg, data, j) ==
  \A i \in 0 .. Len(fg.pattern) - 1 :
    (fg.wild /\ At(fg.pattern, i) = DOT) \/ At(data, j + i) = At(fg.pattern, i)

-----------------------------------------------------------------------------
(* grep_search() in a line of n bytes, from the offset rm_so on.  A match  *)
(* is [so, eo]; NOMATCH leaves them as they are; a shift of 0 repeats the  *)
(* same comparison for ever.                                               *)
NOMATCH == [so |-> -1, eo |-> -1]
FOREVER == [so |-> -2, eo |-> -2]

(* Variant: each shift is one too far. *)
SearchFar(fg, data, n, rm_so) ==
  LET m == Len(fg.pattern)
      from[j \in 0 .. Len(data)] ==
        IF Matches(fg, data, j) THEN [so |-> j, eo |-> j + m]
        ELSE IF j + m = n THEN NOMATCH
        ELSE LET next == j + Shift(fg, At(data, j + m)) + 1
             IN  IF next > n - m THEN NOMATCH ELSE from[next]
  IN  IF rm_so = n \/ n < m THEN NOMATCH ELSE from[rm_so]

Search(fg, data, n, rm_so) ==
  LET m == Len(fg.pattern)
      from[j \in 0 .. Len(data)] ==
        IF Matches(fg, data, j) THEN [so |-> j, eo |-> j + m]
        ELSE IF j + m = n THEN NOMATCH
        ELSE LET shift == Shift(fg, At(data, j + m))
             IN  IF j + shift > n - m THEN NOMATCH
                 ELSE IF shift = 0 THEN FOREVER ELSE from[j + shift]
  IN  IF rm_so = n \/ n < m THEN NOMATCH ELSE from[rm_so]

-----------------------------------------------------------------------------
(* procline() up to the context.  fgs are the patterns, f the flags x, v,  *)
(* o, color, and quick (-q or -l).  A pass tries every pattern, each from  *)
(* where the last match starts; there are more passes, from the end of the *)
(* last match on, unless color is set without -o.                          *)
OnePass(f) == (f.color /\ ~f.o) \/ f.quick

(* -x; and -w, which looks at the neighbours of a match only if the match  *)
(* does not begin the line.                                                *)
FullMatch(f, match, n) == f.x => match.so = 0 /\ match.eo = n

IsWord(byte) == byte \notin {DOT, NUL}          \* iswword()

WholeWord(fg, data, match, n) ==
  fg.word /\ match.so # 0 =>
    ~IsWord(At(data, match.so - 1)) /\ (match.eo # n => ~IsWord(At(data, match.eo)))

(* One turn of the inner loop: s holds pmatch (so, eo), what was selected  *)
(* and the matches so far.                                                 *)
TryPattern(fg, f, data, n, s) ==
  LET counts(r) == FullMatch(f, r, n) /\ WholeWord(fg, data, r, n)
      after(r) ==
        CASE r = FOREVER -> [s EXCEPT !.over = TRUE, !.hangs = TRUE]
          [] r = NOMATCH -> s
          [] OTHER ->
               IF ~counts(r) THEN [s EXCEPT !.so = r.so, !.eo = r.eo]
               ELSE [s EXCEPT !.so = r.so, !.eo = r.eo, !.c = TRUE,
                              !.m = IF Len(@) < MAX_LINE_MATCHES THEN Append(@, r) ELSE @,
                              !.over = OnePass(f)]
  IN  IF s.over THEN s ELSE after(Search(fg, data, n, s.so))

Passes(fgs, f, data, n) ==
  LET pass[st \in 0 .. Len(data) + 1, s \in
             [so : -1 .. Len(data), eo : -1 .. Len(data) + 1, c : BOOLEAN,
              m : Seq([so : Nat, eo : Nat]), over : BOOLEAN, hangs : BOOLEAN]] ==
        LET more(t) == IF t.hangs \/ f.v \/ OnePass(f) \/ t.eo = t.so \/ t.eo > n
                       THEN t ELSE pass[t.eo, t]
        IN  more(FoldLeft(LAMBDA acc, fg : TryPattern(fg, f, data, n, acc),
                          [s EXCEPT !.so = st, !.eo = n, !.over = FALSE], fgs))
  IN  pass[0, [so |-> 0, eo |-> n, c |-> FALSE, m |-> <<>>, over |-> FALSE, hangs |-> FALSE]]

(* c and the matches. *)
ProcLine(fgs, f, data, n) ==
  LET result(t) == [c |-> t.c # f.v, m |-> t.m, hangs |-> t.hangs]
  IN  result(Passes(fgs, f, data, n))

(* What printline() writes of the line with -o or --color: the matches, or *)
(* the line, in pieces. *)
Pieces(f, data, n, m) ==
  LET before(i) == IF i = 1 THEN 0 ELSE m[i - 1].eo
      match(i) == Slice(data, m[i].so, m[i].eo)
  IN  IF (f.o \/ f.color) /\ m # <<>>
      THEN FlattenSeq([i \in DOMAIN m |->
             IF f.o THEN <<match(i)>>
             ELSE <<Slice(data, before(i), m[i].so), match(i)>>])
           \o IF f.o THEN <<>> ELSE <<Slice(data, Last(m).eo, n)>>
      ELSE <<Slice(data, 0, n)>>

-----------------------------------------------------------------------------
(* What it should be: the occurrences of one pattern, from the left,       *)
(* without overlap.                                                        *)
OccursAt(pattern, line, o) ==
  o + Len(pattern) <= Len(line) /\ Slice(line, o, o + Len(pattern)) = pattern

Occurs(pattern, line) == \E o \in 0 .. Len(line) : OccursAt(pattern, line, o)

Occurrences(pattern, line) ==
  LET step(acc, o) ==
        IF OccursAt(pattern, line, o) /\ (acc = <<>> \/ Last(acc).eo <= o)
        THEN Append(acc, [so |-> o, eo |-> o + Len(pattern)]) ELSE acc
  IN  FoldLeft(step, <<>>, [i \in 1 .. Len(line) |-> i - 1])

NoFlags == [x |-> FALSE, v |-> FALSE, o |-> FALSE, color |-> FALSE, quick |-> FALSE]

(* grep -F with one pattern, not empty, in a line without NUL that ends    *)
(* with a newline: -o has the occurrences, as many as it remembers,      *)
(* --color alone the first; -x and -v select what they say; and what is    *)
(* printed is the line.  The window jumps by a table, starts again in the  *)
(* middle of the line and looks behind the line's end (fastgrep.c:29, 220  *)
(* to 234, util.c:267 to 329).                                             *)
FindsOccurrences(pattern, line, f, behind) ==
  LET data == line \o behind
      n == Len(line)
      all == Occurrences(pattern, line)
      few == IF OnePass(f) THEN 1 ELSE MAX_LINE_MATCHES
  IN  \E r \in {ProcLine(<<FgrepComp(pattern)>>, f, data, n)} :
      /\ ~r.hangs
      /\ ~f.x => r.c = (Occurs(pattern, line) # f.v)
      /\ f.x => r.c = ((line = pattern) # f.v)
      /\ ~f.x /\ ~f.v => r.m = SubSeq(all, 1, IF few < Len(all) THEN few ELSE Len(all))
      /\ ~f.o => FlattenSeq(Pieces(f, data, n, r.m)) = line

-----------------------------------------------------------------------------
(* Statements of the source that the code does not keep. *)

(* "Loop to compare with all the patterns" (util.c:271): a line that is    *)
(* one of the patterns is selected with -x.                                *)
EveryPatternCompared(patterns, line, behind) ==
  LET fgs == [i \in DOMAIN patterns |-> FgrepComp(patterns[i])]
  IN  line \in ToSet(patterns) =>
        ProcLine(fgs, [NoFlags EXCEPT !.x = TRUE], line \o behind, Len(line)).c

(* "No point in going father if we do not have enough data"                *)
(* (fastgrep.c:182): a match lies in the line.                             *)
MatchInLine(pattern, line, behind) ==
  LET r == ProcLine(<<FastComp(pattern, FALSE)>>, NoFlags, line \o behind, Len(line))
  IN  \A i \in DOMAIN r.m : r.m[i].eo <= Len(line)

(* "Check for whole word match" (util.c:293). *)
WordsOnly(pattern, line, behind) ==
  LET r == ProcLine(<<FastComp(pattern, TRUE)>>, NoFlags, line \o behind, Len(line))
  IN  \A i \in DOMAIN r.m : r.m[i].eo < Len(line) => ~IsWord(At(line, r.m[i].eo))

(* A search ends, in a binary file too. *)
SearchEnds(pattern, line, behind) ==
  ~ProcLine(<<FgrepComp(pattern)>>, NoFlags, line \o behind, Len(line)).hangs
=============================================================================
