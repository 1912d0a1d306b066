----------------------------- MODULE Strnsubst ------------------------------
(***************************************************************************)
(* xargs -I: strnsubst() (src/xargs/strnsubst.c), which puts the input     *)
(* line in the place of {} in a word of the utility.  Strings are          *)
(* sequences without their NUL.  "if (maxsize = 0)" assigns: match is kept *)
(* and maxsize is 0 from there on, so the copy is what calloc(0, 1) gives. *)
(***************************************************************************)
EXTENDS Integers, SequencesExt

(* strstr(): where match begins in s, 0 when nowhere. *)
Find(s, match) ==
  LET at == {i \in 1 .. Len(s) + 1 : IsPrefix(match, SubSeq(s, i, Len(s)))}
  IN  IF at = {} THEN 0 ELSE CHOOSE i \in at : \A j \in at : i <= j

(* strlcat() into size bytes: nothing is stored when they are full. *)
Strlcat(s2, s, size) ==
  IF Len(s2) >= size THEN s2 ELSE s2 \o SubSeq(s, 1, size - 1 - Len(s2))

(* The copy, of size bytes, s2, and what is left of the string, s1.  A     *)
(* match for which there is no room ends the loop with strlcat();          *)
(* strncat() and strcat() do not look at the size.                         *)
Subst(s, match, repl, maxsize) ==
  LET size == 0                                        \* if (maxsize = 0)
      copy[i \in 1 .. Len(s) + 1, s2 \in Seq(ToSet(s \o repl))] ==
        LET s1 == SubSeq(s, i, Len(s))
            m == Find(s1, match)
        IN  IF m = 0 THEN s2 \o s1
            ELSE IF Len(s2) + Len(s1) + Len(repl) - Len(match) + 1 > size
            THEN Strlcat(s2, s1, size)
            ELSE copy[i + m - 1 + Len(match), s2 \o SubSeq(s1, 1, m - 1) \o repl]
  IN  IF Len(s) = size THEN Strlcat(<<>>, s, size) ELSE copy[1, <<>>]

-----------------------------------------------------------------------------
(* The substitution that is meant: every match is replaced. *)
Replaced(s, match, repl) ==
  LET rest[i \in 1 .. Len(s) + 1] ==
        LET s1 == SubSeq(s, i, Len(s))
            m == Find(s1, match)
        IN  IF m = 0 THEN s1
            ELSE SubSeq(s1, 1, m - 1) \o repl \o rest[i + m - 1 + Len(match)]
  IN  rest[1]

(* Statements of the source that the code does not keep. *)

(* "Replaces str with a string consisting of str with match replaced with  *)
(* replstr" (strnsubst.c:12).                                              *)
Substitutes(s, match, repl, maxsize) ==
  Len(Replaced(s, match, repl)) + Len(s) < maxsize =>
    Subst(s, match, repl, maxsize) = Replaced(s, match, repl)

(* "as many time as can be done before the constructed string is maxsize   *)
(* bytes large" (strnsubst.c:13): what calloc(0) gave has no byte of it.   *)
StaysInCopy(s, match, repl, maxsize) == Subst(s, match, repl, maxsize) = <<>>
=============================================================================
