--------------------------- MODULE SequenceFacts ---------------------------
(***************************************************************************)
(* Facts about numbers, recursive functions and sequences that the proofs  *)
(* of the programs share.  Induction is by least counterexample: a step    *)
(* names the set of the numbers that have the property and cites NatInd.   *)
(***************************************************************************)
EXTENDS Totals, SequencesExt, SequenceTheorems, WellFoundedInduction, TLAPS

(* A set of numbers that is not empty has a least one. *)
LEMMA LeastElement ==
  ASSUME NEW T, T \subseteq Nat, T # {}
  PROVE  \E n \in T : \A m \in T : n <= m
<1> DEFINE R == OpToRel(<, Nat)
<1>1. R = {ss \in Nat \X Nat : ss[1] < ss[2]}
  BY DEF OpToRel
<1>2. IsWellFoundedOn(R, Nat)
  BY NatLessThanWellFounded
<1> HIDE DEF R
<1>3. PICK n \in T : \A m \in T : <<m, n>> \notin R
  BY <1>2, WFMin
<1>4. \A m \in Nat : m < n => <<m, n>> \in R
  BY <1>1
<1>5. \A m \in T : n <= m
  <2> TAKE m \in T
  <2>1. m \in Nat /\ n \in Nat /\ ~(m < n)
    BY <1>3, <1>4
  <2> QED
    BY <2>1
<1> QED
  BY <1>5

(* A set of numbers up to n that is not empty has a greatest one. *)
LEMMA GreatestElement ==
  ASSUME NEW n \in Nat, NEW S \in SUBSET (1 .. n), S # {}
  PROVE  \E x \in S : \A y \in S : y <= x
<1> DEFINE T == {n - x : x \in S}
<1>1. \A x \in S : x \in Nat /\ n - x \in Nat
  OBVIOUS
<1>2. T \subseteq Nat /\ T # {}
  <2>1. PICK x \in S : TRUE
    OBVIOUS
  <2>2. n - x \in T
    OBVIOUS
  <2> QED
    BY <1>1, <2>2
<1>3. PICK m \in T : \A y \in T : m <= y
  BY <1>2, LeastElement
<1>4. PICK x \in S : m = n - x
  OBVIOUS
<1>5. ASSUME NEW y \in S PROVE y <= x
  <2>1. n - y \in T
    OBVIOUS
  <2>2. m <= n - y
    BY <1>3, <2>1
  <2> QED
    BY <1>1, <1>4, <2>2
<1> QED
  BY <1>5

(* Induction: a set with 0 and every successor has every number. *)
LEMMA NatInd ==
  ASSUME NEW T, 0 \in T, \A n \in Nat : n \in T => n + 1 \in T
  PROVE  Nat \subseteq T
<1>1. SUFFICES ASSUME Nat \ T # {} PROVE FALSE
  OBVIOUS
<1>2. PICK n \in Nat \ T : \A m \in Nat \ T : n <= m
  BY <1>1, LeastElement
<1>3. n # 0 /\ n - 1 \in Nat /\ n - 1 \in T
  BY <1>2
<1> QED
  BY <1>2, <1>3

(* Induction over the numbers from a to b. *)
LEMMA RangeInd ==
  ASSUME NEW a \in Nat, NEW b \in Nat, NEW T, a <= b => a \in T,
         \A i \in a .. b : i \in T /\ i < b => i + 1 \in T
  PROVE  a .. b \subseteq T
<1> DEFINE U == {m \in Nat : a + m <= b => a + m \in T}
<1>1. 0 \in U
  OBVIOUS
<1>2. \A m \in Nat : m \in U => m + 1 \in U
  <2> SUFFICES ASSUME NEW m \in Nat, m \in U, a + (m + 1) <= b
               PROVE  a + (m + 1) \in T
    OBVIOUS
  <2>1. a + m \in a .. b /\ a + m < b /\ (a + m) + 1 = a + (m + 1)
    OBVIOUS
  <2> QED
    BY <2>1
<1> HIDE DEF U
<1>3. Nat \subseteq U
  BY <1>1, <1>2, NatInd
<1> SUFFICES ASSUME NEW i \in a .. b PROVE i \in T
  OBVIOUS
<1>4. i - a \in Nat /\ a + (i - a) = i /\ a + (i - a) <= b
  OBVIOUS
<1>5. i - a \in U
  BY <1>3, <1>4
<1> QED
  BY <1>4, <1>5 DEF U

(* A function defined by recursion on 0 .. n exists. *)
Steps(g, b, step, n) ==
  g[0] = b /\ \A i \in 0 .. n : i < n => g[i + 1] = step[<<g[i], i + 1>>]

(* It exists for each first value, step and length.                        *)
LEMMA RecursiveFunction ==
  ASSUME NEW S, NEW b \in S, NEW step \in [S \X Nat -> S], NEW n \in Nat
  PROVE  \E g \in [0 .. n -> S] : Steps(g, b, step, n)
<1> USE DEF Steps
<1> DEFINE Good(g, m) ==
             g[0] = b /\ \A i \in 0 .. m : i < m => g[i + 1] = step[<<g[i], i + 1>>]
           T == {m \in Nat : \E g \in [0 .. m -> S] : Good(g, m)}
<1>1. 0 \in T
  <2> DEFINE g == [i \in 0 .. 0 |-> b]
  <2>1. g \in [0 .. 0 -> S] /\ Good(g, 0)
    OBVIOUS
  <2> QED
    BY <2>1
<1>2. \A m \in Nat : m \in T => m + 1 \in T
  <2> SUFFICES ASSUME NEW m \in Nat, NEW g \in [0 .. m -> S], Good(g, m)
               PROVE  \E h \in [0 .. m + 1 -> S] : Good(h, m + 1)
    OBVIOUS
  <2> DEFINE last == step[<<g[m], m + 1>>]
             h == [i \in 0 .. m + 1 |-> IF i <= m THEN g[i] ELSE last]
  <2>1. last \in S
    OBVIOUS
  <2> HIDE DEF last
  <2>2. h \in [0 .. m + 1 -> S]
    BY <2>1
  <2>3. h[m + 1] = last /\ \A i \in 0 .. m : h[i] = g[i]
    OBVIOUS
  <2> HIDE DEF h
  <2>4. Good(h, m + 1)
    <3>1. h[0] = b
      BY <2>3
    <3>2. ASSUME NEW i \in 0 .. m + 1, i < m + 1 PROVE h[i + 1] = step[<<h[i], i + 1>>]
      <4>1. CASE i = m
        BY <2>3, <4>1 DEF last
      <4>2. CASE i < m
        <5>1. i \in 0 .. m /\ i + 1 \in 0 .. m
          BY <4>2
        <5> QED
          BY <2>3, <4>2, <5>1
      <4> QED
        BY <3>2, <4>1, <4>2
    <3> QED
      BY <3>1, <3>2
  <2> QED
    BY <2>2, <2>4
<1> HIDE DEF T
<1>3. n \in T
  BY <1>1, <1>2, NatInd
<1> QED
  BY <1>3 DEF T

-----------------------------------------------------------------------------
(* A part of the first of two joined sequences, and the second as a part.  *)
LEMMA ConcatParts ==
  ASSUME NEW S, NEW s \in Seq(S), NEW t \in Seq(S)
  PROVE  /\ \A a \in Nat \ {0}, b \in Nat :
              b <= Len(s) => SubSeq(s \o t, a, b) = SubSeq(s, a, b)
         /\ SubSeq(s \o t, Len(s) + 1, Len(s) + Len(t)) = t
<1>1. Len(s) \in Nat /\ Len(t) \in Nat
  OBVIOUS
<1>2. ASSUME NEW a \in Nat \ {0}, NEW b \in Nat, b <= Len(s)
      PROVE  SubSeq(s \o t, a, b) = SubSeq(s, a, b)
  <2>1. CASE a <= b
    <3>1. a \in 1 .. Len(s) /\ b \in 1 .. Len(s)
      BY <1>1, <1>2, <2>1
    <3> QED
      BY <3>1, SubSeqOfConcat1
  <2>2. CASE b < a
    <3>1. SubSeq(s \o t, a, b) = <<>>
      BY <2>2, SubSeqEmpty
    <3>2. SubSeq(s, a, b) = <<>>
      BY <2>2, SubSeqEmpty
    <3> QED
      BY <3>1, <3>2
  <2>3. a <= b \/ b < a
    BY <1>2
  <2> QED
    BY <2>1, <2>2, <2>3, Zenon
<1>3. CASE Len(t) = 0
  <2>1. t = <<>>
    BY <1>3
  <2>2. SubSeq(s \o t, Len(s) + 1, Len(s) + Len(t)) = <<>>
    BY <1>1, <1>3, SubSeqEmpty
  <2> QED
    BY <1>2, <2>1, <2>2
<1>4. CASE Len(t) # 0
  <2>1. Len(s) + 1 \in Len(s) + 1 .. Len(s) + Len(t)
        /\ Len(s) + Len(t) \in Len(s) + 1 .. Len(s) + Len(t)
        /\ (Len(s) + 1) - Len(s) = 1 /\ (Len(s) + Len(t)) - Len(s) = Len(t)
    BY <1>1, <1>4
  <2>2. SubSeq(s \o t, Len(s) + 1, Len(s) + Len(t)) = SubSeq(t, 1, Len(t))
    BY <2>1, SubSeqOfConcat2
  <2> QED
    BY <1>2, <2>2, SubSeqFull
<1> QED
  BY <1>3, <1>4

(* A sequence that goes one element further is the sequence with it added. *)
LEMMA IsAppended ==
  ASSUME NEW S, NEW a \in Seq(S), NEW e \in S, NEW c \in Seq(S),
         Len(c) = Len(a) + 1, \A i \in 1 .. Len(a) : c[i] = a[i], c[Len(a) + 1] = e
  PROVE  c = Append(a, e)
<1>1. Append(a, e) \in Seq(S) /\ Len(Append(a, e)) = Len(a) + 1 /\ Len(a) \in Nat
      /\ \A i \in 1 .. Len(a) : Append(a, e)[i] = a[i]
      /\ Append(a, e)[Len(a) + 1] = e
  OBVIOUS
<1> DEFINE b == Append(a, e)
<1> HIDE DEF b
<1>2. ASSUME NEW i \in 1 .. Len(c) PROVE c[i] = b[i]
  <2>1. i \in 1 .. Len(a) \/ i = Len(a) + 1
    BY <1>1
  <2>2. CASE i \in 1 .. Len(a)
    BY <1>1, <2>2 DEF b
  <2>3. CASE i = Len(a) + 1
    BY <1>1, <2>3 DEF b
  <2> QED
    BY <2>1, <2>2, <2>3
<1>3. b \in Seq(S) /\ Len(b) = Len(c)
  BY <1>1 DEF b
<1>4. c = b
  BY <1>2, <1>3, SeqEqual
<1> QED
  BY <1>4 DEF b

(* The end of a sequence grows with the sequence. *)
LEMMA SuffixAppend ==
  ASSUME NEW S, NEW b \in Seq(S), NEW m \in Nat, m <= Len(b), NEW e \in S
  PROVE  SubSeq(Append(b, e), m + 1, Len(Append(b, e)))
         = Append(SubSeq(b, m + 1, Len(b)), e)
<1> DEFINE more == Append(b, e)
           s == SubSeq(b, m + 1, Len(b))
           t == SubSeq(more, m + 1, Len(more))
<1>1. /\ more \in Seq(S) /\ Len(more) = Len(b) + 1 /\ Len(b) \in Nat
      /\ \A i \in 1 .. Len(b) : more[i] = b[i]
      /\ more[Len(b) + 1] = e
  OBVIOUS
<1> HIDE DEF more
<1>2. \A i \in m + 1 .. Len(b) : b[i] \in S
  OBVIOUS
<1>3. s \in Seq(S) /\ Len(s) = Len(b) - m /\ \A k \in 1 .. Len(b) - m : s[k] = b[m + k]
  <2>1. s \in Seq(S) /\ Len(s) = Len(b) - m
    BY <1>1, <1>2, SubSeqProperties
  <2>2. \A k \in 1 .. Len(s) : s[k] = b[(m + 1) + k - 1]
    BY <1>1, <1>2, SubSeqProperties
  <2>3. \A k \in 1 .. Len(s) : (m + 1) + k - 1 = m + k
    BY <1>1, <2>1
  <2> HIDE DEF s
  <2> QED
    BY <2>1, <2>2, <2>3
<1>4. \A i \in m + 1 .. Len(more) : more[i] \in S
  BY <1>1
<1>5. t \in Seq(S) /\ Len(t) = (Len(b) - m) + 1
      /\ \A k \in 1 .. (Len(b) - m) + 1 : t[k] = more[m + k]
  <2>1. t \in Seq(S) /\ Len(t) = (Len(b) - m) + 1
    BY <1>1, <1>4, SubSeqProperties
  <2>2. \A k \in 1 .. Len(t) : t[k] = more[(m + 1) + k - 1]
    BY <1>1, <1>4, SubSeqProperties
  <2>3. \A k \in 1 .. Len(t) : (m + 1) + k - 1 = m + k
    BY <1>1, <2>1
  <2> HIDE DEF t
  <2> QED
    BY <2>1, <2>2, <2>3
<1> HIDE DEF s, t
<1>6. \A k \in 1 .. Len(s) : t[k] = s[k]
  <2> TAKE k \in 1 .. Len(s)
  <2>1. m + k \in 1 .. Len(b) /\ k \in 1 .. Len(b) - m /\ k \in 1 .. (Len(b) - m) + 1
    BY <1>1, <1>3
  <2> QED
    BY <1>1, <1>3, <1>5, <2>1
<1>7. t[Len(s) + 1] = e
  <2> DEFINE l == (Len(b) - m) + 1
  <2>1. l \in 1 .. l /\ m + l = Len(b) + 1 /\ Len(s) + 1 = l
    BY <1>1, <1>3
  <2>2. \A k \in 1 .. l : t[k] = more[m + k]
    BY <1>5
  <2> HIDE DEF l
  <2>3. t[l] = more[m + l]
    BY <2>1, <2>2
  <2> QED
    BY <1>1, <2>1, <2>3
<1>8. t = Append(s, e)
  BY <1>3, <1>5, <1>6, <1>7, IsAppended
<1> QED
  BY <1>8 DEF s, t, more

(* An element more leaves what precedes it. *)
LEMMA AppendPrefix ==
  ASSUME NEW S, NEW s \in Seq(S), NEW e \in S, NEW n \in Nat, n <= Len(s)
  PROVE  SubSeq(Append(s, e), 1, n) = SubSeq(s, 1, n)
<1>1. <<e>> \in Seq(S) /\ Append(s, e) = s \o <<e>>
  OBVIOUS
<1>2. SubSeq(s \o <<e>>, 1, n) = SubSeq(s, 1, n)
  <2>1. 1 \in Nat \ {0}
    OBVIOUS
  <2> QED
    BY <1>1, <2>1, ConcatParts
<1> QED
  BY <1>1, <1>2

(* An element added to the second of two joined sequences ends the whole. *)
LEMMA ConcatAppend ==
  ASSUME NEW S, NEW s \in Seq(S), NEW t \in Seq(S), NEW e \in S
  PROVE  s \o Append(t, e) = Append(s \o t, e)
<1>1. <<e>> \in Seq(S) /\ s \o t \in Seq(S)
  OBVIOUS
<1>2. Append(t, e) = t \o <<e>> /\ Append(s \o t, e) = (s \o t) \o <<e>>
  BY <1>1
<1>3. (s \o t) \o <<e>> = s \o (t \o <<e>>)
  BY <1>1, ConcatAssociative
<1> QED
  BY <1>2, <1>3

(***************************************************************************)
(* What FlattenSeq chooses: the sequences joined one by one.               *)
(***************************************************************************)
Joins(f, s) ==
  /\ f[1] = s[1]
  /\ \A i \in 1 .. Len(s) : i < Len(s) => f[i + 1] = f[i] \o s[i + 1]

(* There is such a function, and its last value is what FlattenSeq gives.  *)
LEMMA FlattenFunction ==
  ASSUME NEW S, NEW s \in Seq(Seq(S)), Len(s) # 0
  PROVE  \E f \in [1 .. Len(s) -> Seq(S)] : Joins(f, s) /\ FlattenSeq(s) = f[Len(s)]
<1> DEFINE n == Len(s)
           Flat(f) == f = [i \in 1 .. n |-> IF i = 1 THEN s[i] ELSE f[i - 1] \o s[i]]
           join == [a \in Seq(S) \X Nat |-> IF a[2] \in 1 .. n THEN a[1] \o s[a[2]] ELSE a[1]]
<1>1. n \in Nat /\ n # 0 /\ <<>> \in Seq(S)
  OBVIOUS
<1>2. \A i \in 1 .. n : s[i] \in Seq(S)
  OBVIOUS
<1>3. join \in [Seq(S) \X Nat -> Seq(S)]
  <2> SUFFICES ASSUME NEW a \in Seq(S), NEW i \in 1 .. n PROVE a \o s[i] \in Seq(S)
    OBVIOUS
  <2> QED
    BY <1>2
<1> HIDE DEF n
<1>4. PICK g \in [0 .. n -> Seq(S)] :
        g[0] = <<>> /\ \A i \in 0 .. n : i < n => g[i + 1] = join[<<g[i], i + 1>>]
  <2> HIDE DEF join
  <2>1. \E g \in [0 .. n -> Seq(S)] : Steps(g, <<>>, join, n)
    BY <1>1, <1>3, RecursiveFunction, Zenon
  <2> QED
    BY <2>1 DEF Steps
<1> DEFINE h == [i \in 1 .. n |-> g[i]]
<1>5. \A i \in 1 .. n : g[i] = g[i - 1] \o s[i] /\ g[i - 1] \in Seq(S)
  <2> TAKE i \in 1 .. n
  <2>1. i - 1 \in 0 .. n /\ i - 1 < n /\ (i - 1) + 1 = i /\ g[i - 1] \in Seq(S)
        /\ i \in Nat
    BY <1>1
  <2>2. g[i] = join[<<g[i - 1], i>>]
    BY <1>4, <2>1
  <2> QED
    BY <2>1, <2>2
<1>6. g[0] = <<>>
  BY <1>4
<1>7. g[1] = s[1]
  <2>1. 1 \in 1 .. n /\ 1 - 1 = 0 /\ s[1] \in Seq(S)
    BY <1>1, <1>2
  <2>2. g[1] = g[0] \o s[1]
    BY <1>5, <2>1
  <2>3. <<>> \o s[1] = s[1]
    BY <2>1
  <2> QED
    BY <1>6, <2>2, <2>3
<1>8. Flat(h)
  <2>1. ASSUME NEW i \in 1 .. n
        PROVE  h[i] = IF i = 1 THEN s[i] ELSE h[i - 1] \o s[i]
    <3>1. CASE i = 1
      BY <1>7, <3>1
    <3>2. CASE i # 1
      <4>1. i - 1 \in 1 .. n
        BY <1>1, <3>2
      <4>2. h[i] = g[i] /\ h[i - 1] = g[i - 1]
        BY <4>1
      <4>3. g[i] = g[i - 1] \o s[i]
        BY <1>5
      <4> QED
        BY <3>2, <4>2, <4>3
    <3> QED
      BY <3>1, <3>2
  <2> HIDE DEF h
  <2>2. h = [i \in 1 .. n |-> h[i]]
    BY DEF h
  <2> QED
    BY <2>1, <2>2
<1> DEFINE f == CHOOSE f : Flat(f)
<1>9. Flat(f)
  BY <1>8
<1> HIDE DEF f, h, join
<1>10. \A i \in 1 .. n : f[i] = IF i = 1 THEN s[i] ELSE f[i - 1] \o s[i]
  BY <1>9
<1>11. Joins(f, s)
  <2>1. f[1] = s[1]
    BY <1>1, <1>10
  <2>2. ASSUME NEW i \in 1 .. n, i < n PROVE f[i + 1] = f[i] \o s[i + 1]
    <3>1. i + 1 \in 1 .. n /\ i + 1 # 1 /\ (i + 1) - 1 = i
      BY <1>1, <2>2
    <3> QED
      BY <1>10, <3>1
  <2> QED
    BY <2>1, <2>2 DEF Joins, n
<1> DEFINE T == {i \in 1 .. n : f[i] = g[i]}
<1>12. 1 \in T
  BY <1>1, <1>7, <1>11 DEF Joins
<1>13. \A i \in 1 .. n : i \in T /\ i < n => i + 1 \in T
  <2> SUFFICES ASSUME NEW i \in 1 .. n, i \in T, i < n PROVE i + 1 \in T
    OBVIOUS
  <2>1. i + 1 \in 1 .. n /\ (i + 1) - 1 = i
    BY <1>1
  <2>2. g[i + 1] = g[i] \o s[i + 1]
    BY <1>5, <2>1
  <2>3. f[i + 1] = f[i] \o s[i + 1]
    BY <1>11 DEF Joins, n
  <2> QED
    BY <2>1, <2>2, <2>3
<1>14. \A i \in 1 .. n : f[i] = g[i]
  <2> HIDE DEF T
  <2>1. 1 .. n \subseteq T
    BY <1>1, <1>12, <1>13, RangeInd
  <2> QED
    BY <2>1 DEF T
<1>15. f \in [1 .. n -> Seq(S)]
  <2>1. f = [i \in 1 .. n |-> f[i]]
    BY <1>9
  <2>2. \A i \in 1 .. n : f[i] \in Seq(S)
    BY <1>1, <1>14
  <2> QED
    BY <2>1, <2>2
<1>16. FlattenSeq(s) = f[n]
  BY <1>1 DEF FlattenSeq, f, n
<1> QED
  BY <1>1, <1>11, <1>15, <1>16 DEF n

(* Nothing joined is nothing. *)
LEMMA FlattenEmpty == FlattenSeq(<<>>) = <<>>
BY DEF FlattenSeq

(* Sequences joined are a sequence of their elements. *)
LEMMA FlattenType ==
  ASSUME NEW S, NEW s \in Seq(Seq(S))
  PROVE  FlattenSeq(s) \in Seq(S)
<1>1. CASE Len(s) = 0
  <2>1. s = <<>> /\ <<>> \in Seq(S)
    BY <1>1
  <2> QED
    BY <2>1, FlattenEmpty
<1>2. CASE Len(s) # 0
  <2>1. PICK f \in [1 .. Len(s) -> Seq(S)] : FlattenSeq(s) = f[Len(s)]
    BY <1>2, FlattenFunction
  <2>2. Len(s) \in 1 .. Len(s)
    BY <1>2
  <2> QED
    BY <2>1, <2>2
<1> QED
  BY <1>1, <1>2

(* One sequence more is joined at the end. *)
LEMMA FlattenAppend ==
  ASSUME NEW S, NEW s \in Seq(Seq(S)), NEW e \in Seq(S)
  PROVE  FlattenSeq(Append(s, e)) = FlattenSeq(s) \o e
<1> DEFINE t == Append(s, e)
           n == Len(s)
<1>1. /\ t \in Seq(Seq(S)) /\ Len(t) = n + 1 /\ Len(t) # 0 /\ n \in Nat
      /\ \A i \in 1 .. n : t[i] = s[i]
      /\ t[n + 1] = e
  OBVIOUS
<1> HIDE DEF t, n
<1>2. PICK f \in [1 .. n + 1 -> Seq(S)] : Joins(f, t) /\ FlattenSeq(t) = f[n + 1]
  BY <1>1, FlattenFunction
<1>3. CASE n = 0
  <2>1. s = <<>> /\ FlattenSeq(s) = <<>>
    BY <1>3, FlattenEmpty DEF n
  <2>2. FlattenSeq(t) = e
    BY <1>1, <1>2, <1>3 DEF Joins
  <2>3. <<>> \o e = e
    OBVIOUS
  <2> QED
    BY <2>1, <2>2, <2>3 DEF t
<1>4. CASE n # 0
  <2>1. PICK g \in [1 .. n -> Seq(S)] : Joins(g, s) /\ FlattenSeq(s) = g[n]
    BY <1>4, FlattenFunction DEF n
  <2> DEFINE T == {i \in 1 .. n : f[i] = g[i]}
  <2>2. 1 \in T
    BY <1>1, <1>2, <1>4, <2>1 DEF Joins
  <2>3. ASSUME NEW i \in 1 .. n, i \in T, i < n PROVE i + 1 \in T
    <3>1. i + 1 \in 1 .. n /\ i < n + 1 /\ i \in 1 .. n + 1 /\ t[i + 1] = s[i + 1]
      BY <1>1, <2>3
    <3>2. f[i + 1] = f[i] \o t[i + 1]
      BY <1>1, <1>2, <3>1 DEF Joins
    <3>3. g[i + 1] = g[i] \o s[i + 1]
      BY <2>1, <2>3 DEF Joins, n
    <3> QED
      BY <2>3, <3>1, <3>2, <3>3
  <2>4. f[n] = g[n]
    <3> HIDE DEF T
    <3>1. 1 .. n \subseteq T
      BY <1>1, <2>2, <2>3, RangeInd
    <3> QED
      BY <1>1, <1>4, <3>1 DEF T
  <2>5. f[n + 1] = f[n] \o e
    <3>1. n \in 1 .. Len(t) /\ n < Len(t)
      BY <1>1, <1>4
    <3> QED
      BY <1>1, <1>2, <3>1 DEF Joins
  <2> QED
    BY <1>2, <2>1, <2>4, <2>5 DEF t
<1> QED
  BY <1>3, <1>4

-----------------------------------------------------------------------------
(* What Total chooses: the numbers added one by one. *)
Adds(f, s) ==
  f[0] = 0 /\ \A i \in 0 .. Len(s) : i < Len(s) => f[i + 1] = f[i] + s[i + 1]

(* There is such a function, and its last value is what Total gives.       *)
LEMMA TotalFunction ==
  ASSUME NEW s \in Seq(Nat)
  PROVE  \E f \in [0 .. Len(s) -> Nat] : Adds(f, s) /\ Total(s) = f[Len(s)]
<1> DEFINE n == Len(s)
           Sums(f) == f = [i \in 0 .. n |-> IF i = 0 THEN 0 ELSE f[i - 1] + s[i]]
           add == [a \in Nat \X Nat |-> IF a[2] \in 1 .. n THEN a[1] + s[a[2]] ELSE a[1]]
<1>1. n \in Nat /\ \A i \in 1 .. n : s[i] \in Nat
  OBVIOUS
<1>2. add \in [Nat \X Nat -> Nat]
  BY <1>1
<1> HIDE DEF n
<1>3. PICK g \in [0 .. n -> Nat] :
        g[0] = 0 /\ \A i \in 0 .. n : i < n => g[i + 1] = g[i] + s[i + 1]
  <2>1. \E g \in [0 .. n -> Nat] : Steps(g, 0, add, n)
    <3> HIDE DEF add
    <3> QED
      BY <1>1, <1>2, RecursiveFunction, Zenon
  <2>2. PICK g \in [0 .. n -> Nat] : Steps(g, 0, add, n)
    BY <2>1
  <2>3. ASSUME NEW i \in 0 .. n, i < n PROVE g[i + 1] = g[i] + s[i + 1]
    <3>1. <<g[i], i + 1>> \in Nat \X Nat /\ i + 1 \in 1 .. n
      BY <1>1, <2>3
    <3>2. g[i + 1] = add[<<g[i], i + 1>>]
      BY <2>2, <2>3 DEF Steps
    <3> QED
      BY <3>1, <3>2
  <2> QED
    BY <2>2, <2>3 DEF Steps
<1>4. Sums(g)
  <2>1. ASSUME NEW i \in 0 .. n PROVE g[i] = IF i = 0 THEN 0 ELSE g[i - 1] + s[i]
    <3>1. CASE i # 0
      <4>1. i - 1 \in 0 .. n /\ i - 1 < n /\ (i - 1) + 1 = i
        BY <1>1, <3>1
      <4> QED
        BY <1>3, <3>1, <4>1
    <3> QED
      BY <1>3, <3>1
  <2> QED
    BY <2>1
<1> DEFINE f == CHOOSE f : Sums(f)
<1>5. Sums(f)
  BY <1>4
<1> HIDE DEF f
<1>6. f[0] = 0 /\ \A i \in 0 .. n : i < n => f[i + 1] = f[i] + s[i + 1]
  <2>1. \A i \in 0 .. n : f[i] = IF i = 0 THEN 0 ELSE f[i - 1] + s[i]
    BY <1>5
  <2>2. ASSUME NEW i \in 0 .. n, i < n PROVE f[i + 1] = f[i] + s[i + 1]
    <3>1. i + 1 \in 0 .. n /\ i + 1 # 0 /\ (i + 1) - 1 = i
      BY <1>1, <2>2
    <3> QED
      BY <2>1, <3>1
  <2> QED
    BY <1>1, <2>1, <2>2
<1> DEFINE T == {i \in 0 .. n : f[i] = g[i]}
<1>7. \A i \in 0 .. n : f[i] = g[i]
  <2>1. 0 \in T
    BY <1>1, <1>3, <1>6
  <2>2. ASSUME NEW i \in 0 .. n, i \in T, i < n PROVE i + 1 \in T
    <3>1. i + 1 \in 0 .. n /\ f[i + 1] = f[i] + s[i + 1] /\ g[i + 1] = g[i] + s[i + 1]
      BY <1>1, <1>3, <1>6, <2>2
    <3> QED
      BY <2>2, <3>1
  <2> HIDE DEF T
  <2>3. 0 .. n \subseteq T
    BY <1>1, <2>1, <2>2, RangeInd
  <2> QED
    BY <2>3 DEF T
<1>8. f \in [0 .. n -> Nat]
  <2>1. f = [i \in 0 .. n |-> f[i]]
    BY <1>5
  <2> QED
    BY <1>7, <2>1
<1>9. Total(s) = f[n]
  BY DEF Total, f, n
<1> QED
  BY <1>6, <1>8, <1>9 DEF Adds, n

(* The sum of no number is 0. *)
LEMMA TotalEmpty == Total(<<>>) = 0
<1> DEFINE empty == <<>>
<1>1. empty \in Seq(Nat) /\ Len(empty) = 0
  OBVIOUS
<1> HIDE DEF empty
<1>2. PICK f \in [0 .. 0 -> Nat] : Adds(f, empty) /\ Total(empty) = f[0]
  BY <1>1, TotalFunction
<1> QED
  BY <1>2 DEF Adds, empty

(* One number more is added. *)
LEMMA TotalAppend ==
  ASSUME NEW s \in Seq(Nat), NEW e \in Nat
  PROVE  /\ Total(s) \in Nat
         /\ Total(Append(s, e)) = Total(s) + e
<1> DEFINE t == Append(s, e)
           n == Len(s)
<1>3. /\ t \in Seq(Nat) /\ Len(t) = n + 1 /\ n \in Nat
      /\ \A i \in 1 .. n : t[i] = s[i]
      /\ t[n + 1] = e
  OBVIOUS
<1> HIDE DEF t, n
<1>4. PICK f \in [0 .. n + 1 -> Nat] : Adds(f, t) /\ Total(t) = f[n + 1]
  BY <1>3, TotalFunction
<1>5. PICK g \in [0 .. n -> Nat] : Adds(g, s) /\ Total(s) = g[n]
  BY TotalFunction DEF n
<1> DEFINE T == {i \in 0 .. n : f[i] = g[i]}
<1>6. f[n] = g[n]
  <2>1. 0 \in T
    BY <1>3, <1>4, <1>5 DEF Adds
  <2>2. ASSUME NEW i \in 0 .. n, i \in T, i < n PROVE i + 1 \in T
    <3>1. i \in 0 .. Len(t) /\ i < Len(t) /\ i + 1 \in 0 .. n /\ t[i + 1] = s[i + 1]
      BY <1>3, <2>2
    <3>2. f[i + 1] = f[i] + t[i + 1]
      BY <1>4, <3>1 DEF Adds
    <3>3. g[i + 1] = g[i] + s[i + 1]
      BY <1>5, <2>2 DEF Adds, n
    <3> QED
      BY <2>2, <3>1, <3>2, <3>3
  <2> HIDE DEF T
  <2>3. 0 .. n \subseteq T
    BY <1>3, <2>1, <2>2, RangeInd
  <2> QED
    BY <1>3, <2>3 DEF T
<1>7. f[n + 1] = f[n] + e
  BY <1>3, <1>4 DEF Adds
<1>8. Total(s) \in Nat
  BY <1>3, <1>5
<1> QED
  BY <1>4, <1>5, <1>6, <1>7, <1>8 DEF t

(* Cutting a sequence from m to its end leaves a sequence of its elements. *)
LEMMA SuffixType ==
  ASSUME NEW S, NEW s \in Seq(S), NEW m \in Nat
  PROVE  /\ SubSeq(s, m + 1, Len(s)) \in Seq(S)
         /\ m <= Len(s) => Len(SubSeq(s, m + 1, Len(s))) = Len(s) - m
<1>1. \A i \in m + 1 .. Len(s) : s[i] \in S
  BY LenProperties, ElementOfSeq
<1> QED
  BY <1>1, LenProperties, SubSeqProperties

(* Adding an element adds one to the length. *)
LEMMA AppendType ==
  ASSUME NEW S, NEW s \in Seq(S), NEW e \in S
  PROVE  /\ Append(s, e) \in Seq(S)
         /\ Len(Append(s, e)) = Len(s) + 1
OBVIOUS

(* A sequence is a prefix of itself and of what is longer by one. *)
LEMMA PrefixFacts ==
  ASSUME NEW S, NEW s \in Seq(S), NEW e \in S
  PROVE  IsPrefix(s, s) /\ IsPrefix(s, Append(s, e))
<1>1. Len(s) \in Nat /\ Append(s, e) \in Seq(S) /\ Len(Append(s, e)) = Len(s) + 1
  OBVIOUS
<1>2. SubSeq(Append(s, e), 1, Len(s)) = SubSeq(s, 1, Len(s))
  BY <1>1, AppendPrefix
<1> QED
  BY <1>1, <1>2 DEF IsPrefix

(* What was appended to is not empty. *)
LEMMA AppendIsNotEmpty ==
  ASSUME NEW S, NEW s \in Seq(S), NEW e \in S
  PROVE  Append(s, e) # <<>>
<1>1. Len(Append(s, e)) = Len(s) + 1 /\ Len(s) \in Nat
  OBVIOUS
<1>2. Len(<<>>) = 0
  OBVIOUS
<1> QED
  BY <1>1, <1>2

(* Two elements more. *)
LEMMA ConcatTwo ==
  ASSUME NEW S, NEW s \in Seq(S), NEW a \in S, NEW b \in S
  PROVE  Append(s, a) \in Seq(S) /\ s \o <<a, b>> = Append(Append(s, a), b)
<1>1. <<a>> \in Seq(S) /\ Append(s, a) \in Seq(S)
  OBVIOUS
<1>2. <<a, b>> = Append(<<a>>, b) /\ Append(s, a) = s \o <<a>>
  OBVIOUS
<1>3. s \o Append(<<a>>, b) = Append(s \o <<a>>, b)
  BY <1>1, ConcatAppend
<1> QED
  BY <1>1, <1>2, <1>3

(* Taking away what was appended. *)
LEMMA FrontOfAppend ==
  ASSUME NEW S, NEW s \in Seq(S), NEW e \in S
  PROVE  Front(Append(s, e)) = s
<1>1. Len(Append(s, e)) = Len(s) + 1 /\ Len(s) \in Nat
  OBVIOUS
<1>2. (Len(s) + 1) - 1 = Len(s)
  BY <1>1
<1>3. SubSeq(Append(s, e), 1, Len(s)) = SubSeq(s, 1, Len(s))
  BY <1>1, AppendPrefix
<1> QED
  BY <1>1, <1>2, <1>3, SubSeqFull DEF Front

(* A prefix that is not all is one element shorter than the next one.      *)
LEMMA PrefixMore ==
  ASSUME NEW S, NEW s \in Seq(S), NEW i \in 0 .. Len(s), i < Len(s)
  PROVE  /\ SubSeq(s, 1, i) \in Seq(S) /\ s[i + 1] \in S
         /\ SubSeq(s, 1, i + 1) = Append(SubSeq(s, 1, i), s[i + 1])
<1>1. Len(s) \in Nat /\ i \in Nat /\ i + 1 \in 1 .. Len(s)
  OBVIOUS
<1>2. s[i + 1] \in S
  BY <1>1
<1>3. SubSeq(s, 1, i) \in Seq(S) /\ Len(SubSeq(s, 1, i)) = i
      /\ \A j \in 1 .. i : SubSeq(s, 1, i)[j] = s[j]
  BY <1>1, SubSeqProperties
<1>4. SubSeq(s, 1, i + 1) \in Seq(S) /\ Len(SubSeq(s, 1, i + 1)) = i + 1
      /\ \A j \in 1 .. i + 1 : SubSeq(s, 1, i + 1)[j] = s[j]
  BY <1>1, SubSeqProperties
<1> DEFINE p == SubSeq(s, 1, i)  q == SubSeq(s, 1, i + 1)  e == s[i + 1]
<1> HIDE DEF p, q, e
<1>5. /\ p \in Seq(S) /\ e \in S /\ q \in Seq(S) /\ Len(q) = Len(p) + 1
      /\ \A j \in 1 .. Len(p) : q[j] = p[j]
      /\ q[Len(p) + 1] = e
  BY <1>1, <1>2, <1>3, <1>4 DEF p, q, e
<1>6. q = Append(p, e)
  BY <1>5, IsAppended
<1> QED
  BY <1>2, <1>3, <1>6 DEF p, q, e

(* Behind place a of the sequences to join come g and the elements of u,   *)
(* one in each.                                                            *)
Continues(d, a, g, u) ==
  /\ a < Len(d) /\ Len(u) = Len(d) - a
  /\ d[a + 1] = g \o <<u[1]>>
  /\ \A i \in a + 2 .. Len(d) : d[i] = <<u[i - a]>>

(* Then what is joined ends in g and u.                                    *)
LEMMA FlattenRun ==
  ASSUME NEW S, NEW d \in Seq(Seq(S)), NEW a \in Nat, NEW g \in Seq(S), NEW u \in Seq(S),
         Continues(d, a, g, u)
  PROVE  FlattenSeq(d) = FlattenSeq(SubSeq(d, 1, a)) \o (g \o u)
<1> DEFINE n == Len(d)
           F(m) == FlattenSeq(SubSeq(d, 1, m))
           U(m) == SubSeq(u, 1, m)
           r == F(a) \o g
           T == {m \in 1 .. Len(u) : F(a + m) = r \o U(m)}
<1>a. /\ \A x, p \in Seq(S), e \in S : x \o Append(p, e) = Append(x \o p, e) /\ x \o p \in Seq(S)
      /\ \A e \in S : Append(<<>>, e) = <<e>> /\ <<e>> \in Seq(S)
  BY ConcatAppend
<1>1. n \in Nat /\ Len(u) \in Nat /\ n = a + Len(u) /\ 1 <= Len(u)
  BY DEF Continues
<1>2. ASSUME NEW m \in 0 .. n
      PROVE  F(m) \in Seq(S) /\ (m < n => F(m + 1) = F(m) \o d[m + 1])
  <2>1. SubSeq(d, 1, m) \in Seq(Seq(S))
    BY <1>1, SubSeqProperties
  <2>2. m < n => d[m + 1] \in Seq(S) /\ SubSeq(d, 1, m + 1) = Append(SubSeq(d, 1, m), d[m + 1])
    BY PrefixMore
  <2> QED
    BY <2>1, <2>2, FlattenType, FlattenAppend
<1>3. ASSUME NEW m \in 0 .. Len(u), m < Len(u)
      PROVE  U(m) \in Seq(S) /\ u[m + 1] \in S /\ U(m + 1) = Append(U(m), u[m + 1])
  BY <1>3, PrefixMore
<1>4. U(0) = <<>>
  OBVIOUS
<1>5. F(n) = FlattenSeq(d) /\ U(Len(u)) = u
  BY SubSeqFull
<1>6. /\ d[a + 1] = g \o <<u[1]>>
      /\ \A m \in 1 .. Len(u) - 1 : d[(a + m) + 1] = <<u[m + 1]>>
  <2> SUFFICES ASSUME NEW m \in 1 .. Len(u) - 1 PROVE d[(a + m) + 1] = <<u[m + 1]>>
    BY DEF Continues
  <2>1. (a + m) + 1 \in a + 2 .. Len(d) /\ ((a + m) + 1) - a = m + 1
    BY <1>1
  <2> QED
    BY <2>1 DEF Continues
<1>7. a \in 0 .. n /\ a < n
  BY <1>1
<1> HIDE DEF n, F, U
<1>8. F(a) \in Seq(S) /\ r \in Seq(S)
  BY <1>2, <1>7
<1>9. 1 \in T
  <2>1. F(a + 1) = F(a) \o (g \o <<u[1]>>)
    BY <1>2, <1>6, <1>7
  <2>2. 0 \in 0 .. Len(u) /\ 0 < Len(u) /\ 0 + 1 = 1
    BY <1>1
  <2>3. u[1] \in S /\ U(1) = Append(U(0), u[1])
    BY <1>3, <2>2
  <2>4. U(1) = <<u[1]>> /\ <<u[1]>> \in Seq(S)
    BY <1>a, <1>4, <2>3
  <2>5. F(a) \o (g \o <<u[1]>>) = r \o <<u[1]>>
    BY <1>8, <2>4, ConcatAssociative
  <2>6. 1 \in 1 .. Len(u)
    BY <1>1
  <2> QED
    BY <2>1, <2>4, <2>5, <2>6
<1>10. \A m \in 1 .. Len(u) : m \in T /\ m < Len(u) => m + 1 \in T
  <2> SUFFICES ASSUME NEW m \in 1 .. Len(u), F(a + m) = r \o U(m), m < Len(u)
               PROVE  m + 1 \in 1 .. Len(u) /\ F(a + (m + 1)) = r \o U(m + 1)
    OBVIOUS
  <2>1. /\ a + m \in 0 .. n /\ a + m < n /\ (a + m) + 1 = a + (m + 1)
        /\ m \in 1 .. Len(u) - 1 /\ m \in 0 .. Len(u) /\ m + 1 \in 1 .. Len(u)
    BY <1>1
  <2>2. F(a + (m + 1)) = F(a + m) \o d[(a + m) + 1] /\ d[(a + m) + 1] = <<u[m + 1]>>
    BY <1>2, <1>6, <2>1
  <2>3. U(m) \in Seq(S) /\ u[m + 1] \in S /\ U(m + 1) = Append(U(m), u[m + 1])
    BY <1>3, <2>1
  <2>4. r \o U(m + 1) = Append(r \o U(m), u[m + 1]) /\ r \o U(m) \in Seq(S)
    <3> DEFINE p == U(m)  e == u[m + 1]
    <3>1. p \in Seq(S) /\ e \in S /\ U(m + 1) = Append(p, e) /\ r \in Seq(S)
      BY <1>8, <2>3
    <3> HIDE DEF p, e, r
    <3>2. r \o Append(p, e) = Append(r \o p, e) /\ r \o p \in Seq(S)
      BY <1>a, <3>1
    <3> QED
      BY <3>1, <3>2 DEF p, e
  <2> HIDE DEF r
  <2>5. (r \o U(m)) \o <<u[m + 1]>> = Append(r \o U(m), u[m + 1])
    BY <2>3, <2>4
  <2> QED
    BY <2>1, <2>2, <2>4, <2>5
<1> HIDE DEF T
<1>11. 1 .. Len(u) \subseteq T
  BY <1>1, <1>9, <1>10, RangeInd
<1>12. Len(u) \in T
  BY <1>1, <1>11
<1>13. F(a + Len(u)) = r \o U(Len(u))
  BY <1>12 DEF T
<1>14. FlattenSeq(d) = r \o u
  BY <1>1, <1>5, <1>13
<1>15. r \o u = F(a) \o (g \o u)
  BY <1>8, ConcatAssociative
<1> QED
  BY <1>14, <1>15 DEF F

(* What is joined is not changed by empty sequences at its end.            *)
LEMMA FlattenBlank ==
  ASSUME NEW S, NEW d \in Seq(Seq(S)), NEW a \in Nat, a <= Len(d),
         \A i \in a + 1 .. Len(d) : d[i] = <<>>
  PROVE  FlattenSeq(d) = FlattenSeq(SubSeq(d, 1, a))
<1> DEFINE n == Len(d)
           T == {m \in a .. n : FlattenSeq(SubSeq(d, 1, m)) = FlattenSeq(SubSeq(d, 1, a))}
<1>1. n \in Nat /\ a <= n
  OBVIOUS
<1>2. ASSUME NEW m \in 0 .. n
      PROVE  SubSeq(d, 1, m) \in Seq(Seq(S)) /\ FlattenSeq(SubSeq(d, 1, m)) \in Seq(S)
  <2>1. SubSeq(d, 1, m) \in Seq(Seq(S))
    BY <1>1, SubSeqProperties
  <2> QED
    BY <2>1, FlattenType
<1>3. \A m \in a .. n : m < n => SubSeq(d, 1, m + 1) = Append(SubSeq(d, 1, m), <<>>)
  <2> SUFFICES ASSUME NEW m \in a .. n, m < n
               PROVE  SubSeq(d, 1, m + 1) = Append(SubSeq(d, 1, m), <<>>)
    OBVIOUS
  <2>1. m + 1 \in a + 1 .. n /\ m \in 0 .. n
    BY <1>1
  <2>2. SubSeq(d, 1, m + 1) = Append(SubSeq(d, 1, m), d[m + 1])
    BY <1>1, <2>1, PrefixMore
  <2> QED
    BY <2>1, <2>2
<1>4. <<>> \in Seq(S) /\ \A s \in Seq(S) : s \o <<>> = s
  OBVIOUS
<1>5. \A m \in a .. n : m \in T /\ m < n => m + 1 \in T
  <2> SUFFICES ASSUME NEW m \in a .. n, m \in T, m < n
               PROVE  FlattenSeq(SubSeq(d, 1, m + 1)) = FlattenSeq(SubSeq(d, 1, a))
    BY <1>1
  <2>1. m \in 0 .. n
    BY <1>1
  <2>2. FlattenSeq(Append(SubSeq(d, 1, m), <<>>)) = FlattenSeq(SubSeq(d, 1, m)) \o <<>>
    BY <1>2, <1>4, <2>1, FlattenAppend
  <2> QED
    BY <1>2, <1>3, <1>4, <2>1, <2>2
<1>6. a \in T
  BY <1>1
<1> HIDE DEF T
<1>7. a .. n \subseteq T
  BY <1>1, <1>5, <1>6, RangeInd
<1>8. n \in T
  BY <1>1, <1>7
<1> QED
  BY <1>8, SubSeqFull DEF T

(* What is joined begins with what its first members join to.              *)
LEMMA FlattenSplit ==
  ASSUME NEW S, NEW d \in Seq(Seq(S)), NEW a \in 0 .. Len(d)
  PROVE  \E r \in Seq(S) : FlattenSeq(d) = FlattenSeq(SubSeq(d, 1, a)) \o r
<1> DEFINE n == Len(d)
           F(m) == FlattenSeq(SubSeq(d, 1, m))
           T == {m \in a .. n : \E r \in Seq(S) : F(m) = F(a) \o r}
<1>1. n \in Nat /\ a <= n /\ a \in Nat
  OBVIOUS
<1>2. ASSUME NEW m \in 0 .. n
      PROVE  F(m) \in Seq(S) /\ (m < n => d[m + 1] \in Seq(S) /\ F(m + 1) = F(m) \o d[m + 1])
  <2>1. SubSeq(d, 1, m) \in Seq(Seq(S))
    BY <1>1, SubSeqProperties
  <2>2. m < n => d[m + 1] \in Seq(S) /\ SubSeq(d, 1, m + 1) = Append(SubSeq(d, 1, m), d[m + 1])
    BY PrefixMore
  <2> QED
    BY <2>1, <2>2, FlattenType, FlattenAppend
<1>3. F(n) = FlattenSeq(d)
  BY SubSeqFull
<1>4. /\ <<>> \in Seq(S) /\ \A s \in Seq(S) : s \o <<>> = s
      /\ \A s, r, e \in Seq(S) : r \o e \in Seq(S) /\ (s \o r) \o e = s \o (r \o e)
  BY ConcatAssociative
<1> HIDE DEF F
<1>5. a \in T
  <2>1. F(a) \in Seq(S) /\ F(a) = F(a) \o <<>> /\ a \in a .. n
    BY <1>1, <1>2, <1>4
  <2> QED
    BY <1>4, <2>1
<1>6. ASSUME NEW m \in a .. n, m \in T, m < n
      PROVE  m + 1 \in T
  <2>1. PICK r \in Seq(S) : F(m) = F(a) \o r
    BY <1>6
  <2>2. m \in 0 .. n /\ a \in 0 .. n /\ m + 1 \in a .. n
    BY <1>1, <1>6
  <2>3. d[m + 1] \in Seq(S) /\ F(m + 1) = F(m) \o d[m + 1] /\ F(a) \in Seq(S)
    BY <1>2, <1>6, <2>2
  <2> DEFINE e == d[m + 1]
             x == F(a)
  <2>4. e \in Seq(S) /\ x \in Seq(S) /\ F(m) = x \o r /\ F(m + 1) = F(m) \o e
    BY <2>1, <2>3
  <2> HIDE DEF e, x
  <2>5. r \o e \in Seq(S) /\ (x \o r) \o e = x \o (r \o e)
    BY <1>4, <2>4
  <2>6. F(m + 1) = F(a) \o (r \o e)
    BY <2>4, <2>5 DEF x
  <2> QED
    BY <2>2, <2>5, <2>6
<1>7. n \in a .. n
  BY <1>1
<1> HIDE DEF T, n
<1>8. a .. n \subseteq T
  BY <1>1, <1>5, <1>6, RangeInd
<1> QED
  BY <1>3, <1>7, <1>8 DEF T, F

(* A sequence is a prefix of what begins with it.                          *)
LEMMA PrefixOfConcat ==
  ASSUME NEW S, NEW s \in Seq(S), NEW r \in Seq(S)
  PROVE  IsPrefix(s, s \o r)
<1>1. Len(s) \in Nat /\ s \o r \in Seq(S) /\ Len(s \o r) = Len(s) + Len(r) /\ Len(r) \in Nat
  OBVIOUS
<1>2. SubSeq(s \o r, 1, Len(s)) = SubSeq(s, 1, Len(s))
  <2>1. 1 \in Nat \ {0}
    OBVIOUS
  <2> QED
    BY <1>1, <2>1, ConcatParts
<1> QED
  BY <1>1, <1>2 DEF IsPrefix

(* A sequence is its first n elements and the rest.                        *)
LEMMA SplitAt ==
  ASSUME NEW S, NEW s \in Seq(S), NEW n \in 0 .. Len(s)
  PROVE  /\ SubSeq(s, 1, n) \in Seq(S) /\ SubSeq(s, n + 1, Len(s)) \in Seq(S)
         /\ s = SubSeq(s, 1, n) \o SubSeq(s, n + 1, Len(s))
<1>1. n \in Nat /\ Len(s) \in Nat /\ n <= Len(s)
  OBVIOUS
<1>2. SubSeq(s, 1, n) \in Seq(S) /\ SubSeq(s, n + 1, Len(s)) \in Seq(S)
  BY <1>1, SubSeqProperties
<1>3. SubSeq(s, 1, n) \o SubSeq(s, n + 1, Len(s)) = SubSeq(s, 1, Len(s))
  <2>1. 1 \in 1 .. Len(s) + 1 /\ n \in 1 - 1 .. Len(s) /\ Len(s) \in n .. Len(s)
    BY <1>1
  <2> QED
    BY <1>1, <2>1, ConcatAdjacentSubSeq
<1> QED
  BY <1>2, <1>3, SubSeqFull
=============================================================================
