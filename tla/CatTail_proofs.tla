--------------------------- MODULE CatTail_proofs ---------------------------
(***************************************************************************)
(* cat and tail copy.  Part one is what is proved of CatRaw for any        *)
(* operands, any sizes of the inputs and of the buffer, and any short      *)
(* reads and writes; part two, of forward() in MCTail for any number of    *)
(* files, writes, truncations and renames; part three, of what tail shows  *)
(* first in TailCommand for any file, window and block.                    *)
(***************************************************************************)
EXTENDS CatRaw, MCTail, MCTailCommand, SequenceFacts, FiniteSetTheorems

-----------------------------------------------------------------------------
(* Part one: cat *)

CatBytes == [input : Inputs \cup {Printed}, k : Nat]

(* What befalls an input. *)
Fates == {"fine", "missing", "irregular", "broken"}

(* raw_cat() is at work, on the last of the Taken names; those before are  *)
(* Finished. *)
Reading == at \in {"buffer", "read", "write"}
Taken ==
  IF operands = <<>> THEN (IF at \in {"main", "args"} THEN 0 ELSE 1)
                     ELSE Len(operands) - Len(argv)
Finished == IF Reading THEN Taken - 1 ELSE Taken

(* Whether stdin is among the first n names, and what they are worth. *)
ReadBefore(n) == \E j \in 1 .. n : Names[j] = "-"
Worth(n) == FlattenSeq(SubSeq(Pieces, 1, n))

CatTypeOK ==
  /\ operands \in Seq(Inputs)
  /\ size \in [Inputs -> Nat] /\ fate \in [Inputs -> Fates] /\ fate["-"] \in {"fine", "broken"}
  /\ fflag \in BOOLEAN /\ lflag \in BOOLEAN /\ early \in Nat /\ late \in Nat
  /\ bsize \in Nat /\ room \in Nat
  /\ at \in {"main", "args", "buffer", "read", "write", "end", "done", "died"}
  /\ argv \in Seq(Inputs) /\ fd \in Inputs
  /\ offset \in [Inputs -> Nat] /\ buf \in Seq(CatBytes) /\ off \in Nat /\ nr \in Nat
  /\ out \in Seq(CatBytes) /\ rval \in {0, 1}

(* argv is what is left of the operands. *)
ArgvInv ==
  /\ Len(argv) <= Len(operands)
  /\ \A j \in 1 .. Len(argv) : argv[j] = operands[Len(operands) - Len(argv) + j]
  /\ at = "main" => argv = operands
  /\ at \in {"end", "done"} => argv = <<>>
  /\ at = "args" /\ operands # <<>> => argv # <<>>
  /\ at \in {"main", "args"} /\ operands = <<>> => fd = "-"

(* The name being read: its place, and that it is not left out. *)
NameInv == Reading => Taken >= 1 /\ fd = Names[Taken] /\ ~LeftOut(Taken)

(* Each input is read from its start, stdin from where it was left: at its *)
(* end, once it has been read. *)
OffsetInv ==
  /\ \A i \in Inputs : offset[i] <= size[i]
  /\ at # "died" /\ ~ReadBefore(Taken) => offset["-"] = 0
  /\ at # "died" /\ ReadBefore(Finished) => offset["-"] = size["-"]
  /\ at = "buffer" /\ ~Again(Taken) => offset[fd] = 0

(* What is in buf, and how much of it is written. *)
BufferInv ==
  at = "write" =>
    /\ nr > 0 /\ ~Again(Taken) /\ Len(buf) = off + nr /\ off + nr <= offset[fd]
    /\ \A i \in 1 .. off + nr :
         buf[i] = [input |-> fd, k |-> offset[fd] - (off + nr) + i]

(* How much of the name being read is written. *)
Given == IF Again(Taken) THEN 0
         ELSE IF at = "write" THEN offset[fd] - nr ELSE offset[fd]

OutInv ==
  /\ at \in {"main", "args", "end"} => out = Ahead \o Worth(Finished)
  /\ Reading => out = Ahead \o (Worth(Finished) \o SubSeq(Pieces[Taken], 1, Given))
  /\ TextAround

RvalInv ==
  at # "died" => rval = IF \E i \in 1 .. Finished : Fails(i) THEN 1 ELSE 0

RoomInv == (room > 0 => bsize <= room) /\ (at \in {"read", "write"} => room > 0)

IInv ==
  CatTypeOK /\ ArgvInv /\ NameInv /\ OffsetInv /\ BufferInv /\ OutInv /\ RvalInv /\ RoomInv

-----------------------------------------------------------------------------
(* The names and what they are worth: of which kind they are. *)
LEMMA PiecesType ==
  ASSUME CatTypeOK
  PROVE  /\ Names \in Seq(Inputs) /\ Len(Names) \in Nat \ {0}
         /\ \A operand \in Inputs : /\ Whole(operand) \in Seq(CatBytes) /\ Len(Whole(operand)) = size[operand]
                                 /\ \A k \in 1 .. size[operand] :
                                      Whole(operand)[k] = [input |-> operand, k |-> k]
         /\ Pieces \in Seq(Seq(CatBytes)) /\ Len(Pieces) = Len(Names)
         /\ \A i \in 1 .. Len(Names) :
              Pieces[i] = IF LeftOut(i) \/ Again(i) THEN <<>> ELSE Whole(Names[i])
<1>1. Names \in Seq(Inputs) /\ Len(Names) \in Nat \ {0}
  <2>1. CASE operands = <<>>
    <3>1. <<"-">> \in Seq(Inputs) /\ Len(<<"-">>) = 1
      BY CatAssumption
    <3> QED
      BY <2>1, <3>1 DEF Names
  <2>2. CASE operands # <<>>
    BY <2>2 DEF Names, CatTypeOK
  <2> QED
    BY <2>1, <2>2
<1>2. ASSUME NEW operand \in Inputs
      PROVE  /\ Whole(operand) \in Seq(CatBytes) /\ Len(Whole(operand)) = size[operand]
             /\ \A k \in 1 .. size[operand] : Whole(operand)[k] = [input |-> operand, k |-> k]
  <2>1. size[operand] \in Nat
    BY DEF CatTypeOK
  <2>2. \A k \in 1 .. size[operand] : [input |-> operand, k |-> k] \in CatBytes
    BY <2>1 DEF CatBytes
  <2> QED
    BY <2>1, <2>2, IsASeq DEF Whole
<1> DEFINE P(i) == IF LeftOut(i) \/ Again(i) THEN <<>> ELSE Whole(Names[i])
           n == Len(Names)
<1>3. \A i \in 1 .. n : P(i) \in Seq(CatBytes)
  <2> SUFFICES ASSUME NEW i \in 1 .. n PROVE P(i) \in Seq(CatBytes)
    OBVIOUS
  <2>1. Names[i] \in Inputs
    BY <1>1
  <2>2. <<>> \in Seq(CatBytes)
    OBVIOUS
  <2> QED
    BY <1>2, <2>1, <2>2
<1>4. Pieces = [i \in 1 .. n |-> P(i)]
  BY DEF Pieces
<1>5. n \in Nat
  BY <1>1
<1> HIDE DEF P, n
<1>6. Pieces \in Seq(Seq(CatBytes)) /\ Len(Pieces) = n /\ \A i \in 1 .. n : Pieces[i] = P(i)
  BY <1>3, <1>4, <1>5, IsASeq
<1> QED
  BY <1>1, <1>2, <1>6 DEF P, n

(* Each name adds its piece to what is before it. *)
LEMMA WorthSteps ==
  ASSUME CatTypeOK
  PROVE  /\ \A i \in 0 .. Len(Names) : Worth(i) \in Seq(CatBytes)
         /\ \A i \in 1 .. Len(Names) : Worth(i) = Worth(i - 1) \o Pieces[i]
         /\ Worth(0) = <<>> /\ Worth(Len(Names)) = All
<1>1. Pieces \in Seq(Seq(CatBytes)) /\ Len(Pieces) = Len(Names) /\ Len(Names) \in Nat
  BY PiecesType
<1>2. ASSUME NEW i \in 0 .. Len(Names)
      PROVE  SubSeq(Pieces, 1, i) \in Seq(Seq(CatBytes)) /\ Worth(i) \in Seq(CatBytes)
  <2>1. SubSeq(Pieces, 1, i) \in Seq(Seq(CatBytes))
    BY <1>1, SubSeqProperties
  <2> QED
    BY <2>1, FlattenType DEF Worth
<1>3. ASSUME NEW i \in 1 .. Len(Names)
      PROVE  Worth(i) = Worth(i - 1) \o Pieces[i]
  <2>1. i - 1 \in 0 .. Len(Pieces) /\ i - 1 < Len(Pieces) /\ (i - 1) + 1 = i
    BY <1>1
  <2>2. Pieces[i] \in Seq(CatBytes) /\ SubSeq(Pieces, 1, i) = Append(SubSeq(Pieces, 1, i - 1), Pieces[i])
    BY <1>1, <2>1, PrefixMore
  <2>3. SubSeq(Pieces, 1, i - 1) \in Seq(Seq(CatBytes))
    BY <1>1, <1>2, <2>1
  <2> QED
    BY <2>2, <2>3, FlattenAppend DEF Worth
<1>4. Worth(0) = <<>>
  <2>1. SubSeq(Pieces, 1, 0) = <<>>
    BY <1>1
  <2> QED
    BY <2>1, FlattenEmpty DEF Worth
<1>5. Worth(Len(Names)) = All
  BY <1>1, SubSeqFull DEF Worth, All
<1> QED
  BY <1>2, <1>3, <1>4, <1>5

(* Names, and the beginning of one more, begin the whole. *)
LEMMA PartsArePrefixes ==
  ASSUME CatTypeOK
  PROVE  /\ \A i \in 0 .. Len(Names) : IsPrefix(Worth(i), All)
         /\ \A i \in 1 .. Len(Names) : \A n \in 0 .. Len(Pieces[i]) :
              /\ Worth(i - 1) \o SubSeq(Pieces[i], 1, n) \in Seq(CatBytes)
              /\ IsPrefix(Worth(i - 1) \o SubSeq(Pieces[i], 1, n), All)
<1>1. /\ Pieces \in Seq(Seq(CatBytes)) /\ Len(Pieces) = Len(Names) /\ Len(Names) \in Nat
      /\ \A i \in 0 .. Len(Names) : Worth(i) \in Seq(CatBytes)
      /\ \A i \in 1 .. Len(Names) : Worth(i) = Worth(i - 1) \o Pieces[i]
  BY PiecesType, WorthSteps
<1>2. ASSUME NEW i \in 0 .. Len(Names)
      PROVE  \E r \in Seq(CatBytes) : All = Worth(i) \o r
  <2>1. Pieces \in Seq(Seq(CatBytes)) /\ i \in 0 .. Len(Pieces)
    BY <1>1
  <2> QED
    BY <2>1, FlattenSplit DEF All, Worth
<1>3. ASSUME NEW i \in 0 .. Len(Names)
      PROVE  IsPrefix(Worth(i), All)
  <2>1. PICK r \in Seq(CatBytes) : All = Worth(i) \o r
    BY <1>2
  <2> QED
    BY <1>1, <2>1, PrefixOfConcat
<1>4. ASSUME NEW i \in 1 .. Len(Names), NEW n \in 0 .. Len(Pieces[i])
      PROVE  /\ Worth(i - 1) \o SubSeq(Pieces[i], 1, n) \in Seq(CatBytes)
             /\ IsPrefix(Worth(i - 1) \o SubSeq(Pieces[i], 1, n), All)
  <2> DEFINE w == Worth(i - 1)
             p == Pieces[i]
             a == SubSeq(p, 1, n)
             b == SubSeq(p, n + 1, Len(p))
  <2>1. i - 1 \in 0 .. Len(Names) /\ i \in 0 .. Len(Names)
    BY <1>1
  <2>2. p \in Seq(CatBytes) /\ w \in Seq(CatBytes) /\ Worth(i) = w \o p /\ n \in 0 .. Len(p)
    <3>1. Pieces[i] \in Seq(CatBytes)
      BY <1>1, ElementOfSeq
    <3> QED
      BY <1>1, <2>1, <3>1
  <2>3. PICK r \in Seq(CatBytes) : All = Worth(i) \o r
    BY <1>2, <2>1
  <2>4. All = (w \o p) \o r
    BY <2>2, <2>3
  <2> HIDE DEF w, p
  <2>5. a \in Seq(CatBytes) /\ b \in Seq(CatBytes) /\ p = a \o b
    BY <2>2, SplitAt
  <2> HIDE DEF a, b
  <2>6. /\ (w \o (a \o b)) \o r = w \o ((a \o b) \o r)
        /\ (a \o b) \o r = a \o (b \o r)
        /\ w \o (a \o (b \o r)) = (w \o a) \o (b \o r)
        /\ w \o a \in Seq(CatBytes) /\ b \o r \in Seq(CatBytes)
    <3>1. a \o b \in Seq(CatBytes) /\ b \o r \in Seq(CatBytes) /\ w \o a \in Seq(CatBytes)
      BY <2>2, <2>5
    <3>2. \A x, y, z \in Seq(CatBytes) : (x \o y) \o z = x \o (y \o z)
      BY ConcatAssociative, SMTT(60)
    <3>3. (w \o (a \o b)) \o r = w \o ((a \o b) \o r)
      BY <2>2, <3>1, <3>2
    <3>4. (a \o b) \o r = a \o (b \o r)
      BY <2>5, <3>2
    <3>5. w \o (a \o (b \o r)) = (w \o a) \o (b \o r)
      BY <2>2, <2>5, <3>1, <3>2
    <3> QED
      BY <3>1, <3>3, <3>4, <3>5
  <2>7. All = (w \o a) \o (b \o r)
    BY <2>4, <2>5, <2>6
  <2>8. IsPrefix(w \o a, All)
    BY <2>6, <2>7, PrefixOfConcat
  <2> QED
    BY <2>6, <2>8 DEF w, p, a
<1> QED
  BY <1>3, <1>4

(* The text of main() is of bytes, and Held of late ones. *)
LEMMA TextType ==
  ASSUME CatTypeOK
  PROVE  Ahead \in Seq(CatBytes) /\ Held \in Seq(CatBytes) /\ Len(Held) = late
<1>1. ASSUME NEW from \in Nat, NEW n \in Nat
      PROVE  Text(from, n) \in Seq(CatBytes) /\ Len(Text(from, n)) = n
  <2>1. \A k \in 1 .. n : [input |-> Printed, k |-> from + k] \in CatBytes
    BY DEF CatBytes
  <2> QED
    BY <2>1, IsASeq DEF Text
<1> QED
  BY <1>1 DEF CatTypeOK, Ahead, Held

(* What begins the whole, behind the text that is out, is as it should be  *)
(* while stdio still holds the rest. *)
LEMMA BehindAhead ==
  ASSUME CatTypeOK, NEW body \in Seq(CatBytes), IsPrefix(body, All)
  PROVE  \E k \in 0 .. Len(All) :
           /\ Ahead \o body = Ahead \o SubSeq(All, 1, k) \o SubSeq(Held, 1, 0)
           /\ body = All => k = Len(All)
<1> DEFINE k == Len(body)
<1>1. All \in Seq(CatBytes)
  BY WorthSteps, PiecesType
<1>2. k \in 0 .. Len(All) /\ SubSeq(body, 1, k) = SubSeq(All, 1, k)
  BY <1>1, LenProperties DEF IsPrefix
<1>3. body = SubSeq(All, 1, k)
  BY <1>2, SubSeqFull
<1>4. Ahead \o body \in Seq(CatBytes) /\ SubSeq(Held, 1, 0) = <<>>
  BY TextType
<1>5. (Ahead \o body) \o <<>> = Ahead \o body
  BY <1>4
<1> HIDE DEF k
<1>6. Ahead \o body = Ahead \o SubSeq(All, 1, k) \o SubSeq(Held, 1, 0)
  BY <1>3, <1>4, <1>5
<1>7. body = All => k = Len(All)
  BY DEF k
<1> QED
  BY <1>2, <1>6, <1>7

-----------------------------------------------------------------------------
(* No step changes the operands and what is in the inputs. *)
LEMMA InputSame ==
  ASSUME UNCHANGED given
  PROVE  /\ Names' = Names /\ Pieces' = Pieces /\ All' = All
         /\ \A i : LeftOut(i)' = LeftOut(i) /\ Again(i)' = Again(i) /\ Fails(i)' = Fails(i)
         /\ \A n : ReadBefore(n)' = ReadBefore(n) /\ Worth(n)' = Worth(n)
         /\ Ahead' = Ahead /\ Held' = Held /\ late' = late
<1>1. UNCHANGED <<operands, size, fate, fflag, lflag, early, late>>
  BY DEF given
<1>2. Names' = Names
  BY <1>1 DEF Names
<1>3. ASSUME NEW i
      PROVE  LeftOut(i)' = LeftOut(i) /\ Again(i)' = Again(i) /\ Fails(i)' = Fails(i)
  BY <1>1, <1>2 DEF LeftOut, Again, Fails, Missing, Irregular
<1>4. Pieces' = Pieces
  BY <1>1, <1>2, <1>3 DEF Pieces, Whole
<1>5. All' = All
  BY <1>4 DEF All
<1>6. \A n : ReadBefore(n)' = ReadBefore(n) /\ Worth(n)' = Worth(n)
  BY <1>2, <1>4 DEF ReadBefore, Worth
<1>7. Ahead' = Ahead /\ Held' = Held
  BY <1>1 DEF Ahead, Held, Text
<1> QED
  BY <1>1, <1>2, <1>3, <1>4, <1>5, <1>6, <1>7

(* How many names are taken: never more than there are, all at the end, *)
(* and while raw_args() looks at a word that word is the next. *)
LEMMA TakenFacts ==
  ASSUME CatTypeOK, ArgvInv
  PROVE  /\ at # "died" => Taken \in 0 .. Len(Names)
         /\ Taken \in Int /\ Finished \in Int
         /\ at \in {"end", "done"} => Taken = Len(Names)
         /\ argv # <<>> => /\ operands # <<>> /\ Taken + 1 \in 1 .. Len(Names)
                           /\ Head(argv) = Names[Taken + 1]
         /\ operands = <<>> => argv = <<>> /\ Names[1] = "-" /\ Len(Names) = 1
<1>1. /\ argv \in Seq(Inputs) /\ operands \in Seq(Inputs)
      /\ Len(argv) \in Nat /\ Len(operands) \in Nat /\ Len(argv) <= Len(operands)
  <2>1. argv \in Seq(Inputs) /\ operands \in Seq(Inputs)
    BY DEF CatTypeOK
  <2> QED
    BY <2>1 DEF ArgvInv
<1>2. CASE operands = <<>>
  <2>1. Len(operands) = 0
    BY <1>2
  <2>2. argv = <<>>
    BY <1>1, <2>1, EmptySeq
  <2>3. Names = <<"-">>
    BY <1>2 DEF Names
  <2>4. Names[1] = "-" /\ Len(Names) = 1
    BY <2>3
  <2>5. Taken = IF at \in {"main", "args"} THEN 0 ELSE 1
    BY <1>2 DEF Taken
  <2> QED
    BY <1>2, <2>2, <2>4, <2>5 DEF Finished
<1>3. CASE operands # <<>>
  <2>1. Names = operands /\ Taken = Len(operands) - Len(argv)
    BY <1>3 DEF Names, Taken
  <2>2. at \in {"end", "done"} => Taken = Len(Names)
    BY <1>1, <2>1 DEF ArgvInv
  <2>3. argv # <<>> => Taken + 1 \in 1 .. Len(Names) /\ Head(argv) = Names[Taken + 1]
    <3> SUFFICES ASSUME argv # <<>>
                 PROVE  Taken + 1 \in 1 .. Len(Names) /\ Head(argv) = Names[Taken + 1]
      OBVIOUS
    <3>1. 1 \in 1 .. Len(argv) /\ Head(argv) = argv[1]
      BY <1>1
    <3>2. argv[1] = operands[(Len(operands) - Len(argv)) + 1]
      BY <3>1 DEF ArgvInv
    <3> QED
      BY <1>1, <2>1, <3>1, <3>2
  <2> QED
    BY <1>1, <1>3, <2>1, <2>2, <2>3 DEF Finished
<1> QED
  BY <1>2, <1>3

(* Taking the first of what is left. *)
LEMMA TakeArgv ==
  ASSUME CatTypeOK, ArgvInv, argv # <<>>, argv' = Tail(argv), UNCHANGED operands
  PROVE  /\ Len(argv)' = Len(argv) - 1 /\ Len(argv)' <= Len(operands)'
         /\ argv' \in Seq(Inputs) /\ Len(argv) \in Nat /\ Len(operands) \in Nat
         /\ \A j \in 1 .. Len(argv)' :
              argv'[j] = operands'[Len(operands)' - Len(argv)' + j]
<1>1. /\ argv \in Seq(Inputs) /\ operands \in Seq(Inputs)
      /\ Len(argv) \in Nat /\ Len(operands) \in Nat /\ Len(argv) <= Len(operands)
      /\ \A j \in 1 .. Len(argv) : argv[j] = operands[Len(operands) - Len(argv) + j]
  <2>1. argv \in Seq(Inputs) /\ operands \in Seq(Inputs)
    BY DEF CatTypeOK
  <2>2. Len(argv) \in Nat /\ Len(operands) \in Nat
    BY <2>1
  <2> QED
    BY <2>1, <2>2 DEF ArgvInv
<1>2. /\ Len(Tail(argv)) = Len(argv) - 1 /\ Tail(argv) \in Seq(Inputs)
      /\ \A j \in 1 .. Len(argv) - 1 : Tail(argv)[j] = argv[j + 1]
  BY <1>1, HeadTailProperties
<1>3. ASSUME NEW j \in 1 .. Len(argv) - 1
      PROVE  Tail(argv)[j] = operands[Len(operands) - (Len(argv) - 1) + j]
  <2>1. j + 1 \in 1 .. Len(argv)
    BY <1>1
  <2>2. argv[j + 1] = operands[Len(operands) - Len(argv) + (j + 1)]
    BY <1>1, <2>1
  <2>3. Len(operands) - Len(argv) + (j + 1) = Len(operands) - (Len(argv) - 1) + j
    BY <1>1
  <2> QED
    BY <1>2, <2>2, <2>3
<1> QED
  BY <1>1, <1>2, <1>3

-----------------------------------------------------------------------------
(* The invariant holds at the start. *)
LEMMA InitInv == Init => IInv
<1> SUFFICES ASSUME Init PROVE IInv
  OBVIOUS
<1>1. operands \in Seq(Inputs)
  BY DEF Init, SeqOf
<1>2. CatTypeOK
  <2>1. <<>> \in Seq(CatBytes) /\ Sizes \subseteq Nat /\ 0 .. MaxSize \subseteq Nat
    BY CatAssumption
  <2> QED
    <3>1. Ahead \in Seq(CatBytes) /\ early \in Nat /\ late \in Nat
      <4>1. early \in Nat /\ late \in Nat
        BY CatAssumption DEF Init
      <4>2. \A j \in 1 .. early : [input |-> Printed, k |-> 0 + j] \in CatBytes
        BY <4>1 DEF CatBytes
      <4> QED
        BY <4>1, <4>2, IsASeq DEF Ahead, Text
    <3> QED
      BY <1>1, <2>1, <3>1, CatAssumption DEF Init, CatTypeOK, Fates
<1>3. ArgvInv
  BY <1>1 DEF Init, ArgvInv
<1>4. Taken = 0 /\ Finished = 0 /\ ~Reading
  BY <1>1 DEF Init, Taken, Finished, Reading
<1>5. NameInv /\ BufferInv /\ RoomInv
  BY <1>4 DEF Init, NameInv, BufferInv, RoomInv
<1>6. OffsetInv
  <2>1. ~ReadBefore(Taken) /\ ~ReadBefore(Finished)
    BY <1>4 DEF ReadBefore
  <2>2. \A k \in Inputs : offset[k] = 0 /\ size[k] \in Nat
    BY <1>2 DEF Init, CatTypeOK
  <2> QED
    BY <2>1, <2>2, CatAssumption DEF Init, OffsetInv
<1>7. OutInv
  <2>1. Worth(0) = <<>> /\ IsPrefix(Worth(0), All)
    BY <1>2, PiecesType, WorthSteps, PartsArePrefixes
  <2>2. <<>> \in Seq(CatBytes) /\ IsPrefix(<<>>, All) /\ Ahead \o <<>> = Ahead
    BY <1>2, <2>1, TextType
  <2>3. PICK k \in 0 .. Len(All) : Ahead \o <<>> = Ahead \o SubSeq(All, 1, k) \o SubSeq(Held, 1, 0)
    BY <1>2, <2>2, BehindAhead
  <2>4. at = "main" /\ out = Ahead /\ 0 \in 0 .. late
    BY <1>2 DEF Init, CatTypeOK
  <2>5. TextAround
    BY <2>2, <2>3, <2>4 DEF TextAround, Exiting
  <2> QED
    BY <1>4, <2>1, <2>2, <2>4, <2>5 DEF OutInv
<1>8. RvalInv
  BY <1>4 DEF Init, RvalInv
<1> QED
  BY <1>2, <1>3, <1>5, <1>6, <1>7, <1>8 DEF IInv

(* What exit() or fclose() has stdio write is of bytes. *)
LEMMA HeldType ==
  ASSUME CatTypeOK
  PROVE  out \o Held \in Seq(CatBytes) /\ \A n \in 0 .. late : out \o SubSeq(Held, 1, n) \in Seq(CatBytes)
<1>1. out \in Seq(CatBytes) /\ Held \in Seq(CatBytes) /\ Len(Held) = late
  BY TextType DEF CatTypeOK
<1>2. ASSUME NEW n \in 0 .. late PROVE SubSeq(Held, 1, n) \in Seq(CatBytes)
  BY <1>1, SplitAt
<1> QED
  BY <1>1, <1>2

(* Every step keeps the types. *)
LEMMA TypeStep ==
  ASSUME IInv, [Next]_vars
  PROVE  CatTypeOK'
<1>1. CatTypeOK
  BY DEF IInv
<1>12. Die => out' \in Seq(CatBytes) /\ at' = "died" /\ rval' = 1
  BY <1>1, HeldType DEF Die
<1>2. CASE UNCHANGED vars
  BY <1>1, <1>2 DEF CatTypeOK, vars, given
<1>3. CASE Lock
  BY <1>1, <1>3, <1>12 DEF CatTypeOK, Lock, given
<1>4. CASE Open
  <2>1. Head(argv) \in Inputs /\ Tail(argv) \in Seq(Inputs)
    BY <1>1, <1>4 DEF Open, CatTypeOK
  <2>2. offset' \in [Inputs -> Nat]
    BY <1>1, <1>4, <2>1 DEF Open, CatTypeOK
  <2> QED
    BY <1>1, <1>4, <2>1, <2>2 DEF CatTypeOK, Open, given
<1>5. CASE Skip
  <2>1. Tail(argv) \in Seq(Inputs) /\ After \in {"args", "end"}
    BY <1>1, <1>5 DEF Skip, CatTypeOK, After
  <2> QED
    BY <1>1, <1>5, <2>1 DEF CatTypeOK, Skip, given
<1>6. CASE OpenStdin
  BY <1>1, <1>6 DEF CatTypeOK, OpenStdin, given
<1>7. CASE MakeBuffer
  <2>1. bsize' \in Nat /\ room' \in Nat
    BY <1>1, <1>7, CatAssumption DEF CatTypeOK, MakeBuffer
  <2> QED
    BY <1>1, <1>7, <2>1 DEF CatTypeOK, MakeBuffer, given
<1>8. CASE ReadSome
  <2>1. PICK n \in 1 .. size[fd] - offset[fd] :
          /\ buf' = [j \in 1 .. n |-> [input |-> fd, k |-> offset[fd] + j]]
          /\ offset' = [offset EXCEPT ![fd] = @ + n]
          /\ nr' = n
    BY <1>8 DEF ReadSome
  <2>2. offset[fd] \in Nat /\ fd \in Inputs /\ size[fd] \in Nat
    BY <1>1 DEF CatTypeOK
  <2>3. n \in Nat
    BY <2>2
  <2>4. \A j \in 1 .. n : [input |-> fd, k |-> offset[fd] + j] \in CatBytes
    BY <2>2, <2>3 DEF CatBytes
  <2>5. buf' \in Seq(CatBytes)
    BY <2>1, <2>3, <2>4, IsASeq
  <2>6. offset' \in [Inputs -> Nat] /\ nr' \in Nat
    BY <1>1, <2>1, <2>2, <2>3 DEF CatTypeOK
  <2> QED
    BY <1>1, <1>8, <2>5, <2>6 DEF CatTypeOK, ReadSome, given
<1>9. CASE ReadEnd
  BY <1>1, <1>9 DEF CatTypeOK, ReadEnd, given
<1>10. CASE Write
  <2>1. CASE Die
    <3>1. UNCHANGED <<given, bsize, room, argv, fd, offset, buf>>
      BY <1>10 DEF Write
    <3>2. UNCHANGED <<nr, off>>
      BY <1>1, <1>10, <1>12, <2>1 DEF Write
    <3> QED
      BY <1>1, <1>12, <2>1, <3>1, <3>2 DEF CatTypeOK, given
  <2>2. CASE ~Die
    <3>1. PICK nw \in 1 .. nr :
            /\ out' = out \o SubSeq(buf, off + 1, off + nw)
            /\ nr' = nr - nw /\ off' = off + nw
            /\ at' = (IF nr' = 0 THEN "read" ELSE "write") /\ UNCHANGED rval
      BY <1>10, <2>2 DEF Write
    <3>2. nr \in Nat /\ off \in Nat /\ buf \in Seq(CatBytes) /\ Len(buf) = off + nr
      BY <1>1, <1>10 DEF CatTypeOK, IInv, BufferInv, Write
    <3>3. SubSeq(buf, off + 1, off + nw) \in Seq(CatBytes)
      BY <3>1, <3>2, SubSeqProperties
    <3>4. out' \in Seq(CatBytes) /\ nr' \in Nat /\ off' \in Nat
      BY <1>1, <3>1, <3>2, <3>3 DEF CatTypeOK
    <3> QED
      BY <1>1, <1>10, <3>1, <3>4 DEF CatTypeOK, Write, given
  <2> QED
    BY <2>1, <2>2
<1>11. CASE Close
  BY <1>1, <1>11, <1>12, HeldType DEF CatTypeOK, Close, given
<1>13. CASE Exited
  BY <1>1, <1>13 DEF CatTypeOK, Exited, vars, given
<1> QED
  BY <1>2, <1>3, <1>4, <1>5, <1>6, <1>7, <1>8, <1>9, <1>10, <1>11, <1>13 DEF Next

-----------------------------------------------------------------------------
(* err(): what stdio held is behind what was written, or a part of it.     *)
LEMMA DieKeeps ==
  ASSUME IInv, CatTypeOK', Die, ~Exiting, UNCHANGED <<given, bsize, room, argv, offset>>
  PROVE  IInv'
<1>1. /\ UNCHANGED <<operands, size, argv>>
      /\ All' = All /\ Ahead' = Ahead /\ Held' = Held /\ late' = late
  BY InputSame DEF given
<1>2. at' = "died"
  BY DEF Die
<1>3. ArgvInv'
  BY <1>1, <1>2 DEF IInv, ArgvInv
<1>4. OffsetInv'
  BY <1>1, <1>2 DEF IInv, OffsetInv
<1>5. TextAround'
  <2>1. PICK k \in 0 .. Len(All) : out = Ahead \o SubSeq(All, 1, k) \o SubSeq(Held, 1, 0)
    BY DEF IInv, OutInv, TextAround
  <2>2. PICK n \in 0 .. late : out' = out \o SubSeq(Held, 1, n)
    BY DEF Die
  <2> DEFINE front == Ahead \o SubSeq(All, 1, k)
  <2>3. front \in Seq(CatBytes) /\ SubSeq(Held, 1, 0) = <<>>
    <3>1. All \in Seq(CatBytes) /\ Ahead \in Seq(CatBytes)
      BY WorthSteps, PiecesType, TextType DEF IInv
    <3>2. SubSeq(All, 1, k) \in Seq(CatBytes)
      BY <3>1, SplitAt
    <3> QED
      BY <3>1, <3>2, TextType DEF IInv
  <2>4. out = front
    <3>1. out = front \o <<>>
      BY <2>1, <2>3
    <3> HIDE DEF front
    <3> QED
      BY <2>3, <3>1
  <2>5. out' = Ahead' \o SubSeq(All', 1, k) \o SubSeq(Held', 1, n)
    BY <1>1, <2>2, <2>4
  <2>6. k \in 0 .. Len(All') /\ n \in 0 .. late' /\ Exiting' /\ at' \notin {"end", "done"}
    BY <1>1, <1>2 DEF Exiting
  <2> QED
    BY <2>5, <2>6, <1>2 DEF TextAround
<1> QED
  BY <1>1, <1>2, <1>3, <1>4, <1>5 DEF IInv, NameInv, BufferInv, OutInv, RvalInv, RoomInv, Reading

(* A step that leaves stdout alone, and goes neither to fclose() nor out.  *)
LEMMA NothingOut ==
  ASSUME IInv, UNCHANGED <<given, out>>, ~Exiting, ~Exiting', at' # "end"
  PROVE  TextAround'
<1>1. All' = All /\ Ahead' = Ahead /\ Held' = Held /\ late' = late
  BY InputSame
<1>2. PICK k \in 0 .. Len(All), n \in 0 .. late :
        out = Ahead \o SubSeq(All, 1, k) \o SubSeq(Held, 1, n) /\ n = 0
  BY DEF IInv, OutInv, TextAround
<1>3. at' \notin {"end", "done"} /\ at' # "done"
  BY DEF Exiting
<1> QED
  BY <1>1, <1>2, <1>3 DEF TextAround

(* The lock of stdout. *)
LEMMA LockKeeps ==
  ASSUME IInv, CatTypeOK', Lock
  PROVE  IInv'
<1>1. CASE at' = "died"
  BY <1>1, DieKeeps DEF Lock, Exiting
<1>2. CASE at' # "died"
  <2>1. /\ at = "main" /\ at' = "args"
        /\ UNCHANGED <<given, operands, size, bsize, room, argv, fd, offset, out, rval>>
    BY <1>2 DEF Lock, Die, given
  <2>2. ~Reading /\ ~Reading' /\ Taken' = Taken /\ Finished = Taken /\ Finished' = Taken
    BY <2>1 DEF Reading, Taken, Finished
  <2>3. ArgvInv'
    BY <2>1 DEF IInv, ArgvInv
  <2>4. OffsetInv'
    <3>1. ReadBefore(Taken)' <=> ReadBefore(Taken)
      BY <2>1, <2>2 DEF ReadBefore, Names
    <3>2. ReadBefore(Finished)' <=> ReadBefore(Finished)
      BY <2>1, <2>2 DEF ReadBefore, Names
    <3> QED
      BY <2>1, <3>1, <3>2 DEF IInv, OffsetInv
  <2>5. OutInv'
    <3>1. Worth(Finished)' = Worth(Finished) /\ Ahead' = Ahead
      BY <2>1, <2>2, InputSame DEF Worth
    <3>2. TextAround'
      BY <2>1, NothingOut DEF Exiting
    <3> QED
      BY <2>1, <2>2, <3>1, <3>2 DEF IInv, OutInv
  <2>6. RvalInv'
    <3>1. \A j : Fails(j)' = Fails(j)
      BY <2>1, InputSame
    <3> QED
      BY <2>1, <2>2, <3>1 DEF IInv, RvalInv
  <2> QED
    BY <2>1, <2>2, <2>3, <2>4, <2>5, <2>6 DEF IInv, NameInv, BufferInv, RoomInv
<1> QED
  BY <1>1, <1>2

(* raw_args() takes the next name, t, or stdin without one, and calls      *)
(* raw_cat(): nothing of it is written. *)
LEMMA NextName ==
  ASSUME IInv, CatTypeOK', ArgvInv', at = "args", at' = "buffer", NEW t \in 1 .. Len(Names),
         Taken = t - 1, Taken' = t, ~LeftOut(t), fd' = Names[t],
         offset' = (IF fd' = "-" THEN offset ELSE [offset EXCEPT ![fd'] = 0]),
         UNCHANGED <<given, bsize, room, out, rval>>
  PROVE  IInv'
<1>1. /\ ~Reading /\ Reading' /\ Finished = t - 1 /\ Finished' = t - 1
      /\ t - 1 \in 0 .. Len(Names) /\ Len(Names) \in Nat /\ t \in Nat
  BY PiecesType DEF Reading, Finished, IInv
<1>2. /\ Names' = Names /\ Pieces' = Pieces /\ All' = All
      /\ LeftOut(t)' = LeftOut(t) /\ Again(t)' = Again(t)
      /\ \A j : Fails(j)' = Fails(j)
      /\ UNCHANGED size
  BY InputSame DEF given
<1>3. NameInv'
  <2>1. LeftOut(Taken)' <=> LeftOut(t)'
    BY DEF LeftOut, Missing, Irregular
  <2> QED
    BY <1>1, <1>2, <2>1 DEF NameInv
<1>4. Again(Taken)' <=> Again(t)
  BY <1>2 DEF Again
<1>5. OffsetInv'
  <2>1. offset \in [Inputs -> Nat] /\ fd' \in Inputs /\ size \in [Inputs -> Nat]
    BY DEF IInv, CatTypeOK
  <2>2. ASSUME NEW k \in Inputs
        PROVE  /\ offset'[k] = IF k = fd' /\ fd' # "-" THEN 0 ELSE offset[k]
               /\ offset'[k] <= size'[k]
    BY <1>2, <2>1, <2>2 DEF IInv, OffsetInv
  <2>3. "-" \in Inputs
    BY CatAssumption
  <2>4. offset'["-"] = offset["-"]
    BY <2>2, <2>3
  <2>5. /\ ReadBefore(Finished)' <=> ReadBefore(t - 1)
        /\ ReadBefore(Taken)' <=> ReadBefore(t)
    BY <1>1, <1>2 DEF ReadBefore
  <2>6. ReadBefore(t - 1) => ReadBefore(t)
    BY <1>1 DEF ReadBefore
  <2>7. /\ ~ReadBefore(t - 1) => offset["-"] = 0
        /\ ReadBefore(t - 1) => offset["-"] = size["-"]
    BY <1>1 DEF IInv, OffsetInv
  <2>8. ~Again(t) /\ fd' = "-" => ~ReadBefore(t - 1)
    BY DEF Again, ReadBefore
  <2>9. ~Again(t) => offset'[fd'] = 0
    BY <2>1, <2>2, <2>7, <2>8
  <2> QED
    BY <1>2, <1>4, <2>2, <2>4, <2>5, <2>6, <2>7, <2>9 DEF OffsetInv
<1>6. OutInv'
  <2>1. out = Ahead \o Worth(t - 1) /\ Ahead' = Ahead
    BY <1>1, InputSame DEF IInv, OutInv
  <2>6. TextAround'
    BY NothingOut DEF Exiting
  <2>2. Worth(Finished)' = Worth(t - 1)
    BY <1>1, <1>2 DEF Worth
  <2>3. Given' = 0
    BY <1>4, <1>5 DEF Given, OffsetInv
  <2>4. Worth(t - 1) \in Seq(CatBytes) /\ Pieces[t] \in Seq(CatBytes)
    <3>1. Pieces \in Seq(Seq(CatBytes)) /\ Len(Pieces) = Len(Names)
      BY PiecesType DEF IInv
    <3> QED
      BY <1>1, <3>1, WorthSteps, ElementOfSeq DEF IInv
  <2>5. SubSeq(Pieces[t], 1, 0) = <<>> /\ Worth(t - 1) \o <<>> = Worth(t - 1)
    BY <2>4
  <2> QED
    BY <1>1, <1>2, <2>1, <2>2, <2>3, <2>5, <2>6 DEF OutInv
<1>7. RvalInv'
  BY <1>1, <1>2 DEF IInv, RvalInv
<1> QED
  BY <1>3, <1>5, <1>6, <1>7 DEF IInv, BufferInv, RoomInv

(* open() succeeds, or there is no operand. *)
LEMMA OpenKeeps ==
  ASSUME IInv, CatTypeOK', Open \/ OpenStdin
  PROVE  IInv'
<1>1. CatTypeOK /\ ArgvInv
  BY DEF IInv
<1>2. CASE Open
  <2>1. /\ at = "args" /\ argv # <<>> /\ ~Missing(Head(argv)) /\ ~Irregular(Head(argv))
        /\ fd' = Head(argv) /\ argv' = Tail(argv) /\ at' = "buffer"
        /\ offset' = (IF fd' = "-" THEN offset ELSE [offset EXCEPT ![fd'] = 0])
        /\ UNCHANGED <<given, bsize, room, out, rval>> /\ UNCHANGED operands
    BY <1>2 DEF Open, given
  <2>2. PICK t \in 1 .. Len(Names) : t = Taken + 1 /\ Head(argv) = Names[t] /\ operands # <<>>
    BY <1>1, <2>1, TakenFacts
  <2>3. Taken = t - 1 /\ Taken' = t
    <3>1. Len(argv)' = Len(argv) - 1 /\ Len(argv) \in Nat /\ Len(operands) \in Nat
      BY <1>1, <2>1, TakeArgv
    <3>2. Taken = Len(operands) - Len(argv) /\ Taken' = Len(operands) - Len(argv)'
      BY <2>1, <2>2 DEF Taken
    <3> QED
      BY <2>2, <3>1, <3>2
  <2>4. ArgvInv'
    BY <1>1, <2>1, <2>2, TakeArgv DEF ArgvInv
  <2>5. ~LeftOut(t)
    BY <2>1, <2>2 DEF LeftOut
  <2> QED
    BY <2>1, <2>2, <2>3, <2>4, <2>5, NextName
<1>3. CASE OpenStdin
  <2>1. /\ at = "args" /\ argv = <<>> /\ at' = "buffer"
        /\ UNCHANGED <<given, operands, bsize, room, argv, fd, offset, out, rval>>
    BY <1>3 DEF OpenStdin, given
  <2>2. operands = <<>> /\ fd = "-"
    BY <1>1, <2>1 DEF ArgvInv
  <2>3. Names[1] = "-" /\ Len(Names) = 1 /\ Taken = 1 - 1 /\ Taken' = 1
    BY <1>1, <2>1, <2>2, TakenFacts DEF Taken
  <2>4. ArgvInv'
    BY <1>1, <2>1 DEF ArgvInv
  <2>5. ~LeftOut(1) /\ 1 \in 1 .. Len(Names)
    BY <2>3 DEF LeftOut, Missing, Irregular
  <2>6. fd' = Names[1] /\ offset' = (IF fd' = "-" THEN offset ELSE [offset EXCEPT ![fd'] = 0])
    BY <2>1, <2>2, <2>3
  <2> QED
    BY <2>1, <2>3, <2>4, <2>5, <2>6, NextName
<1> QED
  BY <1>2, <1>3

(* A name is done with, t: left out, or read to its end; its piece is out, *)
(* and its failure in rval. *)
LEMMA NameDone ==
  ASSUME IInv, CatTypeOK', ArgvInv', ~Exiting, at' \in {"args", "end"},
         NEW t \in 1 .. Len(Names), Finished = t - 1, Taken' = t,
         out = Ahead \o Worth(t), rval' = (IF Fails(t) THEN 1 ELSE rval),
         ReadBefore(t) => offset["-"] = size["-"],
         UNCHANGED <<given, bsize, room, fd, offset, out>>
  PROVE  IInv'
<1>1. /\ ~Reading' /\ Finished' = t /\ t - 1 \in Nat /\ t \in Nat
      /\ t \in 0 .. Len(Names) /\ Len(Names) \in Nat
  BY PiecesType DEF Reading, Finished, IInv
<1>2. /\ Names' = Names /\ Pieces' = Pieces /\ All' = All
      /\ \A j : Fails(j)' = Fails(j)
      /\ UNCHANGED <<operands, size>> /\ at # "died"
      /\ Ahead' = Ahead /\ Held' = Held /\ late' = late
  BY InputSame DEF given, Exiting
<1>3. OffsetInv'
  <2>1. /\ ReadBefore(Taken)' <=> ReadBefore(t)
        /\ ReadBefore(Finished)' <=> ReadBefore(t)
    BY <1>1, <1>2 DEF ReadBefore
  <2>2. ~ReadBefore(t) => offset["-"] = 0
    <3>1. CASE Reading
      <4>1. Taken = t
        BY <1>1, <3>1, TakenFacts DEF Finished, IInv
      <4> QED
        BY <1>2, <4>1 DEF IInv, OffsetInv
    <3>2. CASE ~Reading
      <4>1. Taken = t - 1
        BY <3>2 DEF Finished
      <4>2. ReadBefore(t - 1) => ReadBefore(t)
        BY <1>1 DEF ReadBefore
      <4> QED
        BY <1>2, <4>1, <4>2 DEF IInv, OffsetInv
    <3> QED
      BY <3>1, <3>2
  <2> QED
    BY <1>2, <2>1, <2>2 DEF IInv, OffsetInv
<1>4. OutInv'
  <2>1. Worth(Finished)' = Worth(t)
    BY <1>1, <1>2 DEF Worth
  <2>2. IsPrefix(Worth(t), All)
    BY <1>1, PartsArePrefixes DEF IInv
  <2>3. at' = "end" => Worth(t) = All
    <3>1. at' = "end" => t = Len(Names)
      BY <1>2, TakenFacts DEF ArgvInv, Taken, Names, IInv, CatTypeOK
    <3> QED
      BY <3>1, WorthSteps DEF IInv
  <2>4. Worth(t) \in Seq(CatBytes)
    BY <1>1, WorthSteps DEF IInv
  <2>5. PICK k \in 0 .. Len(All) :
          /\ Ahead \o Worth(t) = Ahead \o SubSeq(All, 1, k) \o SubSeq(Held, 1, 0)
          /\ Worth(t) = All => k = Len(All)
    BY <2>2, <2>4, BehindAhead DEF IInv
  <2>6. TextAround'
    <3>1. out' = Ahead' \o SubSeq(All', 1, k) \o SubSeq(Held', 1, 0)
      BY <1>2, <2>5
    <3>2. 0 \in 0 .. late' /\ k \in 0 .. Len(All') /\ at' # "done" /\ (at' = "end" => k = Len(All'))
      BY <1>2, <2>3, <2>5 DEF IInv, CatTypeOK
    <3> QED
      BY <3>1, <3>2 DEF TextAround
  <2> QED
    BY <1>1, <1>2, <2>1, <2>6 DEF OutInv
<1>5. RvalInv'
  <2>1. \A j \in 1 .. t : j = t \/ j \in 1 .. t - 1
    BY <1>1
  <2>2. \A j \in 1 .. t - 1 : j \in 1 .. t
    BY <1>1
  <2>3. t \in 1 .. t
    BY <1>1
  <2>4. (\E j \in 1 .. t : Fails(j)) <=> Fails(t) \/ \E j \in 1 .. t - 1 : Fails(j)
    BY <2>1, <2>2, <2>3
  <2>5. rval = IF \E j \in 1 .. t - 1 : Fails(j) THEN 1 ELSE 0
    BY <1>2 DEF IInv, RvalInv
  <2>6. rval' = IF \E j \in 1 .. t : Fails(j) THEN 1 ELSE 0
    BY <2>4, <2>5
  <2> QED
    BY <1>1, <1>2, <2>6 DEF RvalInv
<1> QED
  BY <1>1, <1>3, <1>4, <1>5 DEF IInv, NameInv, BufferInv, RoomInv

(* A name that is left out. *)
LEMMA SkipKeeps ==
  ASSUME IInv, CatTypeOK', Skip
  PROVE  IInv'
<1>1. CatTypeOK /\ ArgvInv
  BY DEF IInv
<1>2. /\ at = "args" /\ argv # <<>> /\ (Missing(Head(argv)) \/ Irregular(Head(argv)))
      /\ rval' = 1 /\ argv' = Tail(argv) /\ at' = After
      /\ UNCHANGED <<given, operands, size, bsize, room, fd, offset, out>>
  BY DEF Skip, given
<1>3. PICK t \in 1 .. Len(Names) : t = Taken + 1 /\ Head(argv) = Names[t] /\ operands # <<>>
  BY <1>1, <1>2, TakenFacts
<1>4. /\ Len(argv)' = Len(argv) - 1 /\ Len(argv) \in Nat /\ Len(operands) \in Nat
      /\ argv' \in Seq(Inputs)
  BY <1>1, <1>2, TakeArgv
<1>5. Taken' = t /\ Taken = t - 1
  <2>1. Taken = Len(operands) - Len(argv) /\ Taken' = Len(operands) - Len(argv)'
    BY <1>2, <1>3 DEF Taken
  <2> QED
    BY <1>3, <1>4, <2>1
<1>6. ArgvInv' /\ at' \in {"args", "end"}
  <2>1. /\ at' = "end" => argv' = <<>>
        /\ at' = "args" => argv' # <<>>
    <3>1. \A s \in Seq(Inputs) : Len(s) \in Nat /\ (s = <<>> <=> Len(s) = 0)
      BY EmptySeq
    <3> DEFINE s == argv'
    <3>2. s \in Seq(Inputs) /\ Len(s) = Len(argv) - 1
          /\ at' = IF Len(argv) > 1 THEN "args" ELSE "end"
      BY <1>2, <1>4 DEF After
    <3> HIDE DEF s
    <3>3. Len(s) \in Nat /\ (s = <<>> <=> Len(s) = 0)
      BY <3>1, <3>2
    <3>4. (at' = "end" => s = <<>>) /\ (at' = "args" => s # <<>>)
      BY <1>4, <3>2, <3>3
    <3> QED
      BY <3>4 DEF s
  <2> QED
    BY <1>1, <1>2, <1>3, <2>1, TakeArgv DEF ArgvInv, After
<1>7. ~Reading /\ Finished = t - 1 /\ ~Exiting
  BY <1>2, <1>5 DEF Reading, Finished, Exiting
<1>8. LeftOut(t) /\ Fails(t)
  BY <1>2, <1>3 DEF LeftOut, Fails
<1>9. out = Ahead \o Worth(t)
  <2>1. out = Ahead \o Worth(t - 1) /\ Worth(t - 1) \in Seq(CatBytes)
    <3>1. t - 1 \in 0 .. Len(Names)
      BY <1>1, PiecesType
    <3> QED
      BY <1>1, <1>2, <1>7, <3>1, WorthSteps DEF IInv, OutInv
  <2>2. Worth(t) = Worth(t - 1) \o Pieces[t] /\ Pieces[t] = <<>>
    BY <1>1, <1>8, PiecesType, WorthSteps
  <2>3. Worth(t - 1) \o <<>> = Worth(t - 1)
    BY <2>1
  <2> QED
    BY <2>1, <2>2, <2>3
<1>10. ReadBefore(t) => offset["-"] = size["-"]
  <2>1. Names[t] # "-"
    BY <1>2, <1>3 DEF Missing, Irregular
  <2>2. \A j \in 1 .. t : j = t \/ j \in 1 .. t - 1
    OBVIOUS
  <2>3. ReadBefore(t) => ReadBefore(Finished)
    BY <1>7, <2>1, <2>2 DEF ReadBefore
  <2> QED
    BY <1>2, <2>3 DEF IInv, OffsetInv
<1> QED
  BY <1>2, <1>5, <1>6, <1>7, <1>8, <1>9, <1>10, NameDone

(* While raw_cat() reads: of which name. *)
LEMMA ReadingFacts ==
  ASSUME IInv, Reading
  PROVE  /\ Taken \in 1 .. Len(Names) /\ Finished = Taken - 1
         /\ fd = Names[Taken] /\ fd \in Inputs /\ ~LeftOut(Taken)
         /\ offset[fd] \in Nat /\ size[fd] \in Nat /\ offset[fd] <= size[fd]
         /\ Again(Taken) => fd = "-" /\ offset[fd] = size[fd] /\ Pieces[Taken] = <<>>
         /\ ~Again(Taken) => Pieces[Taken] = Whole(fd)
<1>1. CatTypeOK /\ ArgvInv /\ at # "died"
  BY DEF IInv, Reading
<1>2. Taken \in 1 .. Len(Names) /\ Finished = Taken - 1 /\ fd = Names[Taken] /\ ~LeftOut(Taken)
  BY <1>1, TakenFacts DEF IInv, NameInv, Finished
<1>3. fd \in Inputs /\ offset[fd] \in Nat /\ size[fd] \in Nat /\ offset[fd] <= size[fd]
  BY <1>1 DEF CatTypeOK, IInv, OffsetInv
<1>4. Again(Taken) => fd = "-" /\ ReadBefore(Finished)
  BY <1>2 DEF Again, ReadBefore
<1>5. Pieces[Taken] = IF Again(Taken) THEN <<>> ELSE Whole(fd)
  BY <1>1, <1>2, PiecesType
<1> QED
  BY <1>1, <1>2, <1>3, <1>4, <1>5 DEF IInv, OffsetInv

(* The buffer is made. *)
LEMMA MakeBufferKeeps ==
  ASSUME IInv, CatTypeOK', MakeBuffer
  PROVE  IInv'
<1>1. /\ at = "buffer" /\ at' = "read"
      /\ UNCHANGED <<given, operands, size, argv, fd, offset, buf, off, nr, out, rval>>
  BY DEF MakeBuffer, given
<1>2. Reading /\ Reading' /\ Taken' = Taken /\ Finished' = Finished
  BY <1>1 DEF Reading, Taken, Finished
<1>3. /\ Names' = Names /\ Pieces' = Pieces /\ All' = All
      /\ \A j : Fails(j)' = Fails(j)
  BY <1>1, InputSame
<1>4. /\ LeftOut(Taken)' <=> LeftOut(Taken)
      /\ Again(Taken)' <=> Again(Taken)
      /\ ReadBefore(Taken)' <=> ReadBefore(Taken)
      /\ ReadBefore(Finished)' <=> ReadBefore(Finished)
      /\ Worth(Finished)' = Worth(Finished)
  BY <1>1, <1>2, <1>3 DEF LeftOut, Again, ReadBefore, Worth, Missing, Irregular, given
<1>5. ArgvInv' /\ NameInv' /\ OffsetInv' /\ BufferInv'
  BY <1>1, <1>2, <1>3, <1>4 DEF IInv, ArgvInv, NameInv, OffsetInv, BufferInv
<1>6. OutInv'
  <2>1. Given' = Given
    BY <1>1, <1>4 DEF Given
  <2>2. Ahead' = Ahead /\ TextAround'
    BY <1>1, InputSame, NothingOut DEF Exiting
  <2> QED
    BY <1>1, <1>2, <1>3, <1>4, <2>1, <2>2 DEF IInv, OutInv
<1>7. RvalInv'
  BY <1>1, <1>2, <1>3 DEF IInv, RvalInv
<1>8. RoomInv'
  <2>1. room \in Nat /\ BUFSIZ \in Nat \ {0} /\ (room > 0 => bsize <= room) /\ bsize \in Nat
    BY CatAssumption DEF IInv, CatTypeOK, RoomInv
  <2>2. CASE room > 0
    BY <1>1, <2>1, <2>2 DEF MakeBuffer, RoomInv
  <2>3. CASE ~(room > 0)
    <3>1. PICK blk \in Sizes :
            LET wanted == IF bsize = 0 /\ blk > BUFSIZ THEN blk ELSE bsize
            IN  \/ wanted > BUFSIZ /\ bsize' = wanted /\ room' = wanted
                \/ bsize' = BUFSIZ /\ room' = BUFSIZ
      BY <2>3 DEF MakeBuffer
    <3>2. blk \in Nat
      BY CatAssumption
    <3> QED
      BY <1>1, <2>1, <3>1, <3>2 DEF RoomInv
  <2> QED
    BY <2>2, <2>3
<1> QED
  BY <1>5, <1>6, <1>7, <1>8 DEF IInv

(* read() gives some bytes, which the buffer holds and nothing else has. *)
LEMMA ReadSomeKeeps ==
  ASSUME IInv, CatTypeOK', ReadSome
  PROVE  IInv'
<1>1. /\ at = "read" /\ at' = "write" /\ offset[fd] < size[fd] /\ off' = 0
      /\ UNCHANGED <<given, operands, size, argv, fd, bsize, room, out, rval>>
  BY DEF ReadSome, given
<1>2. PICK n \in 1 .. size[fd] - offset[fd] :
        /\ buf' = [j \in 1 .. n |-> [input |-> fd, k |-> offset[fd] + j]]
        /\ offset' = [offset EXCEPT ![fd] = @ + n]
        /\ nr' = n
  BY DEF ReadSome
<1>3. Reading /\ Reading' /\ Taken' = Taken /\ Finished' = Finished
  BY <1>1 DEF Reading, Taken, Finished
<1>4. /\ Taken \in 1 .. Len(Names) /\ Finished = Taken - 1
      /\ fd = Names[Taken] /\ fd \in Inputs
      /\ offset[fd] \in Nat /\ size[fd] \in Nat /\ offset[fd] <= size[fd]
      /\ ~Again(Taken)
  BY <1>1, <1>3, ReadingFacts
<1>5. /\ Names' = Names /\ Pieces' = Pieces /\ All' = All
      /\ \A j : Fails(j)' = Fails(j)
  BY <1>1, InputSame
<1>6. /\ LeftOut(Taken)' <=> LeftOut(Taken)
      /\ Again(Taken)' <=> Again(Taken)
      /\ ReadBefore(Taken)' <=> ReadBefore(Taken)
      /\ ReadBefore(Finished)' <=> ReadBefore(Finished)
      /\ Worth(Finished)' = Worth(Finished)
  BY <1>1, <1>3, <1>5 DEF LeftOut, Again, ReadBefore, Worth, Missing, Irregular, given
<1>7. /\ offset \in [Inputs -> Nat] /\ n \in Nat /\ n >= 1
      /\ \A j \in Inputs : offset'[j] = IF j = fd THEN offset[fd] + n ELSE offset[j]
      /\ offset'[fd] = offset[fd] + n /\ offset[fd] + n <= size[fd]
  <2>1. offset \in [Inputs -> Nat]
    BY DEF IInv, CatTypeOK
  <2> QED
    BY <1>2, <1>4, <2>1
<1>8. ArgvInv' /\ NameInv' /\ RoomInv'
  BY <1>1, <1>3, <1>5, <1>6 DEF IInv, ArgvInv, NameInv, RoomInv
<1>9. OffsetInv'
  <2>1. ReadBefore(Taken) \/ fd # "-"
    BY <1>4 DEF ReadBefore
  <2>2. ~ReadBefore(Finished) \/ fd # "-"
    BY <1>4 DEF ReadBefore, Again
  <2>3. "-" \in Inputs
    BY CatAssumption
  <2>4. fd # "-" => offset'["-"] = offset["-"]
    BY <1>7, <2>3
  <2>5. \A j \in Inputs : offset'[j] <= size'[j]
    BY <1>1, <1>7 DEF IInv, OffsetInv
  <2> QED
    BY <1>1, <1>6, <2>1, <2>2, <2>4, <2>5 DEF IInv, OffsetInv
<1>10. BufferInv'
  <2>1. Len(buf') = n /\ \A j \in 1 .. n : buf'[j] = [input |-> fd, k |-> offset[fd] + j]
    BY <1>2, <1>7
  <2>2. \A j \in 1 .. n : offset'[fd] - (off' + nr') + j = offset[fd] + j
    BY <1>1, <1>2, <1>4, <1>7
  <2>3. off' + nr' = n /\ nr' > 0 /\ off' + nr' <= offset'[fd']
    BY <1>1, <1>2, <1>4, <1>7
  <2> QED
    BY <1>1, <1>4, <1>6, <2>1, <2>2, <2>3 DEF BufferInv
<1>11. OutInv'
  <2>1. Given = offset[fd] /\ Given' = offset'[fd] - nr'
    BY <1>1, <1>4, <1>6 DEF Given
  <2>2. Given' = Given
    BY <1>2, <1>4, <1>7, <2>1
  <2>3. Ahead' = Ahead /\ TextAround'
    BY <1>1, InputSame, NothingOut DEF Exiting
  <2> QED
    BY <1>1, <1>3, <1>5, <1>6, <2>2, <2>3 DEF IInv, OutInv
<1>12. RvalInv'
  BY <1>1, <1>3, <1>5 DEF IInv, RvalInv
<1> QED
  BY <1>8, <1>9, <1>10, <1>11, <1>12 DEF IInv

(* read() is at the end, or fails there: all of the name is out. *)
LEMMA ReadEndKeeps ==
  ASSUME IInv, CatTypeOK', ReadEnd
  PROVE  IInv'
<1>1. /\ at = "read" /\ offset[fd] = size[fd]
      /\ rval' = (IF fate[fd] = "broken" THEN 1 ELSE rval)
      /\ at' = IF argv # <<>> THEN "args" ELSE "end"
      /\ UNCHANGED <<given, operands, bsize, room, argv, fd, offset, out>>
  BY DEF ReadEnd, given
<1>2. Reading /\ CatTypeOK /\ ArgvInv /\ ~Exiting
  BY <1>1 DEF Reading, IInv, Exiting
<1>3. PICK t \in 1 .. Len(Names) : t = Taken
  BY <1>2, ReadingFacts
<1>4. /\ Finished = t - 1 /\ fd = Names[t] /\ ~LeftOut(t)
      /\ size[fd] \in Nat /\ fd \in Inputs
  BY <1>2, <1>3, ReadingFacts
<1>5. /\ Again(t) => Pieces[t] = <<>>
      /\ ~Again(t) => Pieces[t] = Whole(fd)
  BY <1>2, <1>3, ReadingFacts
<1>6. Taken' = t
  <2>1. CASE operands = <<>>
    BY <1>1, <1>2, <1>3, <2>1, TakenFacts DEF Taken
  <2>2. CASE operands # <<>>
    BY <1>1, <1>3, <2>2 DEF Taken
  <2> QED
    BY <2>1, <2>2
<1>7. ArgvInv'
  <2>1. argv # <<>> => operands # <<>>
    BY <1>2, TakenFacts
  <2> QED
    BY <1>1, <1>2, <2>1 DEF ArgvInv
<1>8. out = Ahead \o Worth(t)
  <2>1. out = Ahead \o (Worth(t - 1) \o SubSeq(Pieces[t], 1, Given))
    BY <1>2, <1>3, <1>4 DEF IInv, OutInv
  <2>2. SubSeq(Pieces[t], 1, Given) = Pieces[t]
    <3>1. CASE Again(t)
      <4>1. Given = 0 /\ Pieces[t] = <<>>
        BY <1>3, <1>5, <3>1 DEF Given
      <4> QED
        BY <4>1
    <3>2. CASE ~Again(t)
      <4>1. Given = size[fd]
        BY <1>1, <1>3, <3>2 DEF Given
      <4>2. Whole(fd) \in Seq(CatBytes) /\ Len(Whole(fd)) = size[fd]
        BY <1>2, <1>4, PiecesType
      <4> QED
        BY <1>5, <3>2, <4>1, <4>2, SubSeqFull
    <3> QED
      BY <3>1, <3>2
  <2> QED
    BY <1>2, <2>1, <2>2, WorthSteps
<1>9. ReadBefore(t) => offset["-"] = size["-"]
  <2>1. \A j \in 1 .. t : j = t \/ j \in 1 .. t - 1
    OBVIOUS
  <2>2. ReadBefore(t) => Names[t] = "-" \/ ReadBefore(Finished)
    BY <1>4, <2>1 DEF ReadBefore
  <2> QED
    BY <1>1, <1>4, <2>2 DEF IInv, OffsetInv
<1>10. rval' = IF Fails(t) THEN 1 ELSE rval
  BY <1>1, <1>4 DEF Fails
<1> QED
  BY <1>1, <1>2, <1>4, <1>6, <1>7, <1>8, <1>9, <1>10, NameDone

(* Two sequences are equal over a stretch of the same length.              *)
LEMMA SameStretch ==
  ASSUME NEW S, NEW b \in Seq(S), NEW w \in Seq(S), NEW lo \in Nat, NEW hi \in Nat,
         NEW g \in Nat, NEW e \in Nat, lo >= 1, g >= 1, hi - lo = e - g, lo <= hi,
         hi <= Len(b), e <= Len(w),
         \A i \in lo .. hi : b[i] = w[i + (g - lo)]
  PROVE  SubSeq(b, lo, hi) = SubSeq(w, g, e)
<1> DEFINE x == SubSeq(b, lo, hi)
           y == SubSeq(w, g, e)
           n == hi - lo + 1
<1>1. Len(b) \in Nat /\ Len(w) \in Nat /\ n \in Nat /\ g <= e
      /\ hi - lo + 1 = n /\ e - g + 1 = n
  BY LenProperties
<1>2. x \in Seq(S) /\ Len(x) = n /\ \A j \in 1 .. n : x[j] = b[lo + j - 1]
  <2>1. \A i \in lo .. hi : b[i] \in S
    BY <1>1, ElementOfSeq
  <2> QED
    BY <1>1, <2>1, SubSeqProperties
<1>3. y \in Seq(S) /\ Len(y) = n /\ \A j \in 1 .. n : y[j] = w[g + j - 1]
  <2>1. \A i \in g .. e : w[i] \in S
    BY <1>1, ElementOfSeq
  <2> QED
    BY <1>1, <2>1, SubSeqProperties
<1> HIDE DEF x, y
<1>4. ASSUME NEW j \in 1 .. n PROVE x[j] = y[j]
  <2>1. lo + j - 1 \in lo .. hi /\ (lo + j - 1) + (g - lo) = g + j - 1
    BY <1>1
  <2>2. b[lo + j - 1] = w[(lo + j - 1) + (g - lo)]
    BY <2>1
  <2> QED
    BY <1>2, <1>3, <2>1, <2>2
<1> HIDE DEF n
<1>5. x = y
  BY <1>2, <1>3, <1>4, SeqEqual
<1> QED
  BY <1>5 DEF x, y

(* write() takes the next bytes of the name. *)
LEMMA WriteKeeps ==
  ASSUME IInv, CatTypeOK', Write
  PROVE  IInv'
<1>1. at = "write" /\ UNCHANGED <<given, operands, size, bsize, room, argv, fd, offset, buf>>
  BY DEF Write, given
<1>2. CASE Die
  BY <1>1, <1>2, DieKeeps DEF Exiting
<1>3. CASE ~Die
  <2>1. PICK nw \in 1 .. nr :
          /\ out' = out \o SubSeq(buf, off + 1, off + nw)
          /\ nr' = nr - nw /\ off' = off + nw
          /\ at' = (IF nr' = 0 THEN "read" ELSE "write") /\ UNCHANGED rval
    BY <1>3 DEF Write
  <2>2. /\ nr \in Nat /\ off \in Nat /\ nr > 0 /\ Len(buf) = off + nr /\ off + nr <= offset[fd]
        /\ \A j \in 1 .. off + nr : buf[j] = [input |-> fd, k |-> offset[fd] - (off + nr) + j]
        /\ buf \in Seq(CatBytes) /\ nw \in Nat /\ nw <= nr /\ ~Again(Taken)
    BY <1>1 DEF IInv, CatTypeOK, BufferInv
  <2>3. Reading /\ Reading' /\ Taken' = Taken /\ Finished' = Finished
    BY <1>1, <2>1 DEF Reading, Taken, Finished
  <2>4. /\ Taken \in 1 .. Len(Names) /\ Finished = Taken - 1 /\ fd \in Inputs
        /\ offset[fd] \in Nat /\ size[fd] \in Nat /\ offset[fd] <= size[fd]
        /\ Pieces[Taken] = Whole(fd)
    BY <2>2, <2>3, ReadingFacts
  <2>5. /\ Names' = Names /\ Pieces' = Pieces /\ All' = All
        /\ \A j : Fails(j)' = Fails(j)
    BY <1>1, InputSame
  <2>6. /\ LeftOut(Taken)' <=> LeftOut(Taken)
        /\ Again(Taken)' <=> Again(Taken)
        /\ ReadBefore(Taken)' <=> ReadBefore(Taken)
        /\ ReadBefore(Finished)' <=> ReadBefore(Finished)
        /\ Worth(Finished)' = Worth(Finished)
    BY <1>1, <2>3, <2>5 DEF LeftOut, Again, ReadBefore, Worth, Missing, Irregular, given
  <2>7. ArgvInv' /\ NameInv' /\ RoomInv' /\ OffsetInv'
    BY <1>1, <2>1, <2>3, <2>5, <2>6 DEF IInv, ArgvInv, NameInv, RoomInv, OffsetInv
  <2>11. /\ nr' = nr - nw /\ off' = off + nw
         /\ nr \in Nat /\ off \in Nat /\ nw \in Nat /\ nw <= nr /\ off + nr <= offset[fd]
         /\ offset[fd] \in Nat /\ size[fd] \in Nat /\ offset[fd] <= size[fd]
    BY <2>1, <2>2, <2>4
  <2>8. BufferInv'
    <3>1. off' + nr' = off + nr /\ nr' \in Nat
      BY <2>11
    <3>2. at' = "write" => nr' > 0
      BY <2>1, <3>1
    <3> QED
      BY <1>1, <2>2, <2>6, <3>1, <3>2 DEF BufferInv
  <2>9. OutInv'
    <3> DEFINE g == offset[fd] - nr
               whole == Whole(fd)
               w == Worth(Taken - 1)
    <3>1. Given = g /\ Given' = g + nw /\ g \in Nat /\ g + nw <= size[fd]
      <4>1. Given = offset[fd] - nr
        BY <1>1, <2>2 DEF Given
      <4>2. Given' = offset[fd] - nr'
        BY <1>1, <2>1, <2>2, <2>4, <2>6 DEF Given
      <4> QED
        BY <2>11, <4>1, <4>2
    <3>2. /\ whole \in Seq(CatBytes) /\ Len(whole) = size[fd]
          /\ \A k \in 1 .. size[fd] : whole[k] = [input |-> fd, k |-> k]
      BY <2>4, PiecesType DEF IInv
    <3>3. out = Ahead \o (w \o SubSeq(whole, 1, g)) /\ w \in Seq(CatBytes)
      <4>1. Taken - 1 \in 0 .. Len(Names)
        BY <2>4, PiecesType DEF IInv
      <4> QED
        BY <2>3, <2>4, <3>1, <4>1, WorthSteps DEF IInv, OutInv
    <3> HIDE DEF w, whole
    <3>4. SubSeq(buf, off + 1, off + nw) = SubSeq(whole, g + 1, g + nw)
      <4>1. ASSUME NEW j \in 1 .. nw PROVE buf[off + j] = whole[g + j]
        <5>1. off + j \in 1 .. off + nr /\ g + j \in 1 .. size[fd]
          BY <2>11, <3>1
        <5>2. offset[fd] - (off + nr) + (off + j) = g + j
          BY <2>11
        <5> QED
          BY <2>2, <3>2, <5>1, <5>2
      <4>2. off + nw <= Len(buf) /\ g + nw <= Len(whole) /\ g \in Nat
            /\ off \in Nat /\ nw \in Nat /\ buf \in Seq(CatBytes) /\ whole \in Seq(CatBytes)
        BY <2>2, <2>11, <3>1, <3>2
      <4> HIDE DEF g
      <4> DEFINE lo == off + 1
                 hi == off + nw
                 from == g + 1
                 to == g + nw
      <4>3. /\ lo \in Nat /\ hi \in Nat /\ from \in Nat /\ to \in Nat
            /\ lo >= 1 /\ from >= 1 /\ hi - lo = to - from /\ lo <= hi
            /\ hi <= Len(buf) /\ to <= Len(whole)
        BY <4>2
      <4>4. ASSUME NEW i \in lo .. hi PROVE buf[i] = whole[i + (from - lo)]
        <5>1. i - off \in 1 .. nw /\ off + (i - off) = i /\ g + (i - off) = i + (from - lo)
          BY <4>2
        <5>2. buf[off + (i - off)] = whole[g + (i - off)]
          BY <4>1, <5>1
        <5> QED
          BY <5>1, <5>2
      <4> HIDE DEF lo, hi, from, to
      <4>5. SubSeq(buf, lo, hi) = SubSeq(whole, from, to)
        BY <4>2, <4>3, <4>4, SameStretch
      <4> QED
        BY <4>5 DEF lo, hi, from, to
    <3> HIDE DEF g
    <3>5. SubSeq(whole, 1, g) \o SubSeq(whole, g + 1, g + nw) = SubSeq(whole, 1, g + nw)
      <4>1. 1 \in 1 .. Len(whole) + 1 /\ g \in 1 - 1 .. Len(whole) /\ g + nw \in g .. Len(whole)
        BY <2>2, <2>4, <3>1, <3>2
      <4> QED
        BY <3>2, <4>1, ConcatAdjacentSubSeq
    <3>6. out' = Ahead \o (w \o SubSeq(whole, 1, g + nw))
      <4> DEFINE a == SubSeq(whole, 1, g)
                 b == SubSeq(whole, g + 1, g + nw)
      <4>1. a \in Seq(CatBytes) /\ b \in Seq(CatBytes)
        BY <2>2, <2>4, <3>1, <3>2, SubSeqProperties
      <4>2. out' = (Ahead \o (w \o a)) \o b
        BY <2>1, <3>3, <3>4
      <4>3. a \o b = SubSeq(whole, 1, g + nw)
        BY <3>5
      <4> HIDE DEF a, b
      <4>4. (Ahead \o (w \o a)) \o b = Ahead \o (w \o (a \o b))
        <5>1. w \in Seq(CatBytes) /\ w \o a \in Seq(CatBytes) /\ Ahead \in Seq(CatBytes)
          BY <3>3, <4>1, TextType DEF IInv
        <5>2. (Ahead \o (w \o a)) \o b = Ahead \o ((w \o a) \o b)
          <6> DEFINE wa == w \o a
          <6>1. wa \in Seq(CatBytes) /\ b \in Seq(CatBytes) /\ Ahead \in Seq(CatBytes)
            BY <4>1, <5>1
          <6> HIDE DEF wa
          <6>2. (Ahead \o wa) \o b = Ahead \o (wa \o b)
            BY <6>1, ConcatAssociative
          <6> QED
            BY <6>2 DEF wa
        <5>3. (w \o a) \o b = w \o (a \o b)
          <6>1. w \in Seq(CatBytes)
            BY <3>3
          <6> QED
            BY <4>1, <6>1, ConcatAssociative
        <5> QED
          BY <5>2, <5>3
      <4> QED
        BY <4>2, <4>3, <4>4
    <3>9. Ahead' = Ahead /\ Held' = Held /\ late' = late
      BY <1>1, InputSame
    <3>7. out' = Ahead' \o (Worth(Finished)' \o SubSeq(Pieces'[Taken'], 1, Given'))
      <4>1. whole = Pieces'[Taken'] /\ w = Worth(Finished)'
        BY <2>3, <2>4, <2>5, <2>6 DEF whole, w
      <4> QED
        BY <3>1, <3>6, <3>9, <4>1
    <3>8. TextAround'
      <4> DEFINE body == w \o SubSeq(whole, 1, g + nw)
      <4>1. g + nw \in 0 .. Len(Pieces[Taken]) /\ body = Worth(Taken - 1) \o SubSeq(Pieces[Taken], 1, g + nw)
        BY <2>2, <2>4, <3>1, <3>2 DEF whole, w
      <4>2. body \in Seq(CatBytes) /\ IsPrefix(body, All)
        BY <2>4, <4>1, PartsArePrefixes DEF IInv
      <4> HIDE DEF body
      <4>3. PICK k \in 0 .. Len(All) : Ahead \o body = Ahead \o SubSeq(All, 1, k) \o SubSeq(Held, 1, 0)
        BY <4>2, BehindAhead DEF IInv
      <4>4. out' = Ahead' \o SubSeq(All', 1, k) \o SubSeq(Held', 1, 0) /\ k \in 0 .. Len(All')
        BY <2>5, <3>6, <3>9, <4>3 DEF body
      <4>5. 0 \in 0 .. late' /\ at' \notin {"end", "done"} /\ at' # "done"
        BY <2>1, <3>9 DEF IInv, CatTypeOK
      <4> QED
        BY <4>4, <4>5 DEF TextAround
    <3> QED
      BY <2>1, <2>3, <2>5, <3>7, <3>8 DEF OutInv
  <2>10. RvalInv'
    BY <1>1, <2>1, <2>3, <2>5 DEF IInv, RvalInv
  <2> QED
    BY <2>7, <2>8, <2>9, <2>10 DEF IInv
<1> QED
  BY <1>2, <1>3

(* fclose() adds what stdio held, or fails on the way. *)
LEMMA CloseKeeps ==
  ASSUME IInv, CatTypeOK', Close
  PROVE  IInv'
<1>1. at = "end" /\ UNCHANGED <<given, operands, size, bsize, room, argv, fd, offset, buf, off, nr>>
  BY DEF Close, given
<1>2. CASE Die
  BY <1>1, <1>2, DieKeeps DEF Exiting
<1>3. CASE ~Die
  <2>1. at' = "done" /\ out' = out \o Held /\ UNCHANGED rval
    BY <1>3 DEF Close
  <2>2. ~Reading /\ ~Reading' /\ Taken' = Taken /\ Finished = Taken /\ Finished' = Taken
    BY <1>1, <2>1 DEF Reading, Taken, Finished
  <2>3. /\ Names' = Names /\ All' = All /\ Ahead' = Ahead /\ Held' = Held /\ late' = late
        /\ \A j : Fails(j)' = Fails(j)
    BY <1>1, InputSame
  <2>4. ArgvInv'
    BY <1>1, <2>1 DEF IInv, ArgvInv
  <2>5. OffsetInv'
    <3>1. /\ ReadBefore(Taken)' <=> ReadBefore(Taken)
          /\ ReadBefore(Finished)' <=> ReadBefore(Finished)
      BY <2>2, <2>3 DEF ReadBefore
    <3> QED
      BY <1>1, <2>1, <3>1 DEF IInv, OffsetInv
  <2>6. RvalInv'
    BY <1>1, <2>1, <2>2, <2>3 DEF IInv, RvalInv
  <2>7. TextAround'
    <3> DEFINE a == Ahead \o All
    <3>1. a \in Seq(CatBytes) /\ All \in Seq(CatBytes) /\ Held \in Seq(CatBytes) /\ Len(Held) = late
      BY WorthSteps, PiecesType, TextType DEF IInv
    <3>2. Taken = Len(Names)
      BY <1>1, TakenFacts DEF IInv
    <3>3. out = a
      BY <1>1, <2>2, <3>2, WorthSteps DEF IInv, OutInv
    <3>4. SubSeq(All, 1, Len(All)) = All /\ SubSeq(Held, 1, late) = Held
      BY <3>1, SubSeqFull
    <3>5. out' = Ahead' \o SubSeq(All', 1, Len(All')) \o SubSeq(Held', 1, late')
      BY <2>1, <2>3, <3>3, <3>4
    <3>6. Len(All') \in 0 .. Len(All') /\ late' \in 0 .. late' /\ Exiting'
      BY <2>1, <2>3, <3>1, LenProperties DEF Exiting
    <3> QED
      BY <3>5, <3>6 DEF TextAround
  <2> QED
    BY <1>1, <2>1, <2>2, <2>4, <2>5, <2>6, <2>7 DEF IInv, NameInv, BufferInv, RoomInv, OutInv
<1> QED
  BY <1>2, <1>3

-----------------------------------------------------------------------------
(* Every step keeps the invariant. *)
LEMMA StepInv ==
  ASSUME IInv, [Next]_vars
  PROVE  IInv'
<1>1. CatTypeOK'
  BY TypeStep
<1>2. CASE UNCHANGED vars
  <2>1. /\ UNCHANGED <<given, operands, size, bsize, room, at, argv, fd, offset, buf, off,
                       nr, out, rval>>
    BY <1>2 DEF vars, given
  <2>2. UNCHANGED <<Taken, Finished, Reading>>
    BY <2>1 DEF Taken, Finished, Reading
  <2>3. /\ Names' = Names /\ Pieces' = Pieces /\ All' = All
        /\ \A j : Fails(j)' = Fails(j)
    BY <2>1, InputSame
  <2>4. /\ LeftOut(Taken)' <=> LeftOut(Taken)
        /\ Again(Taken)' <=> Again(Taken)
        /\ ReadBefore(Taken)' <=> ReadBefore(Taken)
        /\ ReadBefore(Finished)' <=> ReadBefore(Finished)
        /\ Worth(Finished)' = Worth(Finished)
    BY <2>1, <2>2, <2>3 DEF LeftOut, Again, ReadBefore, Worth, Missing, Irregular, given
  <2>5. Given' = Given
    BY <2>1, <2>4 DEF Given
  <2>6. ArgvInv' /\ NameInv' /\ OffsetInv' /\ BufferInv' /\ RoomInv'
    BY <2>1, <2>2, <2>3, <2>4 DEF IInv, ArgvInv, NameInv, OffsetInv, BufferInv, RoomInv
  <2>8. Ahead' = Ahead /\ Held' = Held /\ late' = late
    BY <2>1, InputSame
  <2>9. TextAround'
    BY <2>1, <2>3, <2>8 DEF IInv, OutInv, TextAround, Exiting
  <2>7. OutInv' /\ RvalInv'
    BY <2>1, <2>2, <2>3, <2>4, <2>5, <2>8, <2>9 DEF IInv, OutInv, RvalInv
  <2> QED
    BY <1>1, <2>6, <2>7 DEF IInv
<1> QED
  BY <1>1, <1>2, LockKeeps, OpenKeeps, SkipKeeps, MakeBufferKeeps, ReadSomeKeeps,
     ReadEndKeeps, WriteKeeps, CloseKeeps DEF Next, Exited

(* The invariant holds of every run. *)
THEOREM CatInvariant == Spec => []IInv
<1>1. IInv /\ [Next]_vars => IInv'
  BY StepInv
<1> QED
  BY InitInv, <1>1, PTL DEF Spec

(* What cat writes is, byte for byte and in order, what its operands hold, *)
(* for any operands and sizes, whatever read() gives and write() takes,    *)
(* between what stdio wrote of main()'s text before and what fclose() or   *)
(* err() had it write of the rest.  The operands are whole when fclose()   *)
(* is called, the text when it succeeds, and the status then tells whether *)
(* an operand was left out or broke off (cat.c:82 to 293). *)
THEOREM CatCopies == Spec => []CopiesInOrder
<1>1. IInv => CopiesInOrder
  <2> SUFFICES ASSUME IInv PROVE CopiesInOrder
    OBVIOUS
  <2>1. TextAround
    BY DEF IInv, OutInv
  <2>2. ASSUME at \in {"end", "done"}
        PROVE  rval = IF \E i \in DOMAIN Names : Fails(i) THEN 1 ELSE 0
    <3>1. Finished = Len(Names)
      BY <2>2, TakenFacts DEF IInv, Finished, Reading
    <3>2. DOMAIN Names = 1 .. Len(Names)
      BY PiecesType DEF IInv
    <3> QED
      BY <2>2, <3>1, <3>2 DEF IInv, RvalInv
  <2>3. at = "read" => bsize <= room
    BY DEF IInv, RoomInv
  <2> QED
    BY <2>1, <2>2, <2>3 DEF CopiesInOrder
<1> QED
  BY CatInvariant, <1>1, PTL

-----------------------------------------------------------------------------
(* Part two: tail -f and -F *)

(***************************************************************************)
(* The invariant of forward().  The name stands for the newest file, if    *)
(* for any, and tail has opened no newer one; what was shown is of files   *)
(* up to the open one and of the present or an earlier content of each.    *)
(* While freopen() never raced, sbp is the open file, and freopen() is     *)
(* reached for another.                                                    *)
(***************************************************************************)
Newest == name \in {NONE, files} /\ fp <= files
Behind == \A i \in DOMAIN shown : shown[i].file <= fp /\ shown[i].cut <= cuts[shown[i].file]
Opened == sbp = fp /\ (pc = "freopen" => statbuf # sbp)

(* Bytes of the open file's present content end at the stream's position:  *)
(* the file has not shrunk then.  The first bytes shown of a file that was *)
(* never truncated are read from its front.                                *)
Current(i) == shown[i].file = fp /\ shown[i].cut = cuts[fp]
Aligned ==
  /\ \A i \in DOMAIN shown :
       Current(i) => /\ pos <= sizes[fp] /\ pc # "seek"
                     /\ pos - shown[i].k = Len(shown) - i
  /\ pc = "seek" => pos > 0
  /\ shown # <<>> /\ shown[Len(shown)].file # fp /\ cuts[fp] = 0 => pos = 0

Pair(i, j) ==
  LET a == shown[i]
      b == shown[j]
  IN  /\ i < j => /\ a.file <= b.file
                  /\ a.file = b.file => a.cut <= b.cut
                  /\ a.file = b.file /\ a.cut = b.cut => b.k - a.k = j - i
      /\ j = i + 1 /\ a.file # b.file /\ b.cut = 0 => b.k = 1

Pairs == \A i, j \in DOMAIN shown : Pair(i, j)

FollowInv ==
  /\ TypeOK /\ Newest /\ Behind
  /\ ~raced => Opened /\ Aligned /\ Pairs

LEMMA FollowInvSuffices == FollowInv => ShownOnce
BY DEF FollowInv, Pairs, Pair, ShownOnce

(* What the types say, piece by piece.                                     *)
LEMMA FollowFacts ==
  ASSUME TypeOK
  PROVE  /\ MaxFiles \in Nat /\ MaxBytes \in Nat /\ MaxCuts \in Nat
         /\ files \in 1 .. MaxFiles /\ fp \in 1 .. MaxFiles
         /\ \A f \in 1 .. MaxFiles : sizes[f] \in 0 .. MaxBytes /\ cuts[f] \in 0 .. MaxCuts
         /\ sizes \in [1 .. MaxFiles -> 0 .. MaxBytes] /\ cuts \in [1 .. MaxFiles -> 0 .. MaxCuts]
         /\ pos \in 0 .. MaxBytes
         /\ shown \in Seq(Bytes) /\ Len(shown) \in Nat /\ DOMAIN shown = 1 .. Len(shown)
         /\ \A i \in DOMAIN shown :
              /\ shown[i].file \in 1 .. MaxFiles /\ shown[i].cut \in 0 .. MaxCuts
              /\ shown[i].k \in 1 .. MaxBytes
<1>1. /\ files \in 1 .. MaxFiles /\ fp \in 1 .. MaxFiles
      /\ sizes \in [1 .. MaxFiles -> 0 .. MaxBytes] /\ cuts \in [1 .. MaxFiles -> 0 .. MaxCuts]
      /\ pos \in 0 .. MaxBytes /\ shown \in Seq(Bytes)
  BY DEF TypeOK, Files
<1>2. MaxFiles \in Nat /\ MaxBytes \in Nat /\ MaxCuts \in Nat
  BY TailAssumption
<1>3. \A i \in DOMAIN shown : shown[i] \in Bytes
  BY <1>1
<1>4. \A b \in Bytes :
        b.file \in 1 .. MaxFiles /\ b.cut \in 0 .. MaxCuts /\ b.k \in 1 .. MaxBytes
  BY DEF Bytes, Files
<1>5. Len(shown) \in Nat /\ DOMAIN shown = 1 .. Len(shown)
  BY <1>1, LenProperties
<1> QED
  BY <1>1, <1>2, <1>3, <1>4, <1>5

(* The start of the loop: nothing was shown.                               *)
LEMMA FollowInit ==
  ASSUME MCInit
  PROVE  FollowInv
<1>1. /\ name = 1 /\ files = 1 /\ fp = 1 /\ sbp = 1 /\ shown = <<>> /\ pc = "read"
      /\ raced = FALSE
  BY DEF MCInit, TailInit
<1>2. 1 \in 1 .. MaxFiles /\ MaxBytes \in Nat /\ MaxCuts \in Nat /\ MaxMoves \in Nat
  BY TailAssumption
<1>3. sizes \in [1 .. MaxFiles -> 0 .. MaxBytes] /\ pos \in 0 .. MaxBytes
  <2>1. PICK n \in 0 .. MaxBytes : sizes = [f \in 1 .. MaxFiles |-> IF f = 1 THEN n ELSE 0]
    BY DEF MCInit, TailInit, Files
  <2>2. sizes[1] = n /\ pos \in 0 .. n
    BY <1>2, <2>1 DEF MCInit, TailInit
  <2> QED
    BY <1>2, <2>1, <2>2
<1>4. cuts \in [1 .. MaxFiles -> 0 .. MaxCuts]
  BY <1>2 DEF MCInit, TailInit, Files
<1>5. TypeOK
  <2>1. /\ moves = 0 /\ follow \in 0 .. 2 /\ isStdin \in BOOLEAN /\ kq \in BOOLEAN
        /\ action = "USE_SLEEP" /\ eof = FALSE /\ statbuf = 1 /\ armed = {}
        /\ renamed = FALSE
    BY DEF MCInit, TailInit
  <2>2. shown \in Seq(Bytes) /\ moves \in 0 .. MaxMoves
    BY <1>1, <1>2, <2>1
  <2>3. 1 \in Files
    BY <1>2 DEF Files
  <2> QED
    BY <1>1, <1>3, <1>4, <2>1, <2>2, <2>3 DEF TypeOK, Files
<1>6. DOMAIN shown = {} /\ ~(pc = "freopen") /\ ~(pc = "seek")
  BY <1>1
<1>7. Newest /\ Behind
  BY <1>1, <1>6 DEF Newest, Behind
<1>8. Opened /\ Aligned /\ Pairs
  BY <1>1, <1>6 DEF Opened, Aligned, Pairs
<1> QED
  BY <1>5, <1>7, <1>8 DEF FollowInv

(* Whether a step of the whole lets freopen() race.                        *)
LEMMA RaceKept ==
  ASSUME MCNext
  PROVE  ~raced' => ~raced /\ (pc = "freopen" => name = statbuf)
BY DEF MCNext

(* Steps that show nothing and do not move the stream: files grow, or are  *)
(* truncated, which makes another content of them.                         *)
LEMMA StillShown ==
  ASSUME FollowInv, TypeOK', Newest', raced \in BOOLEAN,
         ~raced' => ~raced, ~raced' => Opened',
         UNCHANGED <<fp, pos, shown>>,
         \A f \in 1 .. MaxFiles :
           cuts[f] <= cuts'[f] /\ (cuts'[f] = cuts[f] => sizes[f] <= sizes'[f]),
         pc' = "seek" => pc = "seek" \/ sizes[fp] < pos
  PROVE  FollowInv'
<1>1. /\ TypeOK /\ Newest /\ Behind
      /\ ~raced => Opened /\ Aligned /\ Pairs
  BY DEF FollowInv
<1>2. \A f \in 1 .. MaxFiles :
        /\ cuts[f] \in Nat /\ cuts'[f] \in Nat /\ sizes[f] \in Nat /\ sizes'[f] \in Nat
        /\ cuts[f] <= cuts'[f] /\ (cuts'[f] = cuts[f] => sizes[f] <= sizes'[f])
  <2>1. MaxFiles \in Nat /\ MaxBytes \in Nat /\ MaxCuts \in Nat
    BY TailAssumption
  <2>2. /\ sizes \in [1 .. MaxFiles -> 0 .. MaxBytes] /\ cuts \in [1 .. MaxFiles -> 0 .. MaxCuts]
        /\ sizes' \in [1 .. MaxFiles -> 0 .. MaxBytes] /\ cuts' \in [1 .. MaxFiles -> 0 .. MaxCuts]
    BY <1>1 DEF TypeOK, Files
  <2> QED
    BY <2>1, <2>2
<1>3. /\ fp \in 1 .. MaxFiles /\ pos \in Nat
      /\ Len(shown) \in Nat /\ DOMAIN shown = 1 .. Len(shown)
      /\ \A i \in DOMAIN shown :
           /\ shown[i].file \in 1 .. MaxFiles /\ shown[i].cut \in Nat
           /\ shown[i].file <= fp /\ shown[i].cut <= cuts[shown[i].file]
  BY <1>1, FollowFacts DEF Behind
<1>4. Behind'
  <2>1. ASSUME NEW i \in DOMAIN shown
        PROVE  shown[i].file <= fp /\ shown[i].cut <= cuts'[shown[i].file]
    <3>1. PICK f, c : f = shown[i].file /\ c = shown[i].cut
      OBVIOUS
    <3>2. f \in 1 .. MaxFiles /\ c \in Nat /\ f <= fp /\ c <= cuts[f]
      BY <1>3, <3>1
    <3>3. cuts[f] \in Nat /\ cuts'[f] \in Nat /\ cuts[f] <= cuts'[f]
      BY <1>2, <3>2
    <3>4. c <= cuts'[f]
      BY <3>2, <3>3
    <3> QED
      BY <3>1, <3>2, <3>4
  <2> QED
    BY <2>1 DEF Behind
<1>5. ASSUME ~raced' PROVE Aligned'
  <2>1. Aligned
    BY <1>1, <1>5
  <2>2. ASSUME NEW i \in DOMAIN shown, Current(i)'
        PROVE  /\ pos <= sizes'[fp] /\ pc' # "seek"
               /\ pos - shown[i].k = Len(shown) - i
    <3>1. shown[i].file = fp /\ shown[i].cut = cuts'[fp]
      BY <2>2 DEF Current
    <3>2. cuts[fp] = cuts'[fp]
      BY <1>2, <1>3, <3>1
    <3>3. Current(i)
      BY <3>1, <3>2 DEF Current
    <3>4. pos <= sizes[fp] /\ pc # "seek" /\ pos - shown[i].k = Len(shown) - i
      BY <2>1, <3>3 DEF Aligned
    <3> QED
      BY <1>2, <1>3, <3>2, <3>4
  <2>3. pc' = "seek" => pos > 0
    BY <1>2, <1>3, <2>1 DEF Aligned
  <2>4. shown # <<>> /\ shown[Len(shown)].file # fp /\ cuts'[fp] = 0 => pos = 0
    <3>1. cuts'[fp] = 0 => cuts[fp] = 0
      BY <1>2, <1>3
    <3> QED
      BY <2>1, <3>1 DEF Aligned
  <2> QED
    BY <2>2, <2>3, <2>4 DEF Aligned
<1>6. ASSUME ~raced' PROVE Pairs'
  BY <1>1, <1>6 DEF Pairs, Pair
<1> QED
  BY <1>4, <1>5, <1>6 DEF FollowInv

(* A step of the others: the disk, and what the events tell of it.         *)
LEMMA OthersKeep ==
  ASSUME FollowInv, Others, raced \in BOOLEAN, ~raced' => ~raced
  PROVE  FollowInv'
<1>1. /\ UNCHANGED <<pc, fp, pos, sbp, statbuf, shown>>
      /\ UNCHANGED <<follow, isStdin, action, kq, eof, armed>>
  BY DEF Others, file
<1>2. /\ name \in {NONE, files} /\ files \in 1 .. MaxFiles /\ fp \in 1 .. files
      /\ MaxFiles \in Nat /\ MaxMoves \in Nat /\ MaxBytes \in Nat /\ MaxCuts \in Nat
      /\ moves \in 0 .. MaxMoves /\ renamed \in BOOLEAN
      /\ sizes \in [1 .. MaxFiles -> 0 .. MaxBytes] /\ cuts \in [1 .. MaxFiles -> 0 .. MaxCuts]
  <2>1. TypeOK /\ Newest
    BY DEF FollowInv
  <2>2. moves \in 0 .. MaxMoves /\ renamed \in BOOLEAN /\ MaxMoves \in Nat
    BY <2>1, TailAssumption DEF TypeOK
  <2> QED
    BY <2>1, <2>2, FollowFacts DEF Newest
<1>3. /\ name' \in {NONE, files'} /\ files' \in 1 .. MaxFiles /\ files <= files'
      /\ moves' \in 0 .. MaxMoves /\ renamed' \in BOOLEAN
  <2>1. files <= files /\ name \in {NONE, files}
    BY <1>2
  <2>2. CASE \E f \in 1 .. files : WriteTo(f) \/ Truncate(f)
    <3>1. UNCHANGED <<name, files, moves, renamed>>
      BY <2>2 DEF WriteTo, Truncate
    <3> QED
      BY <1>2, <2>1, <3>1
  <2>3. CASE Rename
    BY <1>2, <2>3 DEF Rename
  <2>4. CASE Create
    BY <1>2, <2>4 DEF Create
  <2>5. CASE RenameBack
    BY <1>2, <2>5 DEF RenameBack
  <2> QED
    BY <2>2, <2>3, <2>4, <2>5 DEF Others
<1>4. /\ sizes' \in [1 .. MaxFiles -> 0 .. MaxBytes] /\ cuts' \in [1 .. MaxFiles -> 0 .. MaxCuts]
      /\ \A f \in 1 .. MaxFiles :
           cuts[f] <= cuts'[f] /\ (cuts'[f] = cuts[f] => sizes[f] <= sizes'[f])
  <2>a. \A f \in 1 .. MaxFiles : sizes[f] \in Nat /\ cuts[f] \in Nat
    BY <1>2
  <2>b. \A f \in 1 .. MaxFiles : sizes[f] <= sizes[f] /\ cuts[f] <= cuts[f]
    BY <2>a
  <2>1. CASE UNCHANGED <<sizes, cuts>>
    BY <1>2, <2>1, <2>b
  <2>2. ASSUME NEW g \in 1 .. MaxFiles, WriteTo(g)
        PROVE  <1>4
    <3>1. sizes' = [sizes EXCEPT ![g] = sizes[g] + 1] /\ cuts' = cuts /\ sizes[g] < MaxBytes
      BY <2>2 DEF WriteTo
    <3>2. sizes[g] + 1 \in 0 .. MaxBytes /\ sizes[g] <= sizes[g] + 1
      BY <1>2, <2>a, <3>1
    <3>3. \A f \in 1 .. MaxFiles : sizes'[f] = IF f = g THEN sizes[g] + 1 ELSE sizes[f]
      BY <1>2, <3>1
    <3>4. sizes' \in [1 .. MaxFiles -> 0 .. MaxBytes]
      BY <1>2, <3>1, <3>2
    <3> QED
      BY <1>2, <2>b, <3>1, <3>2, <3>3, <3>4
  <2>3. ASSUME NEW g \in 1 .. MaxFiles, Truncate(g)
        PROVE  <1>4
    <3>1. /\ sizes' = [sizes EXCEPT ![g] = 0] /\ cuts' = [cuts EXCEPT ![g] = cuts[g] + 1]
          /\ cuts[g] < MaxCuts
      BY <2>3 DEF Truncate
    <3>2. /\ cuts[g] + 1 \in 0 .. MaxCuts /\ cuts[g] <= cuts[g] + 1 /\ cuts[g] + 1 # cuts[g]
          /\ 0 \in 0 .. MaxBytes
      BY <1>2, <2>a, <3>1
    <3>3. /\ sizes' \in [1 .. MaxFiles -> 0 .. MaxBytes]
          /\ cuts' \in [1 .. MaxFiles -> 0 .. MaxCuts]
      BY <1>2, <3>1, <3>2
    <3>4. \A f \in 1 .. MaxFiles :
            /\ f # g => sizes'[f] = sizes[f] /\ cuts'[f] = cuts[f]
            /\ f = g => cuts'[f] = cuts[g] + 1
      BY <1>2, <3>1
    <3> QED
      BY <2>b, <3>2, <3>3, <3>4
  <2>4. CASE \E f \in 1 .. files : WriteTo(f) \/ Truncate(f)
    <3>1. \A f \in 1 .. files : f \in 1 .. MaxFiles
      BY <1>2
    <3> QED
      BY <2>2, <2>3, <2>4, <3>1
  <2> QED
    BY <2>1, <2>4 DEF Others, Rename, Create, RenameBack
<1>5. TypeOK'
  <2>1. TypeOK
    BY DEF FollowInv
  <2>2. name' \in Files \cup {NONE}
    BY <1>3 DEF Files
  <2> QED
    BY <1>1, <1>3, <1>4, <2>1, <2>2 DEF TypeOK, Files
<1>6. Newest'
  BY <1>1, <1>2, <1>3 DEF Newest
<1>7. ~raced' => Opened'
  BY <1>1 DEF FollowInv, Opened
<1> QED
  BY <1>1, <1>4, <1>5, <1>6, <1>7, StillShown

(* The steps of forward() that leave the stream where it is.               *)
LEMMA QuietKeeps ==
  ASSUME FollowInv, raced \in BOOLEAN, ~raced' => ~raced,
         \/ EndOfFile \/ Flush \/ AddEvents \/ Kevent
         \/ Sleep \/ Stat \/ Fail \/ Over
  PROVE  FollowInv'
<1>1. TypeOK /\ Newest /\ (~raced => Opened)
  BY DEF FollowInv
<1>2. /\ UNCHANGED <<name, files, sizes, cuts, moves, follow, isStdin, fp, pos, sbp, shown>>
      /\ TypeOK'
      /\ pc' = "freopen" => (pc = "freopen" /\ statbuf' = statbuf) \/ statbuf' # sbp
      /\ pc' = "seek" => pc = "seek" \/ sizes[fp] < pos
  <2>1. CASE EndOfFile
    BY <1>1, <2>1 DEF EndOfFile, Goto, TypeOK, disk, events
  <2>2. CASE Flush
    BY <1>1, <2>2 DEF Flush, Goto, TypeOK, disk, events
  <2>3. CASE AddEvents
    BY <1>1, <2>3
    DEF AddEvents, Goto, Follows, TypeOK, disk, file
  <2>4. CASE Kevent
    BY <1>1, <2>4 DEF Kevent, Goto, TypeOK, disk, file
  <2>5. CASE Sleep
    BY <1>1, <2>5
    DEF Sleep, Goto, TypeOK, disk, file, events
  <2>6. CASE Stat
    BY <1>1, <2>6
    DEF Stat, Goto, TypeOK, disk, file, events
  <2>7. CASE Fail
    BY <1>1, <2>7
    DEF Fail, Goto, TypeOK, disk, file, events
  <2>8. CASE Over
    BY <1>1, <2>8
    DEF Over, TypeOK, tailVars, disk, file, events
  <2> QED
    BY <2>1, <2>2, <2>3, <2>4, <2>5, <2>6, <2>7, <2>8
<1>3. Newest'
  BY <1>1, <1>2 DEF Newest
<1>4. ~raced' => Opened'
  BY <1>1, <1>2 DEF Opened
<1>5. \A f \in 1 .. MaxFiles :
        cuts[f] <= cuts'[f] /\ (cuts'[f] = cuts[f] => sizes[f] <= sizes'[f])
  BY <1>1, <1>2, FollowFacts
<1> QED
  BY <1>2, <1>3, <1>4, <1>5, StillShown

(* The file shrank: the stream is put at its end.  Nothing of its present  *)
(* content was shown.                                                      *)
LEMMA SeekKeeps ==
  ASSUME FollowInv, raced \in BOOLEAN, ~raced' => ~raced,
         SeekToEnd
  PROVE  FollowInv'
<1>1. /\ pc = "seek" /\ pc' = "read" /\ pos' = sizes[fp]
      /\ UNCHANGED <<name, files, sizes, cuts, moves, follow, isStdin, action, kq, fp, eof,
                     sbp, statbuf, armed, renamed, shown>>
  BY DEF SeekToEnd, Goto, disk, events
<1>2. /\ TypeOK /\ Newest /\ Behind
      /\ ~raced => Opened /\ Aligned /\ Pairs
  BY DEF FollowInv
<1>3. TypeOK'
  <2>1. sizes[fp] \in 0 .. MaxBytes
    BY <1>2, FollowFacts
  <2> QED
    BY <1>1, <1>2, <2>1 DEF TypeOK
<1>4. Newest' /\ Behind'
  BY <1>1, <1>2 DEF Newest, Behind
<1>5. ASSUME ~raced' PROVE Opened' /\ Aligned' /\ Pairs'
  <2>1. Opened /\ Aligned /\ Pairs
    BY <1>2, <1>5
  <2>2. Opened' /\ Pairs'
    BY <1>1, <2>1 DEF Opened, Pairs, Pair
  <2>3. \A i \in DOMAIN shown : ~Current(i)
    BY <1>1, <2>1 DEF Aligned
  <2>4. pos > 0 /\ pos # 0
    BY <1>1, <1>2, <2>1, FollowFacts DEF Aligned
  <2>5. ~(shown # <<>> /\ shown[Len(shown)].file # fp /\ cuts[fp] = 0)
    BY <2>1, <2>4 DEF Aligned
  <2>6. Aligned'
    BY <1>1, <2>3, <2>5 DEF Aligned, Current
  <2> QED
    BY <2>2, <2>6
<1> QED
  BY <1>3, <1>4, <1>5 DEF FollowInv

(* freopen(): another file, nothing of which was shown.                    *)
LEMMA FreopenKeeps ==
  ASSUME FollowInv, raced \in BOOLEAN,
         ~raced' => ~raced /\ name = statbuf,
         Freopen
  PROVE  FollowInv'
<1>1. /\ TypeOK /\ Newest /\ Behind
      /\ ~raced => Opened /\ Aligned /\ Pairs
  BY DEF FollowInv
<1>2. CASE name = NONE
  <2>1. /\ pc' = "out"
        /\ UNCHANGED <<name, files, sizes, cuts, moves, follow, isStdin, action, kq, fp, pos,
                       eof, sbp, statbuf, armed, renamed, shown>>
    BY <1>2 DEF Freopen, Goto, disk, file, events
  <2>2. TypeOK' /\ Newest'
    BY <1>1, <2>1 DEF TypeOK, Newest
  <2>3. ~raced' => Opened'
    BY <1>1, <2>1 DEF Opened
  <2>4. \A f \in 1 .. MaxFiles :
          cuts[f] <= cuts'[f] /\ (cuts'[f] = cuts[f] => sizes[f] <= sizes'[f])
    BY <1>1, <2>1, FollowFacts
  <2> QED
    BY <2>1, <2>2, <2>3, <2>4, StillShown
<1>3. CASE name # NONE
  <2>1. /\ pc = "freopen" /\ pc' = "read" /\ fp' = name /\ pos' = 0 /\ eof' = FALSE
        /\ armed' = {} /\ renamed' = FALSE /\ sbp' = statbuf
        /\ action' = (IF kq THEN "ADD_EVENTS" ELSE action)
        /\ UNCHANGED <<name, files, sizes, cuts, moves, follow, isStdin, kq, statbuf, shown>>
    BY <1>3 DEF Freopen, Goto, disk
  <2>2. name = files /\ fp <= fp' /\ files \in 1 .. MaxFiles /\ MaxBytes \in Nat
        /\ MaxFiles \in Nat /\ fp \in 1 .. MaxFiles
    BY <1>1, <1>3, <2>1, FollowFacts DEF Newest
  <2>3. TypeOK'
    <3>1. name \in Files /\ pos' \in 0 .. MaxBytes
          /\ action' \in {"USE_SLEEP", "USE_KQUEUE", "ADD_EVENTS"}
      BY <1>1, <2>1, <2>2 DEF TypeOK, Files
    <3> QED
      BY <1>1, <2>1, <3>1 DEF TypeOK
  <2>4. Newest'
    BY <1>1, <2>1, <2>2 DEF Newest
  <2>5. Behind'
    BY <1>1, <2>1, <2>2, FollowFacts DEF Behind
  <2>6. ASSUME ~raced' PROVE Opened' /\ Aligned' /\ Pairs'
    <3>1. Opened /\ Aligned /\ Pairs /\ name = statbuf
      BY <1>1, <2>6
    <3>2. Opened'
      BY <2>1, <3>1 DEF Opened
    <3>3. fp # fp'
      BY <2>1, <3>1 DEF Opened
    <3>4. fp < fp'
      BY <2>1, <2>2, <3>3
    <3>5. \A i \in DOMAIN shown : shown[i].file # fp'
      BY <1>1, <2>1, <2>2, <3>4, FollowFacts DEF Behind
    <3>6. Aligned'
      BY <2>1, <3>5 DEF Aligned, Current
    <3>7. Pairs'
      BY <2>1, <3>1 DEF Pairs, Pair
    <3> QED
      BY <3>2, <3>6, <3>7
  <2> QED
    BY <2>3, <2>4, <2>5, <2>6 DEF FollowInv
<1> QED
  BY <1>2, <1>3

(* Bytes that follow one another, as getc() gives them.                    *)
LEMMA ReadKeeps ==
  ASSUME FollowInv, raced \in BOOLEAN, ~raced' => ~raced,
         Read
  PROVE  FollowInv'
<1>a. PICK n : n = Len(shown)
  OBVIOUS
<1>b. PICK m : m = sizes[fp] - pos
  OBVIOUS
<1>c. PICK new : new = [i \in 1 .. m |-> [file |-> fp, cut |-> cuts[fp], k |-> pos + i]]
  OBVIOUS
<1>1. /\ TypeOK /\ Newest /\ Behind
      /\ ~raced => Opened /\ Aligned /\ Pairs
  BY DEF FollowInv
<1>2. /\ pc = "read" /\ pos < sizes[fp] /\ shown' = shown \o new /\ pos' = sizes[fp]
      /\ UNCHANGED <<name, files, sizes, cuts, moves, follow, isStdin, pc, action, kq, fp,
                     eof, sbp, statbuf, armed, renamed>>
  BY <1>b, <1>c DEF Read, disk, events
<1>3. /\ fp \in 1 .. MaxFiles /\ MaxBytes \in Nat /\ MaxCuts \in Nat /\ MaxFiles \in Nat
      /\ sizes[fp] \in 0 .. MaxBytes /\ pos \in 0 .. MaxBytes /\ cuts[fp] \in 0 .. MaxCuts
      /\ shown \in Seq(Bytes) /\ n \in Nat /\ DOMAIN shown = 1 .. n
  BY <1>1, <1>a, FollowFacts
<1>4. m \in Nat /\ m > 0 /\ pos + m = sizes[fp] /\ pos \in Nat
  <2>1. \A a, b \in Nat : a < b => b - a \in Nat /\ b - a > 0 /\ a + (b - a) = b
    OBVIOUS
  <2>2. pos \in Nat /\ sizes[fp] \in Nat /\ pos < sizes[fp]
    BY <1>2, <1>3
  <2> QED
    BY <1>b, <2>1, <2>2
<1>5. new \in Seq(Bytes) /\ Len(new) = m
  <2>1. \A i \in 1 .. m : [file |-> fp, cut |-> cuts[fp], k |-> pos + i] \in Bytes
    BY <1>3, <1>4 DEF Bytes, Files
  <2>2. new \in [1 .. m -> Bytes]
    BY <1>c, <2>1
  <2>3. new \in Seq(Bytes)
    BY <1>4, <2>2, SeqDef
  <2>4. DOMAIN new = 1 .. m
    BY <2>2
  <2> QED
    BY <1>4, <2>3, <2>4, LenProperties
<1>6. /\ shown' \in Seq(Bytes) /\ Len(shown') = n + m /\ DOMAIN shown' = 1 .. n + m
      /\ \A i \in 1 .. n : shown'[i] = shown[i]
      /\ \A i \in n + 1 .. n + m : shown'[i] = new[i - n]
  <2>1. shown' = shown \o new
    BY <1>2
  <2>2. shown \o new \in Seq(Bytes) /\ Len(shown \o new) = Len(shown) + Len(new)
    BY <1>3, <1>5, ConcatProperties
  <2>3. \A i \in 1 .. Len(shown) + Len(new) :
          (shown \o new)[i] = IF i <= Len(shown) THEN shown[i] ELSE new[i - Len(shown)]
    BY <1>3, <1>5, ConcatProperties
  <2>4. /\ \A i \in 1 .. n : i \in 1 .. n + m /\ i <= n
        /\ \A i \in n + 1 .. n + m : i \in 1 .. n + m /\ ~(i <= n)
    BY <1>3, <1>4
  <2>5. shown' \in Seq(Bytes) /\ Len(shown') = n + m /\ DOMAIN shown' = 1 .. n + m
    BY <1>5, <1>a, <2>1, <2>2, LenProperties
  <2> QED
    BY <1>5, <1>a, <2>1, <2>3, <2>4, <2>5
<1>7. \A i \in n + 1 .. n + m :
        shown'[i].file = fp /\ shown'[i].cut = cuts[fp] /\ shown'[i].k = pos + (i - n)
  <2> TAKE i \in n + 1 .. n + m
  <2>1. i - n \in 1 .. m
    BY <1>3, <1>4
  <2>2. shown'[i] = [file |-> fp, cut |-> cuts[fp], k |-> pos + (i - n)]
    BY <1>6, <1>c, <2>1
  <2> QED
    BY <2>2
<1>8. \A i \in 1 .. n + m : i \in 1 .. n \/ i \in n + 1 .. n + m
  BY <1>3, <1>4
<1>9. \A i \in 1 .. n :
        /\ shown[i].file \in 1 .. MaxFiles /\ shown[i].cut \in Nat /\ shown[i].k \in Nat
        /\ shown[i].file <= fp /\ shown[i].cut <= cuts[shown[i].file]
  <2>1. \A i \in DOMAIN shown :
          /\ shown[i].file \in 1 .. MaxFiles /\ shown[i].cut \in 0 .. MaxCuts
          /\ shown[i].k \in 1 .. MaxBytes
    BY <1>1, FollowFacts
  <2>2. \A a \in 0 .. MaxCuts, b \in 1 .. MaxBytes : a \in Nat /\ b \in Nat
    BY <1>3
  <2> QED
    BY <1>1, <1>3, <2>1, <2>2 DEF Behind
<1>10. TypeOK'
  BY <1>1, <1>2, <1>3, <1>6 DEF TypeOK, Files
<1>11. Newest'
  BY <1>1, <1>2 DEF Newest
<1>12. Behind'
  <2>1. ASSUME NEW i \in 1 .. n + m
        PROVE  shown'[i].file <= fp /\ shown'[i].cut <= cuts[shown'[i].file]
    <3>1. CASE i \in 1 .. n
      BY <1>6, <1>9, <3>1
    <3>2. CASE i \in n + 1 .. n + m
      <4>1. fp <= fp /\ cuts[fp] <= cuts[fp]
        BY <1>3
      <4> QED
        BY <1>7, <3>2, <4>1
    <3> QED
      BY <1>8, <3>1, <3>2
  <2> QED
    BY <1>2, <1>6, <2>1 DEF Behind
<1>13. ASSUME ~raced' PROVE Opened' /\ Aligned' /\ Pairs'
  <2>1. Opened /\ Aligned /\ Pairs
    BY <1>1, <1>13
  <2>2. Opened'
    BY <1>2, <2>1 DEF Opened
  <2>3. \A i \in 1 .. n : shown[i].file = fp /\ shown[i].cut = cuts[fp] =>
          pos - shown[i].k = n - i
    BY <1>3, <1>a, <2>1 DEF Aligned, Current
  <2>4. \A i \in 1 .. n + m :
          shown'[i].file = fp /\ shown'[i].cut = cuts[fp] =>
            sizes[fp] - shown'[i].k = (n + m) - i
    <3> SUFFICES ASSUME NEW i \in 1 .. n + m, shown'[i].file = fp, shown'[i].cut = cuts[fp]
                 PROVE  sizes[fp] - shown'[i].k = (n + m) - i
      OBVIOUS
    <3>1. CASE i \in 1 .. n
      <4>1. pos - shown[i].k = n - i /\ shown[i].k \in Nat /\ shown'[i].k = shown[i].k
        BY <1>6, <1>9, <2>3, <3>1
      <4>2. PICK k, p, q : k = shown[i].k /\ p = pos /\ q = sizes[fp]
        OBVIOUS
      <4>3. /\ k \in Nat /\ p \in Nat /\ q \in Nat /\ n \in Nat /\ m \in Nat /\ i \in Nat
            /\ p + m = q /\ p - k = n - i
        BY <1>3, <1>4, <4>1, <4>2
      <4>4. q - k = (n + m) - i
        BY <4>3
      <4> QED
        BY <4>1, <4>2, <4>4
    <3>2. CASE i \in n + 1 .. n + m
      <4>1. shown'[i].k = pos + (i - n)
        BY <1>7, <3>2
      <4> QED
        BY <1>3, <1>4, <4>1
    <3> QED
      BY <1>8, <3>1, <3>2
  <2>5. shown'[n + m].file = fp
    <3>1. n + m \in n + 1 .. n + m
      BY <1>3, <1>4
    <3> QED
      BY <1>7, <3>1
  <2>6. Aligned'
    <3>1. sizes[fp] <= sizes[fp]
      BY <1>3
    <3>2. pc' # "seek"
      BY <1>2
    <3>3. \A i \in DOMAIN shown' :
            Current(i)' => /\ pos' <= sizes'[fp'] /\ pc' # "seek"
                           /\ pos' - shown'[i].k = Len(shown') - i
      <4>1. /\ fp' = fp /\ cuts' = cuts /\ sizes' = sizes /\ pos' = sizes[fp]
            /\ Len(shown') = n + m /\ DOMAIN shown' = 1 .. n + m
        BY <1>2, <1>6
      <4>2. \A i \in DOMAIN shown' : Current(i)' => pos' - shown'[i].k = Len(shown') - i
        <5>1. \A i \in DOMAIN shown' :
                shown'[i].file = fp' /\ shown'[i].cut = cuts'[fp'] =>
                  pos' - shown'[i].k = Len(shown') - i
          BY <2>4, <4>1
        <5> QED
          BY <5>1 DEF Current
      <4>3. pos' <= sizes'[fp']
        BY <3>1, <4>1
      <4> QED
        BY <3>2, <4>2, <4>3
    <3>4. shown'[Len(shown')].file = fp'
      BY <1>2, <1>6, <2>5
    <3> QED
      BY <3>2, <3>3, <3>4 DEF Aligned
  <2>7. ASSUME NEW i \in 1 .. n, NEW j \in 1 .. n
        PROVE  Pair(i, j)'
    <3>1. Pair(i, j)
      BY <1>3, <2>1 DEF Pairs
    <3> QED
      BY <1>6, <3>1 DEF Pair
  <2>8. ASSUME NEW i \in 1 .. n, NEW j \in n + 1 .. n + m
        PROVE  Pair(i, j)' /\ Pair(j, i)'
    <3>1. i \in Nat /\ j \in Nat /\ i < j /\ ~(i = j + 1) /\ ~(j < i)
          /\ (j = i + 1 => i = n /\ j - n = 1)
      BY <1>3, <1>4
    <3>2. /\ shown'[i] = shown[i]
          /\ shown'[j].file = fp /\ shown'[j].cut = cuts[fp] /\ shown'[j].k = pos + (j - n)
      BY <1>6, <1>7
    <3>3. shown[i].file = fp /\ shown[i].cut = cuts[fp] => shown'[j].k - shown[i].k = j - i
      <4>1. shown[i].k \in Nat
        BY <1>9
      <4>2. \A k \in Nat : pos - k = n - i => (pos + (j - n)) - k = j - i
        BY <1>3, <1>4, <3>1
      <4> QED
        BY <2>3, <3>2, <4>1, <4>2
    <3>4. shown[i].file <= fp /\ (shown[i].file = fp => shown[i].cut <= cuts[fp])
      BY <1>9
    <3>5. j = i + 1 /\ shown[i].file # fp /\ cuts[fp] = 0 => shown'[j].k = 1
      <4> SUFFICES ASSUME j = i + 1, shown[i].file # fp, cuts[fp] = 0 PROVE shown'[j].k = 1
        OBVIOUS
      <4>1. i = n /\ j - n = 1 /\ n # 0
        BY <1>3, <3>1
      <4>2. shown # <<>> /\ shown[Len(shown)].file # fp
        BY <1>3, <1>a, <4>1
      <4>3. pos = 0
        BY <2>1, <4>2 DEF Aligned
      <4> QED
        BY <3>2, <4>1, <4>3
    <3> QED
      BY <3>1, <3>2, <3>3, <3>4, <3>5 DEF Pair
  <2>9. ASSUME NEW i \in n + 1 .. n + m, NEW j \in n + 1 .. n + m
        PROVE  Pair(i, j)'
    <3>1. i \in Int /\ j \in Int
      BY <1>3, <1>4
    <3>2. /\ shown'[i].file = fp /\ shown'[i].cut = cuts[fp] /\ shown'[i].k = pos + (i - n)
          /\ shown'[j].file = fp /\ shown'[j].cut = cuts[fp] /\ shown'[j].k = pos + (j - n)
      BY <1>7
    <3>3. shown'[j].k - shown'[i].k = j - i
      BY <1>3, <1>4, <3>1, <3>2
    <3>4. fp <= fp /\ cuts[fp] <= cuts[fp]
      BY <1>3
    <3> QED
      BY <3>2, <3>3, <3>4 DEF Pair
  <2>10. Pairs'
    BY <1>6, <1>8, <2>7, <2>8, <2>9 DEF Pairs
  <2> QED
    BY <2>2, <2>6, <2>10
<1> QED
  BY <1>10, <1>11, <1>12, <1>13 DEF FollowInv

(* Every step of tail and of the others.                                   *)
LEMMA FollowStep ==
  ASSUME FollowInv, raced \in BOOLEAN, [MCNext]_mcvars
  PROVE  FollowInv' /\ raced' \in BOOLEAN
<1>1. CASE MCNext
  <2>1. raced' \in BOOLEAN /\ (~raced' => ~raced /\ (pc = "freopen" => name = statbuf))
    BY <1>1, RaceKept DEF MCNext
  <2>2. CASE Others
    BY <2>1, <2>2, OthersKeep
  <2>3. CASE Read
    BY <2>1, <2>3, ReadKeeps
  <2>4. CASE SeekToEnd
    BY <2>1, <2>4, SeekKeeps
  <2>5. CASE Freopen
    <3>1. pc = "freopen"
      BY <2>5 DEF Freopen
    <3> QED
      BY <2>1, <2>5, <3>1, FreopenKeeps
  <2>6. CASE \/ EndOfFile \/ Flush \/ AddEvents \/ Kevent
             \/ Sleep \/ Stat \/ Fail \/ Over
    BY <2>1, <2>6, QuietKeeps
  <2> QED
    BY <1>1, <2>1, <2>2, <2>3, <2>4, <2>5, <2>6 DEF MCNext, TailNext, Forward
<1>2. CASE UNCHANGED mcvars
  <2>1. UNCHANGED <<name, files, sizes, cuts, moves, follow, isStdin, pc, action, kq, fp, pos,
                    eof, sbp, statbuf, armed, renamed, shown, raced>>
    BY <1>2 DEF mcvars, tailVars, disk, file, events
  <2>2. TypeOK' /\ Newest' /\ Behind'
    BY <2>1 DEF FollowInv, TypeOK, Newest, Behind
  <2>3. ~raced' => Opened' /\ Aligned' /\ Pairs'
    BY <2>1 DEF FollowInv, Opened, Aligned, Current, Pairs, Pair
  <2> QED
    BY <2>1, <2>2, <2>3 DEF FollowInv
<1> QED
  BY <1>1, <1>2

(***************************************************************************)
(* Of each file a piece is shown once, in its order and without a gap, and *)
(* of a file that took the name later from its beginning, for any number   *)
(* of files, renames and truncations, as long as the name never changes    *)
(* between stat() and freopen().                                           *)
(***************************************************************************)
THEOREM TailShowsOnce == MCSpec => []ShownOnce
<1>1. MCInit => FollowInv /\ raced \in BOOLEAN
  BY FollowInit DEF MCInit
<1>2. FollowInv /\ raced \in BOOLEAN /\ [MCNext]_mcvars
        => (FollowInv /\ raced \in BOOLEAN)'
  BY FollowStep
<1>3. FollowInv => ShownOnce
  BY FollowInvSuffices
<1> QED
  BY <1>1, <1>2, <1>3, PTL DEF MCSpec

-----------------------------------------------------------------------------
(* Part three: what tail shows first *)

(***************************************************************************)
(* The lines of a file begin at its first byte and behind each newline     *)
(* but the last byte, and where the k-th begins follows from how many      *)
(* newlines are before it (Below, Begins).  rlines() knows after each      *)
(* window (Searched) how many lines are still to be found and that the     *)
(* newlines behind the window were counted, unless one at a border was     *)
(* lost; WindowKeeps is its step.  Then the command line: obsolete() makes *)
(* of each spelling one or two words from which getopt() reads one option, *)
(* and ARG and the switch take from it the style and the offset.  The      *)
(* loops are recursive functions, of which first what each turn does is    *)
(* proved (WindowsExist, OldTurnsExist, OptionTurnsExist).                 *)
(***************************************************************************)

(* Counting the numbers of a set, up to a place. *)
Below(S, x) == Cardinality({p \in S : p < x})
Among(S, m) == \A p \in S : p \in Nat /\ p < m

LEMMA AmongFinite ==
  ASSUME NEW m \in Nat, NEW S, Among(S, m)
  PROVE  \A T : (\A p \in T : p \in S) => IsFiniteSet(T) /\ Cardinality(T) \in Nat
<1> TAKE T
<1> HAVE \A p \in T : p \in S
<1>1. IsFiniteSet(0 .. m)
  BY FS_Interval
<1>2. T \in SUBSET (0 .. m)
  BY DEF Among
<1>3. IsFiniteSet(T)
  BY <1>1, <1>2, FS_Subset
<1> QED
  BY <1>3, FS_CardinalityType

LEMMA BelowSteps ==
  ASSUME NEW m \in Nat, NEW S, Among(S, m)
  PROVE  /\ Below(S, 0) = 0
         /\ Below(S, m) = Cardinality(S)
         /\ \A x \in Nat : /\ Below(S, x) \in Nat
                           /\ Below(S, x + 1) = IF x \in S THEN Below(S, x) + 1 ELSE Below(S, x)
<1> DEFINE E(x) == {p \in S : p < x}
<1>1. \A x : Below(S, x) = Cardinality(E(x))
  BY DEF Below
<1>2. E(0) = {}
  BY DEF Among
<1>3. E(m) = S
  BY DEF Among
<1>4. \A x : IsFiniteSet(E(x)) /\ Cardinality(E(x)) \in Nat
  <2>1. \A x : \A p \in E(x) : p \in S
    OBVIOUS
  <2> HIDE DEF E
  <2> QED
    BY <2>1, AmongFinite
<1>5. ASSUME NEW x \in Nat
      PROVE  Cardinality(E(x + 1)) = IF x \in S THEN Cardinality(E(x)) + 1
                                     ELSE Cardinality(E(x))
  <2>1. x \notin E(x)
    OBVIOUS
  <2>2. CASE x \in S
    <3>1. E(x + 1) = E(x) \cup {x}
      <4>1. \A p \in S : p < x + 1 <=> p < x \/ p = x
        BY DEF Among
      <4> QED
        BY <2>2, <4>1, Zenon
    <3> HIDE DEF E
    <3> QED
      BY <1>4, <2>1, <2>2, <3>1, FS_AddElement
  <2>3. CASE x \notin S
    <3>1. E(x + 1) = E(x)
      BY <2>3 DEF Among
    <3> QED
      BY <2>3, <3>1
  <2> QED
    BY <2>2, <2>3
<1> HIDE DEF E
<1> QED
  BY <1>1, <1>2, <1>3, <1>4, <1>5, FS_EmptySet

LEMMA BelowGrows ==
  ASSUME NEW m \in Nat, NEW S, Among(S, m), NEW x \in Nat, NEW y \in Nat, x <= y
  PROVE  Below(S, x) <= Below(S, y)
<1>1. {p \in S : p < x} \in SUBSET {p \in S : p < y}
  BY DEF Among
<1>2. IsFiniteSet({p \in S : p < y})
  <2>1. \A p \in {q \in S : q < y} : p \in S
    OBVIOUS
  <2> QED
    BY <2>1, AmongFinite
<1> QED
  BY <1>1, <1>2, FS_Subset DEF Below

(* Those from a place on, up to another. *)
LEMMA BelowBetween ==
  ASSUME NEW m \in Nat, NEW S, Among(S, m), NEW x \in Nat, NEW y \in Nat, x <= y
  PROVE  Cardinality({p \in S : x <= p /\ p < y}) = Below(S, y) - Below(S, x)
<1> DEFINE A == {p \in S : p < x}
           B == {p \in S : x <= p /\ p < y}
           C == {p \in S : p < y}
<1>1. A \cup B = C /\ A \cap B = {}
  BY DEF Among
<1>2. IsFiniteSet(A) /\ IsFiniteSet(B) /\ Cardinality(A) \in Nat /\ Cardinality(B) \in Nat
  <2>1. (\A p \in A : p \in S) /\ \A p \in B : p \in S
    OBVIOUS
  <2> HIDE DEF A, B
  <2> QED
    BY <2>1, AmongFinite
<1>3. Below(S, x) = Cardinality(A) /\ Below(S, y) = Cardinality(C)
  BY DEF Below
<1> HIDE DEF A, B, C
<1>4. Cardinality(C) = Cardinality(A) + Cardinality(B)
  <2>1. Cardinality(A \cup B) = Cardinality(A) + Cardinality(B) - Cardinality(A \cap B)
    BY <1>2, FS_Union
  <2>2. Cardinality(A \cap B) = 0
    BY <1>1, FS_EmptySet
  <2>3. Cardinality(A \cup B) = Cardinality(C)
    BY <1>1, Zenon
  <2>4. PICK a \in Nat, b \in Nat : a = Cardinality(A) /\ b = Cardinality(B)
    BY <1>2
  <2>5. Cardinality(C) = a + b - 0
    BY <2>1, <2>2, <2>3, <2>4, Zenon
  <2> QED
    BY <2>4, <2>5
<1>5. Cardinality(B) = Below(S, y) - Below(S, x)
  BY <1>2, <1>3, <1>4
<1> QED
  BY <1>5 DEF B

(* The k-th number of a set. *)
LEMMA Nth ==
  ASSUME NEW m \in Nat, NEW S, Among(S, m), NEW k \in 1 .. Cardinality(S)
  PROVE  \E o \in S : Below(S, o) = k - 1 /\ Below(S, o + 1) = k
<1> DEFINE T == {x \in Nat : x <= m => Below(S, x) < k}
<1>1. k \in Nat /\ k > 0 /\ Cardinality(S) \in Nat /\ k <= Cardinality(S)
  <2>1. Cardinality(S) \in Nat
    BY AmongFinite
  <2> QED
    BY <2>1
<1>2. 0 \in T
  BY <1>1, BelowSteps
<1>3. m \notin T
  BY <1>1, BelowSteps
<1>4. PICK x \in Nat : x \in T /\ x + 1 \notin T
  <2>1. SUFFICES ASSUME \A x \in Nat : x \in T => x + 1 \in T PROVE FALSE
    OBVIOUS
  <2> HIDE DEF T
  <2>2. Nat \subseteq T
    BY <1>2, <2>1, NatInd
  <2> QED
    BY <1>3, <2>2
<1>5. x + 1 <= m /\ x <= m /\ Below(S, x) < k /\ ~(Below(S, x + 1) < k)
  BY <1>4
<1>6. Below(S, x) \in Nat /\ Below(S, x + 1) \in Nat
  BY BelowSteps
<1>7. x \in S /\ Below(S, x + 1) = Below(S, x) + 1
  BY <1>5, BelowSteps
<1> QED
  BY <1>1, <1>5, <1>6, <1>7

LEMMA NthIsOne ==
  ASSUME NEW m \in Nat, NEW S, Among(S, m), NEW o \in S, NEW p \in S,
         Below(S, o + 1) = Below(S, p + 1)
  PROVE  o = p
<1>1. \A a, b \in S : a < b => Below(S, a + 1) < Below(S, b + 1)
  <2> TAKE a, b \in S
  <2> HAVE a < b
  <2>1. a \in Nat /\ b \in Nat /\ a + 1 \in Nat /\ a + 1 <= b
    BY DEF Among
  <2>2. Below(S, a + 1) <= Below(S, b)
    BY <2>1, BelowGrows
  <2>3. Below(S, b + 1) = Below(S, b) + 1 /\ Below(S, b) \in Nat /\ Below(S, a + 1) \in Nat
    BY <2>1, BelowSteps
  <2> QED
    BY <2>2, <2>3
<1>2. o \in Nat /\ p \in Nat /\ Below(S, o + 1) \in Nat /\ Below(S, p + 1) \in Nat
  <2>1. o \in Nat /\ p \in Nat /\ o + 1 \in Nat /\ p + 1 \in Nat
    BY DEF Among
  <2> QED
    BY <2>1, BelowSteps
<1>3. ~(o < p) /\ ~(p < o)
  BY <1>1, <1>2
<1> QED
  BY <1>2, <1>3

(* rlines(), window by window.                                             *)
FirstWindow(data, lines) ==
  LET n == Command!Smaller(Len(data), MMAP_MAXSIZE)
  IN  [off |-> lines, lo |-> Len(data) - n, n |-> n, remaining |-> Len(data),
       from |-> 0, over |-> FALSE]

Windows(t, data, lines, m) ==
  t = [i \in 0 .. m |-> IF i = 0 THEN FirstWindow(data, lines)
                        ELSE Command!Window(t[i - 1], data)]

LEMMA RlinesIsALoop ==
  ASSUME NEW data, NEW lines
  PROVE  \E t : /\ t = CHOOSE g : Windows(g, data, lines, Len(data))
                /\ Command!Rlines(data, lines) =
                     [from |-> t[Len(data)].from,
                      end |-> t[Len(data)].lo + t[Len(data)].n,
                      to |-> t[Len(data)].remaining]
BY DEF Command!Rlines, Windows, FirstWindow

LEMMA WindowsExist ==
  ASSUME NEW data, NEW lines, NEW m \in Nat
  PROVE  \E t : Windows(t, data, lines, m)
<1> DEFINE T == {k \in Nat : \E t : Windows(t, data, lines, k)}
<1>1. 0 \in T
  <2> DEFINE t == [i \in 0 .. 0 |-> FirstWindow(data, lines)]
  <2>1. Windows(t, data, lines, 0)
    BY DEF Windows
  <2> QED
    BY <2>1
<1>2. ASSUME NEW k \in Nat, k \in T PROVE k + 1 \in T
  <2>1. PICK g : Windows(g, data, lines, k)
    BY <1>2
  <2>2. \A i \in 0 .. k : g[i] = IF i = 0 THEN FirstWindow(data, lines)
                                 ELSE Command!Window(g[i - 1], data)
    BY <2>1 DEF Windows
  <2> DEFINE t == [i \in 0 .. k + 1 |-> IF i = k + 1 THEN Command!Window(g[k], data) ELSE g[i]]
  <2>3. t[k + 1] = Command!Window(g[k], data) /\ \A i \in 0 .. k : t[i] = g[i]
    OBVIOUS
  <2>4. t = [i \in 0 .. k + 1 |-> t[i]]
    OBVIOUS
  <2> HIDE DEF t
  <2>5. ASSUME NEW i \in 0 .. k + 1
        PROVE  t[i] = IF i = 0 THEN FirstWindow(data, lines)
                      ELSE Command!Window(t[i - 1], data)
    <3>1. CASE i = k + 1
      <4>1. i # 0 /\ i - 1 = k /\ k \in 0 .. k
        BY <3>1
      <4> QED
        BY <2>3, <3>1, <4>1
    <3>2. CASE i # k + 1
      <4>1. i \in 0 .. k /\ (i # 0 => i - 1 \in 0 .. k)
        BY <3>2
      <4> QED
        BY <2>2, <2>3, <4>1
    <3> QED
      BY <3>1, <3>2
  <2>6. Windows(t, data, lines, k + 1)
    BY <2>4, <2>5 DEF Windows
  <2> QED
    BY <2>6
<1> HIDE DEF T
<1>3. m \in T
  BY <1>1, <1>2, NatInd
<1> QED
  BY <1>3 DEF T

(* The turns of the loop, one window after the other, and what is left.   *)
ByWindows(t, data, lines, total) ==
  /\ t[0] = FirstWindow(data, lines)
  /\ \A i \in Nat : i < total => t[i + 1] = Command!Window(t[i], data)
  /\ Command!Rlines(data, lines) =
       [from |-> t[total].from, end |-> t[total].lo + t[total].n,
        to |-> t[total].remaining]

LEMMA RlinesByWindows ==
  ASSUME NEW data, NEW lines, NEW total \in Nat, total = Len(data)
  PROVE  \E t : ByWindows(t, data, lines, total)
<1>1. PICK t : /\ t = CHOOSE g : Windows(g, data, lines, total)
               /\ Command!Rlines(data, lines) =
                     [from |-> t[total].from, end |-> t[total].lo + t[total].n,
                      to |-> t[total].remaining]
  BY RlinesIsALoop
<1>2. Windows(t, data, lines, total)
  BY <1>1, WindowsExist
<1>3. \A i \in 0 .. total : t[i] = IF i = 0 THEN FirstWindow(data, lines)
                                  ELSE Command!Window(t[i - 1], data)
  BY <1>2 DEF Windows
<1>4. t[0] = FirstWindow(data, lines)
  BY <1>3
<1>5. ASSUME NEW i \in Nat, i < total PROVE t[i + 1] = Command!Window(t[i], data)
  <2>1. i + 1 \in 0 .. total /\ i + 1 # 0 /\ (i + 1) - 1 = i
    BY <1>5
  <2> QED
    BY <1>3, <2>1
<1>6. ByWindows(t, data, lines, total)
  BY <1>1, <1>4, <1>5 DEF ByWindows
<1> QED
  BY <1>6

(* The newlines but a last one that ends the file, by their offsets; and   *)
(* where the last lines begin.                                             *)
InnerNewlines(data) == {o \in 0 .. Len(data) - 2 : data[o + 1] = "nl"}
Begins(N, lines, from) ==
  IF lines <= Cardinality(N)
  THEN \E o \in N : from = 1 + o /\ Below(N, o + 1) = (Cardinality(N) - lines) + 1
  ELSE from = 0

(* What the loop knows after i windows.                                    *)
IsWindow(s) == DOMAIN s = {"off", "lo", "n", "remaining", "from", "over"}

Looks(N, total, lines, amount, lo, n, remaining, i) ==
  /\ amount > 0 /\ amount + (Cardinality(N) - Below(N, remaining)) = lines
  /\ n <= MMAP_MAXSIZE /\ (lo > 0 => n = MMAP_MAXSIZE)
  /\ remaining <= total - i
  /\ \E q \in Nat : total - remaining = q * MMAP_MAXSIZE

Within(total, lo, n, remaining) ==
  lo \in Nat /\ n \in Nat /\ n > 0 /\ remaining = lo + n /\ remaining <= total

Searched(s, N, total, lines, i) ==
  /\ IsWindow(s) /\ s.over \in BOOLEAN /\ s.off \in Nat
  /\ Within(total, s.lo, s.n, s.remaining)
  /\ ~s.over => Looks(N, total, lines, s.off, s.lo, s.n, s.remaining, i)
  /\ s.over => Begins(N, lines, s.from) /\ s.from <= s.remaining

LEMMA SameCount == \A S : Command!Cardinality(S) = Cardinality(S)
BY DEF Command!Cardinality, Cardinality

LEMMA BehindIs ==
  ASSUME NEW m \in Nat, NEW S, Among(S, m), NEW k \in 1 .. Cardinality(S), NEW end
  PROVE  \E o \in S : Command!BehindNewline(S, k, end) = 1 + o /\ Below(S, o + 1) = k
<1> DEFINE Q(o) == Cardinality({p \in S : p <= o}) = k
           c == CHOOSE o \in S : Q(o)
<1>1. \A o \in S : Cardinality({p \in S : p <= o}) = Below(S, o + 1)
  <2> TAKE o \in S
  <2>1. {p \in S : p <= o} = {p \in S : p < o + 1}
    BY DEF Among
  <2> QED
    BY <2>1 DEF Below
<1>2. \E o \in S : Q(o)
  BY <1>1, Nth
<1>3. c \in S /\ Q(c)
  BY <1>2
<1>4. ~(Cardinality(S) < k)
  <2>1. Cardinality(S) \in Nat
    BY AmongFinite
  <2> QED
    BY <2>1
<1>5. Command!BehindNewline(S, k, end) = 1 + c
  BY <1>4, SameCount DEF Command!BehindNewline
<1> HIDE DEF c
<1> QED
  BY <1>1, <1>3, <1>5

LEMMA TimesGrows ==
  ASSUME NEW q \in Nat, NEW M \in Nat \ {0}
  PROVE  q * M \in Nat /\ q <= q * M /\ (q + 1) * M = q * M + M
OBVIOUS

(* The newlines of a window are those of the file in it. *)
LEMMA WindowNewlines ==
  ASSUME NEW data, NEW total \in Nat, total = Len(data), ~Command!NewlineAtBorder(data),
         NEW lo \in Nat, NEW n \in Nat, n > 0, lo + n <= total,
         NEW q \in Nat, total - (lo + n) = q * MMAP_MAXSIZE
  PROVE  Command!Newlines(data, lo, n) =
           {p \in InnerNewlines(data) : lo <= p /\ p < lo + n}
<1>1. ASSUME lo + n < total, data[lo + n] = "nl" PROVE FALSE
  <2>1. q * MMAP_MAXSIZE \in Nat /\ q <= q * MMAP_MAXSIZE
    BY TimesGrows, TailSizes
  <2>2. q # 0
    <3>1. 0 * MMAP_MAXSIZE = 0
      BY TailSizes
    <3> QED
      BY <1>1, <3>1
  <2>3. q \in 1 .. Len(data)
    BY <2>1, <2>2
  <2>4. Len(data) - q * MMAP_MAXSIZE = lo + n
    BY <2>1
  <2> QED
    BY <1>1, <2>3, <2>4 DEF Command!NewlineAtBorder
<1>2. \A o \in lo .. lo + n - 2 : o \in 0 .. Len(data) - 2 /\ lo <= o /\ o < lo + n
  OBVIOUS
<1>3. ASSUME NEW o \in 0 .. Len(data) - 2, data[o + 1] = "nl", lo <= o, o < lo + n
      PROVE  o \in lo .. lo + n - 2
  <2>1. CASE o = lo + n - 1
    <3>1. o + 1 = lo + n /\ lo + n < total
      BY <2>1
    <3> QED
      BY <1>1, <1>3, <3>1
  <2>2. CASE o # lo + n - 1
    BY <1>3, <2>2
  <2> QED
    BY <2>1, <2>2
<1>4. Command!Newlines(data, lo, n) = {o \in lo .. lo + n - 2 : data[o + 1] = "nl"}
  BY DEF Command!Newlines
<1> QED
  BY <1>2, <1>3, <1>4 DEF InnerNewlines

LEMMA InnerAmong ==
  ASSUME NEW data, NEW total \in Nat, total = Len(data)
  PROVE  Among(InnerNewlines(data), total)
BY DEF Among, InnerNewlines

(* A window that has as many lines as are sought holds the place.          *)
LEMMA FoundIn ==
  ASSUME NEW m \in Nat, NEW N, Among(N, m), NEW lines \in Nat, NEW amount \in Nat,
         NEW lo \in Nat, NEW hi \in Nat, lo <= hi, amount > 0,
         amount + (Cardinality(N) - Below(N, hi)) = lines,
         NEW nl, nl = {p \in N : lo <= p /\ p < hi}, Cardinality(nl) >= amount
  PROVE  /\ Begins(N, lines, Command!BehindNewline(nl, Cardinality(nl) - amount + 1, 0))
         /\ Command!BehindNewline(nl, Cardinality(nl) - amount + 1, 0) <= hi
<1> DEFINE k == Cardinality(nl) - amount + 1
<1>1. Among(nl, m)
  BY DEF Among
<1>2. Cardinality(nl) = Below(N, hi) - Below(N, lo)
  BY BelowBetween
<1>3. /\ Cardinality(N) \in Nat /\ Cardinality(nl) \in Nat
      /\ Below(N, hi) \in Nat /\ Below(N, lo) \in Nat
  BY <1>1, AmongFinite, BelowSteps
<1>4. k \in 1 .. Cardinality(nl)
  BY <1>3
<1>5. PICK o \in nl : Command!BehindNewline(nl, k, 0) = 1 + o /\ Below(nl, o + 1) = k
  <2> HIDE DEF k
  <2> QED
    BY <1>1, <1>4, BehindIs
<1>6. o \in N /\ o \in Nat /\ lo <= o /\ o < hi
  BY <1>5 DEF Among
<1>7. Below(nl, o + 1) = Below(N, o + 1) - Below(N, lo)
  <2>1. {p \in nl : p < o + 1} = {p \in N : lo <= p /\ p < o + 1}
    <3>1. \A p \in N : p < o + 1 => p < hi
      BY <1>6 DEF Among
    <3> QED
      BY <3>1
  <2>2. o + 1 \in Nat /\ lo <= o + 1
    BY <1>6
  <2>3. Cardinality({p \in N : lo <= p /\ p < o + 1}) = Below(N, o + 1) - Below(N, lo)
    BY <2>2, BelowBetween
  <2> QED
    BY <2>1, <2>3 DEF Below
<1>8. Below(N, o + 1) \in Nat
  BY <1>6, BelowSteps
<1>9. Below(N, o + 1) = (Cardinality(N) - lines) + 1
  BY <1>2, <1>3, <1>5, <1>7, <1>8
<1>10. Below(N, hi) <= Cardinality(N) /\ lines <= Cardinality(N)
  <2>1. {p \in N : p < hi} \in SUBSET N /\ IsFiniteSet(N)
    BY AmongFinite
  <2>2. Below(N, hi) <= Cardinality(N)
    BY <2>1, FS_Subset DEF Below
  <2>3. Below(N, lo) \in Nat /\ Cardinality(nl) >= amount
    BY <1>3
  <2> QED
    BY <1>2, <1>3, <2>2, <2>3
<1>11. 1 + o <= hi
  BY <1>6
<1> HIDE DEF k
<1>12. Begins(N, lines, Command!BehindNewline(nl, k, 0)) /\ Command!BehindNewline(nl, k, 0) <= hi
  BY <1>5, <1>6, <1>9, <1>10, <1>11 DEF Begins
<1> QED
  BY <1>12 DEF k

(* What a turn of the loop makes of s, when nl are the window's newlines.  *)
Turned(t, s, nl) ==
  /\ IsWindow(t)
  /\ Cardinality(nl) >= s.off \/ s.remaining - s.n = 0 =>
       /\ t.lo = s.lo /\ t.n = s.n /\ t.remaining = s.remaining /\ t.over = TRUE
       /\ t.off = s.off
       /\ t.from = IF Cardinality(nl) >= s.off
                   THEN Command!BehindNewline(nl, Cardinality(nl) - s.off + 1, 0)
                   ELSE s.lo
  /\ ~(Cardinality(nl) >= s.off \/ s.remaining - s.n = 0) =>
       /\ t.off = s.off - Cardinality(nl) /\ t.remaining = s.remaining - s.n
       /\ t.lo = IF s.lo >= MMAP_MAXSIZE THEN s.lo - MMAP_MAXSIZE ELSE 0
       /\ t.n = IF s.lo >= MMAP_MAXSIZE THEN s.n ELSE s.remaining - s.n
       /\ t.over = s.over

LEMMA WindowOf ==
  ASSUME NEW data, NEW s, IsWindow(s), ~s.over,
         NEW nl, nl = Command!Newlines(data, s.lo, s.n)
  PROVE  Turned(Command!Window(s, data), s, nl)
<1> DEFINE found == Cardinality(nl) >= s.off
           left == s.remaining - s.n
           place == IF found THEN Command!BehindNewline(nl, Cardinality(nl) - s.off + 1, 0)
                    ELSE s.lo
           off2 == s.off - Cardinality(nl)
           lo2 == IF s.lo >= MMAP_MAXSIZE THEN s.lo - MMAP_MAXSIZE ELSE 0
           n2 == IF s.lo >= MMAP_MAXSIZE THEN s.n ELSE left
           last == [s EXCEPT !.over = TRUE, !.from = place]
           next == [s EXCEPT !.off = off2, !.remaining = left, !.lo = lo2, !.n = n2]
<1>1. CASE found \/ left = 0
  <2>1. Command!Window(s, data) = last
    BY <1>1, SameCount DEF Command!Window
  <2> HIDE DEF found, place, left
  <2>2. /\ IsWindow(last) /\ last.lo = s.lo /\ last.n = s.n /\ last.remaining = s.remaining
        /\ last.off = s.off /\ last.from = place /\ last.over = TRUE
    BY DEF IsWindow
  <2> HIDE DEF last
  <2> QED
    BY <1>1, <2>1, <2>2 DEF found, place, Turned, left
<1>2. CASE ~(found \/ left = 0)
  <2>1. Command!Window(s, data) = next
    BY <1>2, SameCount DEF Command!Window
  <2> HIDE DEF found, off2, lo2, n2, left
  <2>2. /\ IsWindow(next) /\ next.lo = lo2 /\ next.n = n2 /\ next.remaining = left
        /\ next.off = off2 /\ next.over = s.over
    BY DEF IsWindow
  <2> HIDE DEF next
  <2> QED
    BY <1>2, <2>1, <2>2 DEF found, off2, lo2, n2, left, Turned
<1> QED
  BY <1>1, <1>2

(* A turn keeps what the loop knows. *)
LEMMA WindowKeeps ==
  ASSUME NEW data, NEW total \in Nat, total = Len(data), ~Command!NewlineAtBorder(data),
         NEW lines \in Nat, NEW i \in Nat, NEW s,
         Searched(s, InnerNewlines(data), total, lines, i)
  PROVE  Searched(Command!Window(s, data), InnerNewlines(data), total, lines, i + 1)
<1> DEFINE N == InnerNewlines(data)
<1>1. /\ IsWindow(s) /\ s.over \in BOOLEAN /\ s.off \in Nat
      /\ Within(total, s.lo, s.n, s.remaining)
      /\ ~s.over => Looks(N, total, lines, s.off, s.lo, s.n, s.remaining, i)
      /\ s.over => Begins(N, lines, s.from) /\ s.from <= s.remaining
  BY DEF Searched
<1>2. CASE s.over
  <2>1. Command!Window(s, data) = s
    BY <1>2 DEF Command!Window
  <2> HIDE DEF N
  <2> QED
    BY <1>1, <1>2, <2>1 DEF Searched, N
<1>3. CASE ~s.over
  <2> DEFINE nl == Command!Newlines(data, s.lo, s.n)
             found == Cardinality(nl) >= s.off
             left == s.remaining - s.n
  <2>1. PICK t : /\ t = Command!Window(s, data) /\ IsWindow(t)
                 /\ found \/ left = 0 =>
                     /\ t.lo = s.lo /\ t.n = s.n /\ t.remaining = s.remaining /\ t.over = TRUE
                     /\ t.off = s.off
                     /\ t.from = IF found
                                 THEN Command!BehindNewline(nl, Cardinality(nl) - s.off + 1, 0)
                                 ELSE s.lo
                 /\ ~(found \/ left = 0) =>
                     /\ t.off = s.off - Cardinality(nl) /\ t.remaining = left
                     /\ t.lo = IF s.lo >= MMAP_MAXSIZE THEN s.lo - MMAP_MAXSIZE ELSE 0
                     /\ t.n = IF s.lo >= MMAP_MAXSIZE THEN s.n ELSE left
                     /\ t.over = s.over
    <3>1. PICK t : t = Command!Window(s, data)
      OBVIOUS
    <3>2. Turned(t, s, nl)
      BY <1>1, <1>3, <3>1, WindowOf
    <3> HIDE DEF nl
    <3> QED
      BY <3>1, <3>2 DEF Turned
  <2> HIDE DEF N, nl, found, left
  <2>2. PICK amount, lo, n, remaining :
          amount = s.off /\ lo = s.lo /\ n = s.n /\ remaining = s.remaining
    OBVIOUS
  <2>3. /\ amount \in Nat /\ lo \in Nat /\ n \in Nat /\ n > 0 /\ remaining = lo + n
        /\ remaining <= total /\ remaining \in Nat /\ left = lo
    BY <1>1, <2>2 DEF Within, left
  <2>4. Looks(N, total, lines, amount, lo, n, remaining, i)
    BY <1>1, <1>3, <2>2
  <2>5. PICK q \in Nat : total - remaining = q * MMAP_MAXSIZE
    BY <2>4 DEF Looks
  <2>6. nl = {p \in N : lo <= p /\ p < remaining}
    BY <2>2, <2>3, <2>5, WindowNewlines DEF N, nl
  <2>7. Among(N, total) /\ lo <= remaining
    BY <2>3, InnerAmong DEF N
  <2>8. amount > 0 /\ amount + (Cardinality(N) - Below(N, remaining)) = lines
    BY <2>4 DEF Looks
  <2>9. /\ Cardinality(nl) = Below(N, remaining) - Below(N, lo)
        /\ Cardinality(N) \in Nat /\ Cardinality(nl) \in Nat
        /\ Below(N, remaining) \in Nat /\ Below(N, lo) \in Nat
    <3>1. Among(nl, total)
      BY <2>6, <2>7 DEF Among
    <3>2. Cardinality(N) \in Nat /\ Cardinality(nl) \in Nat
      BY <2>7, <3>1, AmongFinite
    <3>3. Below(N, remaining) \in Nat /\ Below(N, lo) \in Nat
      BY <2>3, <2>7, BelowSteps
    <3> QED
      BY <2>3, <2>6, <2>7, <3>2, <3>3, BelowBetween
  <2>10. CASE found \/ left = 0
    <3>1. Begins(N, lines, t.from) /\ t.from <= remaining
      <4>1. CASE found
        <5>1. Cardinality(nl) >= amount
          BY <2>2, <4>1 DEF found
        <5>2. /\ Begins(N, lines, Command!BehindNewline(nl, Cardinality(nl) - amount + 1, 0))
              /\ Command!BehindNewline(nl, Cardinality(nl) - amount + 1, 0) <= remaining
          BY <2>3, <2>6, <2>7, <2>8, <5>1, FoundIn
        <5> QED
          BY <2>1, <2>2, <4>1, <5>2
      <4>2. CASE ~found /\ left = 0
        <5>1. Below(N, lo) = 0 /\ ~(Cardinality(nl) >= amount)
          BY <2>2, <2>3, <2>7, <4>2, BelowSteps DEF found
        <5>2. lines > Cardinality(N)
          BY <2>3, <2>8, <2>9, <5>1
        <5>3. t.from = 0 /\ ~(lines <= Cardinality(N))
          BY <2>1, <2>2, <2>3, <2>9, <4>2, <5>2
        <5> QED
          BY <2>3, <5>3 DEF Begins
      <4> QED
        BY <2>10, <4>1, <4>2
    <3>2. Within(total, t.lo, t.n, t.remaining)
      BY <1>1, <2>1, <2>10
    <3> QED
      BY <1>1, <2>1, <2>2, <2>10, <3>1, <3>2 DEF Searched, N
  <2>11. CASE ~(found \/ left = 0)
    <3>1. /\ MMAP_MAXSIZE \in Nat /\ MMAP_MAXSIZE > 0 /\ n = MMAP_MAXSIZE /\ lo > 0
          /\ remaining <= total - i /\ Cardinality(nl) < amount
      <4>1. ~(Cardinality(nl) >= amount)
        BY <2>2, <2>11 DEF found
      <4>2. lo # 0
        BY <2>3, <2>11
      <4> QED
        BY <2>3, <2>4, <2>9, <4>1, <4>2, TailSizes DEF Looks
    <3>2. PICK off2, lo2, n2 :
            /\ off2 = amount - Cardinality(nl)
            /\ lo2 = IF lo >= MMAP_MAXSIZE THEN lo - MMAP_MAXSIZE ELSE 0
            /\ n2 = IF lo >= MMAP_MAXSIZE THEN n ELSE lo
      OBVIOUS
    <3>3. t.off = off2 /\ t.lo = lo2 /\ t.n = n2 /\ t.remaining = lo /\ ~t.over /\ t.over = s.over
      BY <1>3, <2>1, <2>2, <2>3, <2>11, <3>2
    <3>4. /\ off2 \in Nat /\ off2 > 0 /\ lo2 \in Nat /\ n2 \in Nat /\ n2 > 0
          /\ lo = lo2 + n2 /\ n2 <= MMAP_MAXSIZE /\ (lo2 > 0 => n2 = MMAP_MAXSIZE)
          /\ lo <= total
      BY <2>3, <2>9, <3>1, <3>2
    <3>5. off2 + (Cardinality(N) - Below(N, lo)) = lines
      BY <2>3, <2>8, <2>9, <3>2
    <3>6. lo <= total - (i + 1)
      BY <2>3, <3>1
    <3>7. q + 1 \in Nat /\ total - lo = (q + 1) * MMAP_MAXSIZE
      BY <2>3, <2>5, <3>1, TimesGrows
    <3>8. Looks(N, total, lines, off2, lo2, n2, lo, i + 1)
      BY <3>4, <3>5, <3>6, <3>7 DEF Looks
    <3>9. Within(total, lo2, n2, lo)
      BY <3>4 DEF Within
    <3> QED
      BY <1>1, <2>1, <3>3, <3>4, <3>8, <3>9 DEF Searched, N
  <2> QED
    BY <2>10, <2>11
<1> QED
  BY <1>1, <1>2, <1>3

(* rlines() finds where the last lines begin, and leaves fp behind what it *)
(* has written.                                                            *)
LEMMA RlinesFinds ==
  ASSUME NEW data, NEW total \in Nat, total = Len(data), total > 0,
         ~Command!NewlineAtBorder(data), NEW lines \in Nat, lines > 0
  PROVE  \E r : /\ r = Command!Rlines(data, lines)
                /\ r.end \in Nat /\ r.to = r.end /\ r.end <= total
                /\ Begins(InnerNewlines(data), lines, r.from) /\ r.from <= r.end
<1> DEFINE N == InnerNewlines(data)
<1>0. PICK t : ByWindows(t, data, lines, total)
  BY RlinesByWindows
<1>1. /\ t[0] = FirstWindow(data, lines)
      /\ \A i \in Nat : i < total => t[i + 1] = Command!Window(t[i], data)
      /\ Command!Rlines(data, lines) =
           [from |-> t[total].from, end |-> t[total].lo + t[total].n, to |-> t[total].remaining]
  BY <1>0 DEF ByWindows
<1>2. Searched(t[0], N, total, lines, 0)
  <2> DEFINE n == Command!Smaller(total, MMAP_MAXSIZE)
  <2>1. /\ n \in Nat /\ n > 0 /\ n <= total /\ n <= MMAP_MAXSIZE
        /\ total - n \in Nat /\ (total - n > 0 => n = MMAP_MAXSIZE) /\ total = (total - n) + n
    BY TailSizes DEF Command!Smaller
  <2> HIDE DEF n
  <2>2. /\ IsWindow(t[0]) /\ t[0].off = lines /\ t[0].lo = total - n /\ t[0].n = n
        /\ t[0].remaining = total /\ t[0].over = FALSE
    BY <1>1 DEF FirstWindow, IsWindow, n
  <2>3. Cardinality(N) \in Nat /\ Below(N, total) = Cardinality(N)
    BY InnerAmong, AmongFinite, BelowSteps
  <2>4. 0 \in Nat /\ total - total = 0 * MMAP_MAXSIZE
    BY TailSizes
  <2> HIDE DEF N
  <2>5. Looks(N, total, lines, lines, total - n, n, total, 0)
    BY <2>1, <2>3, <2>4 DEF Looks
  <2>6. Within(total, total - n, n, total)
    BY <2>1 DEF Within
  <2> QED
    BY <2>2, <2>5, <2>6 DEF Searched
<1> DEFINE T == {i \in Nat : i <= total => Searched(t[i], N, total, lines, i)}
<1>3. 0 \in T
  BY <1>2
<1>4. ASSUME NEW i \in Nat, i \in T PROVE i + 1 \in T
  <2>1. CASE i + 1 <= total
    <3>1. Searched(t[i], N, total, lines, i) /\ t[i + 1] = Command!Window(t[i], data)
      BY <1>1, <1>4, <2>1
    <3>2. Searched(t[i + 1], N, total, lines, i + 1)
      BY <3>1, WindowKeeps
    <3> QED
      BY <3>2
  <2> QED
    BY <2>1
<1> HIDE DEF T
<1>5. total \in T
  BY <1>3, <1>4, NatInd
<1>6. Searched(t[total], N, total, lines, total)
  BY <1>5 DEF T
<1> HIDE DEF N
<1>7. PICK w : w = t[total]
  OBVIOUS
<1>8. /\ Within(total, w.lo, w.n, w.remaining) /\ w.over \in BOOLEAN
      /\ ~w.over => Looks(N, total, lines, w.off, w.lo, w.n, w.remaining, total)
      /\ w.over => Begins(N, lines, w.from) /\ w.from <= w.remaining
  BY <1>6, <1>7 DEF Searched
<1>9. w.over
  <2>1. ~(w.remaining <= total - total)
    BY <1>8 DEF Within
  <2> QED
    BY <1>8, <2>1 DEF Looks
<1>10. Command!Rlines(data, lines) = [from |-> w.from, end |-> w.lo + w.n, to |-> w.remaining]
  BY <1>1, <1>7
<1> QED
  BY <1>8, <1>9, <1>10 DEF N, Within

-----------------------------------------------------------------------------
(* The lines of a file, by where they begin and end.                       *)
LineStarts(data) == {o \in 1 .. Len(data) : o = 1 \/ data[o - 1] = "nl"}
StartOf(data, i) ==
  CHOOSE o \in LineStarts(data) : Cardinality({p \in LineStarts(data) : p <= o}) = i
StopOf(data, i) ==
  IF i = Cardinality(LineStarts(data)) THEN Len(data) ELSE StartOf(data, i + 1) - 1

LEMMA LinesAre ==
  ASSUME NEW data
  PROVE  Command!LinesOf(data) = [i \in 1 .. Cardinality(LineStarts(data)) |->
                                    SubSeq(data, StartOf(data, i), StopOf(data, i))]
BY Zenon DEF Command!LinesOf, LineStarts, StartOf, StopOf, Command!Cardinality, Cardinality

(* A line begins behind each inner newline, and one at the beginning.      *)
LEMMA StartsAre ==
  ASSUME NEW data, NEW total \in Nat, total = Len(data), total > 0
  PROVE  /\ Among(LineStarts(data), total + 1)
         /\ Cardinality(LineStarts(data)) = Cardinality(InnerNewlines(data)) + 1
         /\ \A x \in Nat : /\ x \in InnerNewlines(data) <=> x + 2 \in LineStarts(data)
                           /\ Below(LineStarts(data), x + 2) = Below(InnerNewlines(data), x) + 1
         /\ 1 \in LineStarts(data)
<1> DEFINE S == LineStarts(data)
           N == InnerNewlines(data)
           T == {x \in Nat : Below(S, x + 2) = Below(N, x) + 1}
<1>1. Among(S, total + 1) /\ 1 \in S /\ 0 \notin S
  BY DEF Among, LineStarts
<1>2. Among(N, total - 1) /\ total - 1 \in Nat
  BY DEF Among, InnerNewlines
<1>3. ASSUME NEW x \in Nat PROVE x \in N <=> x + 2 \in S
  <2>1. (x + 2) - 1 = x + 1 /\ x + 2 # 1
    OBVIOUS
  <2>2. x \in 0 .. Len(data) - 2 <=> x + 2 \in 1 .. Len(data)
    OBVIOUS
  <2> QED
    BY <2>1, <2>2 DEF LineStarts, InnerNewlines
<1> HIDE DEF S, N
<1>4. total + 1 \in Nat
  OBVIOUS
<1>a. \A y \in Nat : /\ Below(S, y) \in Nat
                     /\ Below(S, y + 1) = IF y \in S THEN Below(S, y) + 1 ELSE Below(S, y)
  BY <1>1, <1>4, BelowSteps
<1>b. \A y \in Nat : /\ Below(N, y) \in Nat
                     /\ Below(N, y + 1) = IF y \in N THEN Below(N, y) + 1 ELSE Below(N, y)
  <2>1. Among(N, total)
    BY InnerAmong DEF N
  <2>2. \A y \in Nat : Below(N, y) \in Nat
    BY <2>1, BelowSteps
  <2>3. \A y \in Nat : Below(N, y + 1) = IF y \in N THEN Below(N, y) + 1 ELSE Below(N, y)
    BY <2>1, BelowSteps
  <2> QED
    BY <2>2, <2>3
<1>5. 0 \in T
  <2>1. Below(S, 0) = 0 /\ Below(N, 0) = 0
    BY <1>1, <1>2, <1>4, BelowSteps
  <2>2. Below(S, 0 + 1) = 0
    BY <1>1, <1>4, <2>1, BelowSteps
  <2>3. Below(S, 1 + 1) = Below(S, 1) + 1
    BY <1>1, <1>4, BelowSteps
  <2> QED
    BY <2>1, <2>2, <2>3
<1>6. ASSUME NEW x \in Nat, x \in T PROVE x + 1 \in T
  <2>1. /\ Below(S, (x + 2) + 1) = IF x + 2 \in S THEN Below(S, x + 2) + 1 ELSE Below(S, x + 2)
        /\ Below(S, x + 2) \in Nat
    <3>1. x + 2 \in Nat
      OBVIOUS
    <3> QED
      BY <1>a, <3>1
  <2>2. /\ Below(N, x + 1) = IF x \in N THEN Below(N, x) + 1 ELSE Below(N, x)
        /\ Below(N, x) \in Nat
    BY <1>b
  <2>3. (x + 1) + 2 = (x + 2) + 1 /\ x + 1 \in Nat
    OBVIOUS
  <2>4. Below(S, x + 2) = Below(N, x) + 1
    BY <1>6
  <2>5. Below(S, (x + 1) + 2) = Below(N, x + 1) + 1
    BY <1>3, <2>1, <2>2, <2>3, <2>4
  <2> QED
    BY <2>3, <2>5
<1>7. Nat \subseteq T
  <2> HIDE DEF T
  <2> QED
    BY <1>5, <1>6, NatInd
<1>8. \A x \in Nat : Below(S, x + 2) = Below(N, x) + 1
  BY <1>7
<1>9. Cardinality(S) = Cardinality(N) + 1
  <2>1. Below(S, total + 1) = Cardinality(S) /\ Below(N, total - 1) = Cardinality(N)
    BY <1>1, <1>2, <1>4, BelowSteps
  <2>2. (total - 1) + 2 = total + 1
    OBVIOUS
  <2> QED
    BY <1>2, <1>8, <2>1, <2>2
<1> QED
  BY <1>1, <1>3, <1>8, <1>9 DEF S, N

(* Where the first and where the other lines begin, and in which order. *)
LEMMA StartIs ==
  ASSUME NEW data, NEW total \in Nat, total = Len(data), total > 0,
         NEW i \in 1 .. Cardinality(LineStarts(data))
  PROVE  /\ StartOf(data, i) \in LineStarts(data) /\ StartOf(data, i) \in 1 .. total
         /\ Below(LineStarts(data), StartOf(data, i) + 1) = i
         /\ \A o \in LineStarts(data) : Below(LineStarts(data), o + 1) = i => StartOf(data, i) = o
<1> DEFINE S == LineStarts(data)
           Q(o) == Cardinality({p \in S : p <= o}) = i
           c == CHOOSE o \in S : Q(o)
<1>1. Among(S, total + 1) /\ total + 1 \in Nat
  BY StartsAre
<1>2. \A o \in S : Cardinality({p \in S : p <= o}) = Below(S, o + 1)
  <2> TAKE o \in S
  <2>1. {p \in S : p <= o} = {p \in S : p < o + 1}
    BY <1>1 DEF Among
  <2> QED
    BY <2>1 DEF Below
<1>3. \A o \in S : o \in 1 .. total
  BY DEF LineStarts
<1>4. StartOf(data, i) = c
  BY DEF StartOf
<1> HIDE DEF S
<1>5. \E o \in S : Q(o)
  <2>1. \E o \in S : Below(S, o + 1) = i
    BY <1>1, Nth DEF S
  <2> QED
    BY <1>2, <2>1
<1>6. c \in S /\ Q(c)
  BY <1>5
<1>7. Below(S, c + 1) = i
  BY <1>2, <1>6
<1> HIDE DEF c
<1>8. \A o \in S : Below(S, o + 1) = i => c = o
  BY <1>1, <1>6, <1>7, NthIsOne
<1> QED
  BY <1>3, <1>4, <1>6, <1>7, <1>8 DEF S

LEMMA StartsInOrder ==
  ASSUME NEW data, NEW total \in Nat, total = Len(data), total > 0,
         NEW i \in 1 .. Cardinality(LineStarts(data)),
         NEW j \in 1 .. Cardinality(LineStarts(data)), i < j
  PROVE  StartOf(data, i) < StartOf(data, j)
<1> DEFINE S == LineStarts(data)
<1>1. Among(S, total + 1) /\ total + 1 \in Nat
  BY StartsAre
<1>2. PICK a \in Nat, b \in Nat :
        /\ a = StartOf(data, i) /\ b = StartOf(data, j)
        /\ Below(S, a + 1) = i /\ Below(S, b + 1) = j
  BY StartIs
<1>3. SUFFICES ASSUME b <= a PROVE FALSE
  BY <1>2
<1>4. b + 1 \in Nat /\ a + 1 \in Nat /\ b + 1 <= a + 1
  BY <1>3
<1>5. Below(S, b + 1) <= Below(S, a + 1)
  BY <1>1, <1>4, BelowGrows
<1>6. Cardinality(S) \in Nat
  BY <1>1, AmongFinite
<1> QED
  BY <1>2, <1>5, <1>6

LEMMA FirstStart ==
  ASSUME NEW data, NEW total \in Nat, total = Len(data), total > 0
  PROVE  StartOf(data, 1) = 1
<1> DEFINE S == LineStarts(data)
<1>1. Among(S, total + 1) /\ total + 1 \in Nat /\ 1 \in S
  BY StartsAre
<1>2. Cardinality(S) \in Nat /\ Cardinality(InnerNewlines(data)) \in Nat
  BY <1>1, InnerAmong, AmongFinite
<1>3. 1 \in 1 .. Cardinality(S)
  BY <1>2, StartsAre
<1>4. Below(S, 1 + 1) = 1
  <2>1. Below(S, 0 + 2) = Below(InnerNewlines(data), 0) + 1
    BY StartsAre
  <2>2. Below(InnerNewlines(data), 0) = 0
    BY InnerAmong, BelowSteps
  <2> QED
    BY <2>1, <2>2
<1> QED
  BY <1>1, <1>3, <1>4, StartIs

(* The line behind an inner newline. *)
LEMMA NextStart ==
  ASSUME NEW data, NEW total \in Nat, total = Len(data), total > 0,
         NEW o \in InnerNewlines(data), NEW k, Below(InnerNewlines(data), o + 1) = k
  PROVE  /\ k + 1 \in 1 .. Cardinality(LineStarts(data))
         /\ StartOf(data, k + 1) = o + 2
<1> DEFINE S == LineStarts(data)
           N == InnerNewlines(data)
<1>1. o \in Nat /\ o + 1 \in Nat /\ Among(N, total) /\ Among(S, total + 1) /\ total + 1 \in Nat
  <2>1. Among(N, total) /\ Among(S, total + 1)
    BY StartsAre, InnerAmong
  <2>2. o \in Nat
    BY DEF InnerNewlines
  <2> QED
    BY <2>1, <2>2
<1>2. o + 2 \in S /\ Below(S, (o + 1) + 2) = k + 1
  BY <1>1, StartsAre
<1>3. Below(S, (o + 2) + 1) = k + 1
  <2>1. (o + 2) + 1 = (o + 1) + 2
    BY <1>1
  <2> QED
    BY <1>2, <2>1
<1>4. k \in Nat /\ Cardinality(S) \in Nat /\ o + 2 \in Nat /\ (o + 2) + 1 <= total + 1
  <2>1. o + 2 < total + 1
    BY <1>1, <1>2 DEF Among
  <2>2. k \in Nat
    BY <1>1, BelowSteps
  <2>3. Cardinality(S) \in Nat
    BY <1>1, AmongFinite
  <2> QED
    BY <1>1, <2>1, <2>2, <2>3
<1>5. k + 1 <= Cardinality(S)
  <2>1. (o + 2) + 1 \in Nat
    BY <1>1
  <2>2. Below(S, (o + 2) + 1) <= Below(S, total + 1)
    BY <1>1, <1>4, <2>1, BelowGrows
  <2>3. Below(S, total + 1) = Cardinality(S)
    BY <1>1, BelowSteps
  <2> QED
    BY <1>3, <2>2, <2>3
<1>6. k + 1 \in 1 .. Cardinality(S)
  BY <1>4, <1>5
<1> QED
  BY <1>2, <1>3, <1>6, StartIs

(* The lines from one on, joined, are the bytes from its beginning on.     *)
LEMMA LinesJoined ==
  ASSUME NEW B, NEW data \in Seq(B), NEW total \in Nat, total = Len(data), total > 0,
         NEW K \in Nat, K = Cardinality(LineStarts(data)), NEW k \in 1 .. K
  PROVE  FlattenSeq(SubSeq(Command!LinesOf(data), k, K)) =
           SubSeq(data, StartOf(data, k), total)
<1> DEFINE L == Command!LinesOf(data)
           d == SubSeq(L, k, K)
           m == K - k + 1
           F(j) == FlattenSeq(SubSeq(d, 1, j))
           T == {j \in 1 .. m : F(j) = SubSeq(data, StartOf(data, k), StopOf(data, k + j - 1))}
<1>1. /\ \A i \in 1 .. K : StartOf(data, i) \in 1 .. total
      /\ \A i \in 1 .. K : i < K => StartOf(data, i) < StartOf(data, i + 1)
  <2>1. \A i \in 1 .. K : i < K => i + 1 \in 1 .. K /\ i < i + 1
    OBVIOUS
  <2> QED
    BY <2>1, StartIs, StartsInOrder
<1>2. /\ StopOf(data, K) = total
      /\ \A i \in 1 .. K : i < K => StopOf(data, i) = StartOf(data, i + 1) - 1
  BY DEF StopOf
<1>3. \A i \in 1 .. K : StopOf(data, i) \in StartOf(data, i) .. total
  <2> TAKE i \in 1 .. K
  <2>1. CASE i = K
    BY <1>1, <1>2, <2>1
  <2>2. CASE i # K
    <3>1. i < K /\ i + 1 \in 1 .. K
      BY <2>2
    <3> QED
      BY <1>1, <1>2, <3>1
  <2> QED
    BY <2>1, <2>2
<1>4. L \in Seq(Seq(B)) /\ Len(L) = K /\ \A i \in 1 .. K : L[i]
        = SubSeq(data, StartOf(data, i), StopOf(data, i))
  <2>1. L = [i \in 1 .. K |-> SubSeq(data, StartOf(data, i), StopOf(data, i))]
    BY LinesAre
  <2>2. \A i \in 1 .. K : SubSeq(data, StartOf(data, i), StopOf(data, i)) \in Seq(B)
    <3> TAKE i \in 1 .. K
    <3>1. StartOf(data, i) \in 1 .. total /\ StopOf(data, i) \in StartOf(data, i) .. total
      BY <1>1, <1>3
    <3> QED
      BY <3>1, SubSeqProperties
  <2> HIDE DEF L
  <2>3. /\ DOMAIN L = 1 .. K
        /\ \A i \in 1 .. K : L[i] = SubSeq(data, StartOf(data, i), StopOf(data, i))
    BY <2>1
  <2>5. L \in [1 .. K -> Seq(B)]
    BY <2>1, <2>2
  <2>6. L \in Seq(Seq(B)) /\ Len(L) = K
    BY <2>5
  <2> QED
    BY <2>3, <2>6
<1> HIDE DEF L
<1>5. d \in Seq(Seq(B)) /\ Len(d) = m /\ m \in Nat /\ m > 0 /\ \A j \in 1 .. m : d[j] = L[k + j - 1]
  <2>1. d \in Seq(Seq(B)) /\ Len(d) = m
    BY <1>4
  <2>2. \A j \in 1 .. m : d[j] = L[k + j - 1]
    BY <1>4
  <2> QED
    BY <2>1, <2>2
<1> HIDE DEF d
<1>6. ASSUME NEW j \in 0 .. m
      PROVE  /\ F(j) \in Seq(B)
             /\ j < m => d[j + 1] \in Seq(B) /\ F(j + 1) = F(j) \o d[j + 1]
  <2>1. SubSeq(d, 1, j) \in Seq(Seq(B))
    BY <1>5, SubSeqProperties
  <2>2. j < m => d[j + 1] \in Seq(B) /\ SubSeq(d, 1, j + 1) = Append(SubSeq(d, 1, j), d[j + 1])
    BY <1>5, PrefixMore
  <2> QED
    BY <2>1, <2>2, FlattenType, FlattenAppend
<1>7. F(0) = <<>>
  <2>1. SubSeq(d, 1, 0) = <<>>
    BY <1>5
  <2> QED
    BY <2>1, FlattenEmpty
<1> HIDE DEF F
<1>8. 1 \in T
  <2>1. F(0 + 1) = F(0) \o d[0 + 1] /\ d[0 + 1] \in Seq(B)
    BY <1>5, <1>6
  <2>2. F(1) = d[1]
    <3>1. F(1) = <<>> \o d[1] /\ d[1] \in Seq(B)
      <4>1. 0 + 1 = 1
        OBVIOUS
      <4> QED
        BY <1>7, <2>1, <4>1
    <3>2. \A e \in Seq(B) : <<>> \o e = e
      OBVIOUS
    <3> QED
      BY <3>1, <3>2
  <2>3. d[1] = L[k] /\ k + 1 - 1 = k /\ 1 \in 1 .. m
    BY <1>5
  <2> QED
    BY <1>4, <2>2, <2>3
<1>9. ASSUME NEW j \in 1 .. m, j \in T, j < m PROVE j + 1 \in T
  <2> DEFINE a == StartOf(data, k)
             i == k + j - 1
  <2>1. i \in 1 .. K /\ i < K /\ i + 1 \in 1 .. K /\ i + 1 = k + (j + 1) - 1 /\ j + 1 \in 1 .. m
    BY <1>9
  <2>2. F(j) = SubSeq(data, a, StopOf(data, i))
    BY <1>9
  <2>3. F(j + 1) = F(j) \o L[i + 1]
    <3>1. j \in 0 .. m
      OBVIOUS
    <3>2. d[j + 1] = L[k + (j + 1) - 1]
      BY <1>5, <2>1
    <3> QED
      BY <1>6, <1>9, <2>1, <3>1, <3>2
  <2>4. StopOf(data, i) + 1 = StartOf(data, i + 1)
    BY <1>1, <1>2, <2>1
  <2>5. a \in 1 .. total /\ a - 1 <= StopOf(data, i) /\ StopOf(data, i) \in 1 .. total
    <3>1. a <= StartOf(data, i) /\ a \in 1 .. total
      <4>1. k = i \/ k < i
        BY <2>1
      <4> QED
        BY <1>1, <2>1, <4>1, StartsInOrder
    <3>2. StartOf(data, i) \in 1 .. total /\ StopOf(data, i) \in StartOf(data, i) .. total
      BY <1>1, <1>3, <2>1
    <3> QED
      BY <3>1, <3>2
  <2>6. StopOf(data, i + 1) \in StopOf(data, i) .. total
    <3>1. StopOf(data, i + 1) \in StartOf(data, i + 1) .. total
      BY <1>3, <2>1
    <3> QED
      BY <2>4, <2>5, <3>1
  <2> DEFINE x == StopOf(data, i)
             y == StopOf(data, i + 1)
  <2>7. F(j + 1) = SubSeq(data, a, x) \o SubSeq(data, x + 1, y)
    BY <1>4, <2>1, <2>2, <2>3, <2>4
  <2>8. a \in 1 .. Len(data) + 1 /\ x \in a - 1 .. Len(data) /\ y \in x .. Len(data)
    BY <2>5, <2>6
  <2> HIDE DEF a, x, y
  <2>9. SubSeq(data, a, x) \o SubSeq(data, x + 1, y) = SubSeq(data, a, y)
    BY <2>8, ConcatAdjacentSubSeq
  <2> QED
    BY <2>1, <2>7, <2>9 DEF a, x, y
<1>10. m \in T
  <2>1. 1 .. m \subseteq T
    <3> HIDE DEF T, m
    <3> QED
      BY <1>5, <1>8, <1>9, RangeInd
  <2> QED
    BY <1>5, <2>1
<1>11. F(m) = SubSeq(data, StartOf(data, k), total)
  <2>1. k + m - 1 = K
    OBVIOUS
  <2> QED
    BY <1>2, <1>10, <2>1
<1>12. SubSeq(d, 1, m) = d
  BY <1>5, SubSeqFull
<1> QED
  BY <1>11, <1>12 DEF F, d, L

(* All lines from one on, by the number of those that are skipped.         *)
LinesFrom(data, skipped) ==
  LET lines == Command!LinesOf(data)
  IN  Command!FlattenSeq(SubSeq(lines, Command!Smaller(skipped, Len(lines)) + 1, Len(lines)))

LEMMA SameFlatten == \A s : Command!FlattenSeq(s) = FlattenSeq(s)
BY Zenon DEF Command!FlattenSeq, FlattenSeq

LEMMA LinesFromIs ==
  ASSUME NEW B, NEW data \in Seq(B), NEW total \in Nat, total = Len(data), total > 0,
         NEW K \in Nat, K = Cardinality(LineStarts(data)), NEW skipped \in Nat
  PROVE  /\ Len(Command!LinesOf(data)) = K
         /\ LinesFrom(data, skipped) = IF skipped >= K THEN <<>>
                                       ELSE SubSeq(data, StartOf(data, skipped + 1), total)
<1> DEFINE L == Command!LinesOf(data)
<1>1. Len(L) = K
  <2>1. L = [i \in 1 .. K |-> SubSeq(data, StartOf(data, i), StopOf(data, i))]
    BY LinesAre
  <2> QED
    BY <2>1
<1>2. CASE skipped >= K
  <2>1. Command!Smaller(skipped, K) = K
    BY <1>2 DEF Command!Smaller
  <2>2. SubSeq(L, K + 1, K) = <<>>
    BY <1>1
  <2> HIDE DEF L
  <2>3. LinesFrom(data, skipped) = FlattenSeq(SubSeq(L, K + 1, K))
    BY <1>1, <2>1, SameFlatten DEF LinesFrom, L
  <2> QED
    BY <1>1, <1>2, <2>2, <2>3, FlattenEmpty DEF L
<1>3. CASE ~(skipped >= K)
  <2>1. Command!Smaller(skipped, K) = skipped /\ skipped + 1 \in 1 .. K
    BY <1>3 DEF Command!Smaller
  <2> HIDE DEF L
  <2>2. LinesFrom(data, skipped) = FlattenSeq(SubSeq(L, skipped + 1, K))
    BY <1>1, <2>1, SameFlatten DEF LinesFrom, L
  <2>3. FlattenSeq(SubSeq(L, skipped + 1, K)) = SubSeq(data, StartOf(data, skipped + 1), total)
    BY <2>1, LinesJoined DEF L
  <2> QED
    BY <1>1, <1>3, <2>2, <2>3 DEF L
<1> QED
  BY <1>2, <1>3

(* tail -n: the last lines.                                                *)
LEMMA LastLinesShown ==
  ASSUME NEW B, NEW data \in Seq(B), NEW total \in Nat, total = Len(data), total > 0,
         ~Command!NewlineAtBorder(data), NEW lines \in Nat, lines > 0,
         NEW K \in Nat, K = Cardinality(LineStarts(data))
  PROVE  Command!Forward("RLINES", lines, data) =
           LinesFrom(data, K - Command!Smaller(lines, K))
<1> DEFINE N == InnerNewlines(data)
<1>1. PICK r : /\ r = Command!Rlines(data, lines)
               /\ r.end \in Nat /\ r.to = r.end /\ r.end <= total
               /\ Begins(N, lines, r.from) /\ r.from <= r.end
  BY RlinesFinds
<1> HIDE DEF N
<1>2. Command!Forward("RLINES", lines, data) =
        SubSeq(data, r.from + 1, r.end) \o SubSeq(data, r.to + 1, total)
  <2>1. lines # 0
    OBVIOUS
  <2>2. Command!Forward("RLINES", lines, data) =
          SubSeq(data, Command!Rlines(data, lines).from + 1, Command!Rlines(data, lines).end)
            \o SubSeq(data, Command!Rlines(data, lines).to + 1, Len(data))
    BY <2>1 DEF Command!Forward
  <2>3. total = Len(data) /\ r = Command!Rlines(data, lines)
    BY <1>1
  <2> QED
    BY <2>2, <2>3, Zenon
<1>3. Cardinality(N) \in Nat /\ K = Cardinality(N) + 1
  BY InnerAmong, AmongFinite, StartsAre DEF N
<1> DEFINE skipped == K - Command!Smaller(lines, K)
<1>4. skipped \in Nat /\ ~(skipped >= K) /\ skipped = IF lines <= Cardinality(N)
                                                      THEN (Cardinality(N) - lines) + 1 ELSE 0
  BY <1>3 DEF Command!Smaller
<1> HIDE DEF skipped
<1>5. r.from \in Nat /\ StartOf(data, skipped + 1) = r.from + 1
  <2>1. CASE lines <= Cardinality(N)
    <3>1. PICK o \in N : r.from = 1 + o /\ Below(N, o + 1) = (Cardinality(N) - lines) + 1
      BY <1>1, <2>1 DEF Begins
    <3>2. o \in Nat /\ 1 + o + 1 = o + 2
      BY DEF N, InnerNewlines
    <3>3. StartOf(data, skipped + 1) = o + 2
      BY <1>4, <2>1, <3>1, NextStart DEF N
    <3> QED
      BY <3>1, <3>2, <3>3
  <2>2. CASE ~(lines <= Cardinality(N))
    <3>1. r.from = 0 /\ skipped + 1 = 1
      BY <1>1, <1>4, <2>2 DEF Begins
    <3> QED
      BY <3>1, FirstStart
  <2> QED
    BY <2>1, <2>2
<1>6. LinesFrom(data, skipped) = SubSeq(data, r.from + 1, total)
  BY <1>4, <1>5, LinesFromIs
<1>7. SubSeq(data, r.from + 1, r.end) \o SubSeq(data, r.end + 1, total)
        = SubSeq(data, r.from + 1, total)
  <2>1. PICK a \in Nat, b \in Nat : a = r.from + 1 /\ b = r.end
    BY <1>1, <1>5
  <2>2. a \in 1 .. Len(data) + 1 /\ b \in a - 1 .. Len(data) /\ total \in b .. Len(data)
    BY <1>1, <1>5, <2>1
  <2> QED
    BY <2>1, <2>2, ConcatAdjacentSubSeq
<1> QED
  BY <1>1, <1>2, <1>6, <1>7 DEF skipped

(* tail -n +N: the lines from one on.                                      *)
LEMMA FirstLinesSkipped ==
  ASSUME NEW B, NEW data \in Seq(B), NEW total \in Nat, total = Len(data), total > 0,
         NEW amount \in Nat, NEW K \in Nat, K = Cardinality(LineStarts(data))
  PROVE  Command!Forward("FLINES", amount, data) = LinesFrom(data, amount)
<1> DEFINE N == InnerNewlines(data)
           F == {o \in 0 .. total - 1 : data[o + 1] = "nl"}
<1>1. Among(F, total) /\ Among(N, total) /\ \A o : o \in N <=> o \in F /\ o < total - 1
  BY DEF Among, InnerNewlines
<1> HIDE DEF N, F
<1>2. Cardinality(N) \in Nat /\ K = Cardinality(N) + 1 /\ Cardinality(F) \in Nat
  BY <1>1, AmongFinite, StartsAre DEF N
<1>3. \A x \in Nat : x <= total - 1 => Below(F, x) = Below(N, x)
  <2> TAKE x \in Nat
  <2> HAVE x <= total - 1
  <2>1. {p \in F : p < x} = {p \in N : p < x}
    <3>1. \A p \in F : p < x => p < total - 1
      BY <1>1 DEF Among
    <3> QED
      BY <1>1, <3>1
  <2> QED
    BY <2>1 DEF Below
<1>4. Below(N, total - 1) = Cardinality(N) /\ Below(F, total) = Cardinality(F)
      /\ Cardinality(F) = IF total - 1 \in F THEN Cardinality(N) + 1 ELSE Cardinality(N)
  <2>1. PICK m \in Nat : m = total - 1
    OBVIOUS
  <2>2. Among(N, m)
    BY <1>1, <2>1 DEF Among
  <2>3. Below(N, m) = Cardinality(N)
    BY <2>2, BelowSteps
  <2>4. Below(F, total) = Cardinality(F)
    BY <1>1, BelowSteps
  <2>5. Below(F, m + 1) = IF m \in F THEN Below(F, m) + 1 ELSE Below(F, m)
    BY <1>1, <2>1, BelowSteps
  <2>6. m + 1 = total /\ Below(F, m) = Below(N, m)
    BY <1>3, <2>1
  <2> QED
    BY <2>1, <2>3, <2>4, <2>5, <2>6
<1>5. LinesFrom(data, amount) = IF amount >= K THEN <<>>
        ELSE SubSeq(data, StartOf(data, amount + 1), total)
  BY LinesFromIs
<1>6. SubSeq(data, total + 1, total) = <<>> /\ SubSeq(data, 1, total) = data
  BY SubSeqFull
<1>7. CASE amount = 0
  <2>1. Command!Forward("FLINES", amount, data) = data
    BY <1>7 DEF Command!Forward
  <2>2. ~(amount >= K) /\ amount + 1 = 1
    BY <1>2, <1>7
  <2> QED
    BY <1>5, <1>6, <2>1, <2>2, FirstStart
<1>8. CASE amount # 0
  <2>1. Command!Forward("FLINES", amount, data)
          = SubSeq(data, Command!BehindNewline(F, amount, total) + 1, total)
    BY <1>8 DEF Command!Forward, F
  <2>2. CASE Cardinality(F) < amount
    <3>1. Command!BehindNewline(F, amount, total) = total
      BY <2>2, SameCount DEF Command!BehindNewline
    <3>2. amount >= K
      BY <1>2, <1>4, <2>2
    <3> QED
      BY <1>5, <1>6, <2>1, <3>1, <3>2
  <2>3. CASE ~(Cardinality(F) < amount)
    <3>1. amount \in 1 .. Cardinality(F)
      BY <1>2, <1>8, <2>3
    <3>2. PICK o \in F : Command!BehindNewline(F, amount, total) = 1 + o /\ Below(F, o + 1) = amount
      BY <1>1, <3>1, BehindIs
    <3>3. o \in Nat /\ o < total /\ (1 + o) + 1 = o + 2
      BY <1>1 DEF Among
    <3>4. CASE o < total - 1
      <4>1. o \in N /\ Below(N, o + 1) = amount
        BY <1>1, <1>3, <3>2, <3>3, <3>4
      <4>2. amount + 1 \in 1 .. K /\ StartOf(data, amount + 1) = o + 2
        BY <4>1, NextStart DEF N
      <4>3. ~(amount >= K)
        BY <1>2, <4>2
      <4> QED
        BY <1>5, <2>1, <3>2, <3>3, <4>2, <4>3
    <3>5. CASE ~(o < total - 1)
      <4>1. o = total - 1 /\ 1 + o = total /\ o + 1 = total
        BY <3>3, <3>5
      <4>2. amount >= K
        BY <1>2, <1>4, <3>2, <4>1
      <4> QED
        BY <1>5, <1>6, <2>1, <3>2, <4>1, <4>2
    <3> QED
      BY <3>4, <3>5
  <2> QED
    BY <2>2, <2>3
<1> QED
  BY <1>7, <1>8

(* A file without a byte has no line, and nothing of it is shown.          *)
LEMMA NoLines ==
  ASSUME NEW skipped \in Nat
  PROVE  LinesFrom(<<>>, skipped) = <<>> /\ Len(Command!LinesOf(<<>>)) = 0
<1> DEFINE L == Command!LinesOf(<<>>)
<1>1. LineStarts(<<>>) = {}
  BY DEF LineStarts
<1>2. Cardinality(LineStarts(<<>>)) = 0
  BY <1>1, FS_EmptySet
<1>3. L = <<>>
  <2>1. L = [i \in 1 .. 0 |-> SubSeq(<<>>, StartOf(<<>>, i), StopOf(<<>>, i))]
    BY <1>2, LinesAre
  <2>2. 1 .. 0 = {}
    OBVIOUS
  <2> QED
    BY <2>1, <2>2
<1> HIDE DEF L
<1>4. LinesFrom(<<>>, skipped) = FlattenSeq(SubSeq(L, Command!Smaller(skipped, 0) + 1, 0))
  <2>1. Len(L) = 0
    BY <1>3
  <2> QED
    BY <2>1, SameFlatten DEF LinesFrom, L
<1>5. SubSeq(L, Command!Smaller(skipped, 0) + 1, 0) = <<>>
  <2>1. Command!Smaller(skipped, 0) = 0
    BY DEF Command!Smaller
  <2>2. SubSeq(<<>>, 0 + 1, 0) = <<>>
    OBVIOUS
  <2> QED
    BY <1>3, <2>1, <2>2
<1> QED
  BY <1>3, <1>4, <1>5, FlattenEmpty DEF L

LEMMA NothingShown ==
  ASSUME NEW amount \in Nat
  PROVE  /\ Command!Forward("FLINES", amount, <<>>) = <<>>
         /\ Command!Forward("RLINES", amount, <<>>) = <<>>
<1>1. SubSeq(<<>>, 0 + 1, 0) = <<>> /\ <<>> \o <<>> = <<>> /\ Len(<<>>) = 0
  OBVIOUS
<1>2. Command!Forward("FLINES", amount, <<>>) = <<>>
  <2>1. CASE amount = 0
    BY <2>1 DEF Command!Forward
  <2>2. CASE amount # 0
    <3>1. {o \in 0 .. 0 - 1 : <<>>[o + 1] = "nl"} = {}
      OBVIOUS
    <3>2. Command!BehindNewline({}, amount, 0) = 0
      BY <2>2, SameCount, FS_EmptySet DEF Command!BehindNewline
    <3>3. Command!Forward("FLINES", amount, <<>>)
            = SubSeq(<<>>, Command!BehindNewline({o \in 0 .. 0 - 1 : <<>>[o + 1]
                    = "nl"}, amount, 0) + 1, 0)
      BY <1>1, <2>2 DEF Command!Forward
    <3> QED
      BY <1>1, <3>1, <3>2, <3>3
  <2> QED
    BY <2>1, <2>2
<1>3. Command!Forward("RLINES", amount, <<>>) = <<>>
  <2>1. CASE amount = 0
    BY <2>1 DEF Command!Forward
  <2>2. CASE amount # 0
    <3>0. PICK t : ByWindows(t, <<>>, amount, 0)
      BY <1>1, RlinesByWindows
    <3>1. /\ t[0] = FirstWindow(<<>>, amount)
          /\ Command!Rlines(<<>>, amount) =
               [from |-> t[0].from, end |-> t[0].lo + t[0].n, to |-> t[0].remaining]
      BY <3>0 DEF ByWindows
    <3>2. Command!Smaller(0, MMAP_MAXSIZE) = 0
      BY TailSizes DEF Command!Smaller
    <3>3. t[0].from = 0 /\ t[0].lo = 0 - 0 /\ t[0].n = 0 /\ t[0].remaining = 0
      BY <1>1, <3>1, <3>2 DEF FirstWindow
    <3>4. Command!Rlines(<<>>, amount) = [from |-> 0, end |-> 0, to |-> 0]
      BY <3>1, <3>3
    <3>5. Command!Forward("RLINES", amount, <<>>) = SubSeq(<<>>, 0 + 1, 0) \o SubSeq(<<>>, 0 + 1, 0)
      BY <1>1, <2>2, <3>4 DEF Command!Forward
    <3> QED
      BY <1>1, <3>5
  <2> QED
    BY <2>1, <2>2
<1> QED
  BY <1>2, <1>3

(* The style and the offset that an option stands for.                     *)
StyleFor(letter, sign) ==
  CASE sign = "+" /\ letter = "n" -> "FLINES" [] sign = "+" /\ letter # "n" -> "FBYTES"
    [] sign # "+" /\ letter = "n" -> "RLINES" [] OTHER -> "RBYTES"
OffFor(letter, sign, n) ==
  LET unit == IF letter = "b" THEN BLOCK ELSE 1
  IN  IF sign = "+" THEN n * unit - unit ELSE n * unit

(* With it forward() shows what is asked for, of a file of any length, in  *)
(* windows and blocks of any size: rlines() looks for the last lines from  *)
(* window to window and still finds them, when no window ends in a newline *)
(* (forward.c:93 to 128, 230 to 314).                                      *)
LEMMA ForwardShows ==
  ASSUME NEW letter \in {"n", "c", "b"}, NEW sign \in {"none", "+", "-"}, NEW n \in Nat,
         NEW B, NEW data \in Seq(B), sign = "+" => n > 0,
         sign # "+" /\ letter = "n" => ~Command!NewlineAtBorder(data)
  PROVE  Command!Forward(StyleFor(letter, sign), OffFor(letter, sign, n), data) =
           Command!Wanted(letter, sign, n, data)
<1> DEFINE total == Len(data)
           amount == OffFor(letter, sign, n)
<1>1. total \in Nat /\ BLOCK \in Nat
  BY TailSizes
<1>2. amount \in Nat
  <2>1. CASE letter = "b"
    <3>1. n * BLOCK \in Nat
      BY <1>1
    <3>2. sign = "+" => BLOCK <= n * BLOCK
      <4> SUFFICES ASSUME sign = "+" PROVE BLOCK <= n * BLOCK
        OBVIOUS
      <4>1. PICK k \in Nat : n = k + 1
        <5>1. n - 1 \in Nat /\ n = (n - 1) + 1
          OBVIOUS
        <5> QED
          BY <5>1
      <4>2. n * BLOCK = k * BLOCK + BLOCK /\ k * BLOCK \in Nat
        BY <4>1, TailSizes, TimesGrows
      <4> QED
        BY <1>1, <4>2
    <3> QED
      BY <1>1, <2>1, <3>1, <3>2 DEF OffFor
  <2>2. CASE letter # "b"
    BY <2>2 DEF OffFor
  <2> QED
    BY <2>1, <2>2
<1>3. CASE sign = "+" /\ letter = "n"
  <2>1. amount = n - 1 /\ StyleFor(letter, sign) = "FLINES"
    BY <1>3 DEF OffFor, StyleFor
  <2>2. Command!Wanted(letter, sign, n, data) = LinesFrom(data, n - 1)
    BY <1>3 DEF Command!Wanted, LinesFrom
  <2>3. CASE total > 0
    <3>1. Cardinality(LineStarts(data)) \in Nat
      BY <1>1, <2>3, StartsAre, AmongFinite
    <3> QED
      BY <1>1, <1>2, <2>1, <2>2, <2>3, <3>1, FirstLinesSkipped
  <2>4. CASE ~(total > 0)
    <3>1. data = <<>> /\ total = 0
      BY <1>1, <2>4
    <3>2. LinesFrom(data, n - 1) = <<>>
      <4>1. n - 1 \in Nat
        BY <1>3
      <4>2. LinesFrom(<<>>, n - 1) = <<>>
        BY <4>1, NoLines
      <4> QED
        BY <3>1, <4>2, Zenon
    <3>3. Command!Forward("FLINES", amount, data) = <<>>
      BY <1>2, <3>1, NothingShown
    <3> QED
      BY <2>1, <2>2, <3>2, <3>3
  <2> QED
    BY <1>1, <2>3, <2>4
<1>4. CASE sign # "+" /\ letter = "n"
  <2>1. amount = n /\ StyleFor(letter, sign) = "RLINES"
    BY <1>4 DEF OffFor, StyleFor
  <2>2. Command!Wanted(letter, sign, n, data)
          = LinesFrom(data, Len(Command!LinesOf(data))
                              - Command!Smaller(n, Len(Command!LinesOf(data))))
    BY <1>4 DEF Command!Wanted, LinesFrom
  <2>3. CASE total > 0
    <3>1. PICK K \in Nat : K = Cardinality(LineStarts(data))
      BY <1>1, <2>3, StartsAre, AmongFinite
    <3>2. Len(Command!LinesOf(data)) = K
      BY <1>1, <2>3, <3>1, LinesFromIs
    <3>3. CASE n > 0
      BY <1>1, <1>4, <2>1, <2>2, <2>3, <3>1, <3>2, <3>3, LastLinesShown
    <3>4. CASE ~(n > 0)
      <4>1. n = 0 /\ K - Command!Smaller(n, K) = K
        BY <3>1, <3>4 DEF Command!Smaller
      <4>2. LinesFrom(data, K) = <<>>
        BY <1>1, <2>3, <3>1, LinesFromIs
      <4>3. Command!Forward("RLINES", 0, data) = <<>>
        BY DEF Command!Forward
      <4> QED
        BY <2>1, <2>2, <3>2, <4>1, <4>2, <4>3
    <3> QED
      BY <3>3, <3>4
  <2>4. CASE ~(total > 0)
    <3>1. data = <<>> /\ total = 0
      BY <1>1, <2>4
    <3>2. LinesFrom(data, 0) = <<>> /\ 0 - Command!Smaller(n, 0) = 0
          /\ Len(Command!LinesOf(data)) = 0
      <4>1. LinesFrom(<<>>, 0) = <<>> /\ Len(Command!LinesOf(<<>>)) = 0
        BY NoLines
      <4>2. 0 - Command!Smaller(n, 0) = 0
        <5>1. ~(n < 0) /\ 0 - 0 = 0
          OBVIOUS
        <5>2. Command!Smaller(n, 0) = 0
          BY <5>1 DEF Command!Smaller
        <5> QED
          BY <5>1, <5>2
      <4> QED
        BY <3>1, <4>1, <4>2, Zenon
    <3>3. Command!Forward("RLINES", amount, data) = <<>>
      BY <1>2, <3>1, NothingShown
    <3> QED
      BY <2>1, <2>2, <3>2, <3>3
  <2> QED
    BY <1>1, <2>3, <2>4
<1>5. CASE sign = "+" /\ letter # "n"
  <2>1. StyleFor(letter, sign) = "FBYTES"
    BY <1>5 DEF StyleFor
  <2>2. Command!Wanted(letter, sign, n, data)
          = SubSeq(data, Command!Smaller(amount, total) + 1, total)
    <3>1. CASE letter = "c"
      <4>1. amount = n - 1
        BY <1>5, <3>1 DEF OffFor
      <4> QED
        BY <1>5, <3>1, <4>1 DEF Command!Wanted
    <3>2. CASE letter = "b"
      <4>1. amount = n * BLOCK - BLOCK
        BY <1>5, <3>2 DEF OffFor
      <4> QED
        BY <1>5, <3>2, <4>1 DEF Command!Wanted
    <3> QED
      BY <1>5, <3>1, <3>2
  <2>3. Command!Forward("FBYTES", amount, data)
          = SubSeq(data, Command!Smaller(amount, total) + 1, total)
    BY DEF Command!Forward
  <2> QED
    BY <2>1, <2>2, <2>3
<1>6. CASE sign # "+" /\ letter # "n"
  <2>1. StyleFor(letter, sign) = "RBYTES"
    BY <1>6 DEF StyleFor
  <2>2. amount = n * (IF letter = "b" THEN BLOCK ELSE 1)
    BY <1>6 DEF OffFor
  <2>3. Command!Wanted(letter, sign, n, data)
          = SubSeq(data, Command!Smaller(total - Command!Smaller(amount, total), total) + 1, total)
    BY <1>6, <2>2 DEF Command!Wanted
  <2>4. Command!Smaller(total - Command!Smaller(amount, total), total)
          = IF total >= amount THEN total - amount ELSE 0
    BY <1>1, <1>2 DEF Command!Smaller
  <2>5. Command!Forward("RBYTES", amount, data)
          = SubSeq(data, (IF total >= amount THEN total - amount ELSE 0) + 1, total)
    BY DEF Command!Forward
  <2> QED
    BY <2>1, <2>3, <2>4, <2>5
<1> QED
  BY <1>3, <1>4, <1>5, <1>6

-----------------------------------------------------------------------------
(* Words of a few characters, and command lines of a few words.            *)
LEMMA FullOfTwo ==
  ASSUME NEW a, NEW b
  PROVE  SubSeq(<<a, b>>, 1, 2) = <<a, b>>
<1> DEFINE s == <<a, b>>
           S == {a, b}
<1>1. s \in Seq(S) /\ Len(s) = 2 /\ \A i \in 1 .. 2 : s[i] \in S
  OBVIOUS
<1> HIDE DEF s, S
<1>2. /\ SubSeq(s, 1, 2) \in Seq(S) /\ Len(SubSeq(s, 1, 2)) = 2
      /\ \A i \in 1 .. 2 : SubSeq(s, 1, 2)[i] = s[i]
  <2>1. /\ SubSeq(s, 1, 2) \in Seq(S) /\ Len(SubSeq(s, 1, 2)) = IF 1 <= 2 THEN 2 - 1 + 1 ELSE 0
        /\ \A i \in 1 .. 2 - 1 + 1 : SubSeq(s, 1, 2)[i] = s[1 + i - 1]
    BY <1>1, SubSeqProperties
  <2> QED
    BY <2>1
<1>3. SubSeq(s, 1, 2) = s
  BY <1>1, <1>2, SeqEqual
<1> QED
  BY <1>3 DEF s

LEMMA FrontOfThree ==
  ASSUME NEW a, NEW b, NEW c
  PROVE  /\ SubSeq(<<a, b, c>>, 1, 2) = <<a, b>> /\ SubSeq(<<a, b, c>>, 1, 3) = <<a, b, c>>
         /\ SubSeq(<<a, b, c>>, 3, 3) = <<c>>
<1> DEFINE s == <<a, b, c>>
           t == <<a, b>>
           u == <<c>>
           S == {a, b, c}
<1>1. /\ s \in Seq(S) /\ Len(s) = 3 /\ \A i \in 1 .. 3 : s[i] \in S
      /\ t \in Seq(S) /\ Len(t) = 2 /\ \A i \in 1 .. 2 : t[i] = s[i]
      /\ u \in Seq(S) /\ Len(u) = 1 /\ u[1] = s[3]
  OBVIOUS
<1> HIDE DEF s, t, u, S
<1>2. SubSeq(s, 1, 2) = t
  <2>1. /\ SubSeq(s, 1, 2) \in Seq(S) /\ Len(SubSeq(s, 1, 2)) = IF 1 <= 2 THEN 2 - 1 + 1 ELSE 0
        /\ \A i \in 1 .. 2 - 1 + 1 : SubSeq(s, 1, 2)[i] = s[1 + i - 1]
    BY <1>1, SubSeqProperties
  <2> QED
    BY <1>1, <2>1, SeqEqual
<1>3. SubSeq(s, 1, 3) = s
  <2>1. /\ SubSeq(s, 1, 3) \in Seq(S) /\ Len(SubSeq(s, 1, 3)) = IF 1 <= 3 THEN 3 - 1 + 1 ELSE 0
        /\ \A i \in 1 .. 3 - 1 + 1 : SubSeq(s, 1, 3)[i] = s[1 + i - 1]
    BY <1>1, SubSeqProperties
  <2> QED
    BY <1>1, <2>1, SeqEqual
<1>4. SubSeq(s, 3, 3) = u
  <2>1. /\ SubSeq(s, 3, 3) \in Seq(S) /\ Len(SubSeq(s, 3, 3)) = IF 3 <= 3 THEN 3 - 3 + 1 ELSE 0
        /\ \A i \in 1 .. 3 - 3 + 1 : SubSeq(s, 3, 3)[i] = s[3 + i - 1]
    BY <1>1, SubSeqProperties
  <2> QED
    BY <1>1, <2>1, SeqEqual
<1> QED
  BY <1>2, <1>3, <1>4 DEF s, t, u

LEMMA LastOfFour ==
  ASSUME NEW a, NEW b, NEW c, NEW d
  PROVE  SubSeq(<<a, b, c, d>>, 4, 4) = <<d>>
<1> DEFINE s == <<a, b, c, d>>
           u == <<d>>
           S == {a, b, c, d}
<1>1. /\ s \in Seq(S) /\ Len(s) = 4 /\ \A i \in 1 .. 4 : s[i] \in S
      /\ u \in Seq(S) /\ Len(u) = 1 /\ u[1] = s[4]
  OBVIOUS
<1> HIDE DEF s, u, S
<1>2. /\ SubSeq(s, 4, 4) \in Seq(S) /\ Len(SubSeq(s, 4, 4)) = IF 4 <= 4 THEN 4 - 4 + 1 ELSE 0
      /\ \A i \in 1 .. 4 - 4 + 1 : SubSeq(s, 4, 4)[i] = s[4 + i - 1]
  BY <1>1, SubSeqProperties
<1>3. SubSeq(s, 4, 4) = u
  BY <1>1, <1>2, SeqEqual
<1> QED
  BY <1>3 DEF s, u

LEMMA Joined ==
  ASSUME NEW S, NEW s \in Seq(S), NEW t \in Seq(S), NEW u \in Seq(S),
         Len(u) = Len(s) + Len(t), \A i \in 1 .. Len(s) : u[i] = s[i],
         \A i \in 1 .. Len(t) : u[Len(s) + i] = t[i]
  PROVE  s \o t = u
<1>1. /\ s \o t \in Seq(S) /\ Len(s \o t) = Len(s) + Len(t)
      /\ \A i \in 1 .. Len(s) + Len(t) : (s \o t)[i] = IF i <= Len(s) THEN s[i] ELSE t[i - Len(s)]
  BY ConcatProperties
<1>2. ASSUME NEW i \in 1 .. Len(u) PROVE u[i] = (s \o t)[i]
  <2>1. CASE i <= Len(s)
    BY <1>1, <2>1
  <2>2. CASE i > Len(s)
    <3>1. i - Len(s) \in 1 .. Len(t) /\ i = Len(s) + (i - Len(s))
      BY <2>2
    <3>2. u[Len(s) + (i - Len(s))] = t[i - Len(s)]
      BY <3>1
    <3> QED
      BY <1>1, <2>2, <3>1, <3>2
  <2> QED
    BY <2>1, <2>2
<1> QED
  BY <1>1, <1>2, SeqEqual

LEMMA OneAndOne ==
  ASSUME NEW a, NEW b
  PROVE  <<a>> \o <<b>> = <<a, b>>
<1> DEFINE S == {a, b}
           s == <<a>>
           t == <<b>>
           u == <<a, b>>
<1>1. /\ s \in Seq(S) /\ Len(s) = 1 /\ s[1] = a
      /\ t \in Seq(S) /\ Len(t) = 1 /\ t[1] = b
      /\ u \in Seq(S) /\ Len(u) = 2 /\ u[1] = a /\ u[2] = b
  OBVIOUS
<1> HIDE DEF S, s, t, u
<1>2. s \o t = u
  <2>1. /\ Len(u) = Len(s) + Len(t)
        /\ \A i \in 1 .. Len(s) : u[i] = s[i]
        /\ \A i \in 1 .. Len(t) : u[Len(s) + i] = t[i]
    BY <1>1
  <2> QED
    BY <1>1, <2>1, Joined
<1> QED
  BY <1>2 DEF s, t, u

LEMMA OneAndTwo ==
  ASSUME NEW a, NEW b, NEW c
  PROVE  <<a>> \o <<b, c>> = <<a, b, c>>
<1> DEFINE S == {a, b, c}
           s == <<a>>
           t == <<b, c>>
           u == <<a, b, c>>
<1>1. /\ s \in Seq(S) /\ t \in Seq(S) /\ u \in Seq(S) /\ Len(u) = Len(s) + Len(t)
      /\ \A i \in 1 .. Len(s) : u[i] = s[i]
      /\ \A i \in 1 .. Len(t) : u[Len(s) + i] = t[i]
  OBVIOUS
<1> HIDE DEF S, s, t, u
<1>2. s \o t = u
  BY <1>1, Joined
<1> QED
  BY <1>2 DEF s, t, u

LEMMA TwoAndOne ==
  ASSUME NEW a, NEW b, NEW c
  PROVE  <<a, b>> \o <<c>> = <<a, b, c>>
<1> DEFINE S == {a, b, c}
           s == <<a, b>>
           t == <<c>>
           u == <<a, b, c>>
<1>1. /\ s \in Seq(S) /\ t \in Seq(S) /\ u \in Seq(S) /\ Len(u) = Len(s) + Len(t)
      /\ \A i \in 1 .. Len(s) : u[i] = s[i]
      /\ \A i \in 1 .. Len(t) : u[Len(s) + i] = t[i]
  OBVIOUS
<1> HIDE DEF S, s, t, u
<1>2. s \o t = u
  BY <1>1, Joined
<1> QED
  BY <1>2 DEF s, t, u

LEMMA TwoAndTwo ==
  ASSUME NEW a, NEW b, NEW c, NEW d
  PROVE  <<a, b>> \o <<c, d>> = <<a, b, c, d>>
<1> DEFINE S == {a, b, c, d}
           s == <<a, b>>
           t == <<c, d>>
           u == <<a, b, c, d>>
<1>1. /\ s \in Seq(S) /\ t \in Seq(S) /\ u \in Seq(S) /\ Len(u) = Len(s) + Len(t)
      /\ \A i \in 1 .. Len(s) : u[i] = s[i]
      /\ \A i \in 1 .. Len(t) : u[Len(s) + i] = t[i]
  OBVIOUS
<1> HIDE DEF S, s, t, u
<1>2. s \o t = u
  BY <1>1, Joined
<1> QED
  BY <1>2 DEF s, t, u

LEMMA ThreeAndOne ==
  ASSUME NEW a, NEW b, NEW c, NEW d
  PROVE  <<a, b, c>> \o <<d>> = <<a, b, c, d>>
<1> DEFINE S == {a, b, c, d}
           s == <<a, b, c>>
           t == <<d>>
           u == <<a, b, c, d>>
<1>1. /\ s \in Seq(S) /\ t \in Seq(S) /\ u \in Seq(S) /\ Len(u) = Len(s) + Len(t)
      /\ \A i \in 1 .. Len(s) : u[i] = s[i]
      /\ \A i \in 1 .. Len(t) : u[Len(s) + i] = t[i]
  OBVIOUS
<1> HIDE DEF S, s, t, u
<1>2. s \o t = u
  BY <1>1, Joined
<1> QED
  BY <1>2 DEF s, t, u

-----------------------------------------------------------------------------
(* tail's command line.  A digit and the number it stands for.             *)
LEMMA DigitIs ==
  ASSUME NEW n \in 0 .. 9, NEW d, d = Command!Digits[n + 1]
  PROVE  /\ d \in Command!Digit /\ Command!Value(d) = n
         /\ d \notin {"-", "+", "b", "c", "n", "f", "r", "l", "illegal"}
<1>1. /\ Command!Digits[0 + 1] = "0" /\ Command!Digits[1 + 1] = "1" /\ Command!Digits[2 + 1] = "2"
      /\ Command!Digits[3 + 1] = "3" /\ Command!Digits[4 + 1] = "4" /\ Command!Digits[5 + 1] = "5"
      /\ Command!Digits[6 + 1] = "6" /\ Command!Digits[7 + 1] = "7" /\ Command!Digits[8 + 1] = "8"
      /\ Command!Digits[9 + 1] = "9" /\ DOMAIN Command!Digits = 1 .. 10
  BY DEF Command!Digits
<1> DEFINE D(k) == Command!Digits[k + 1]
<1>2. \A k \in 0 .. 9 : k = 0 \/ k = 1 \/ k = 2 \/ k = 3 \/ k = 4 \/ k = 5 \/ k = 6 \/ k
        = 7 \/ k = 8 \/ k = 9
  OBVIOUS
<1>3. \A k \in 0 .. 9 : D(k) \notin {"-", "+", "b", "c", "n", "f", "r", "l", "illegal"}
  <2> HIDE DEF D
  <2>1. /\ D(0) = "0" /\ D(1) = "1" /\ D(2) = "2" /\ D(3) = "3" /\ D(4) = "4" /\ D(5) = "5"
        /\ D(6) = "6" /\ D(7) = "7" /\ D(8) = "8" /\ D(9) = "9"
    BY <1>1 DEF D
  <2>2. ASSUME NEW k \in 0 .. 9
        PROVE  D(k) \in {"0", "1", "2", "3", "4", "5", "6", "7", "8", "9"}
    BY <1>2, <2>1
  <2>3. \A c \in {"0", "1", "2", "3", "4", "5", "6", "7", "8", "9"} :
           c \notin {"-", "+", "b", "c", "n", "f", "r", "l", "illegal"}
    OBVIOUS
  <2>5. ASSUME NEW k \in 0 .. 9
        PROVE  D(k) \notin {"-", "+", "b", "c", "n", "f", "r", "l", "illegal"}
    <3>1. PICK c \in {"0", "1", "2", "3", "4", "5", "6", "7", "8", "9"} : D(k) = c
      BY <2>2
    <3> QED
      BY <2>3, <3>1
  <2> QED
    BY <2>5
<1>4. \A k \in 0 .. 9 : D(k) = D(n) => k = n
  <2> HIDE DEF D
  <2>1. /\ D(0) = "0" /\ D(1) = "1" /\ D(2) = "2" /\ D(3) = "3" /\ D(4) = "4" /\ D(5) = "5"
        /\ D(6) = "6" /\ D(7) = "7" /\ D(8) = "8" /\ D(9) = "9"
    BY <1>1 DEF D
  <2> QED
    BY <1>2, <2>1
<1>5. Command!Value(d) = CHOOSE k \in 0 .. 9 : D(k) = D(n)
  BY DEF Command!Value
<1>6. Command!Value(d) = n
  <2> HIDE DEF D
  <2> QED
    BY <1>4, <1>5
<1>7. d \in Command!Digit
  <2>1. n + 1 \in 1 .. 10
    OBVIOUS
  <2> QED
    BY <1>1, <2>1 DEF Command!Digit, Command!ToSet
<1> QED
  BY <1>3, <1>6, <1>7

LEMMA LetterIsNoDigit ==
  \A c \in {"n", "c", "b", "-", "+", "l", "f", "r"} : c \notin Command!Digit
<1> TAKE c \in {"n", "c", "b", "-", "+", "l", "f", "r"}
<1> SUFFICES ASSUME c \in Command!Digit PROVE FALSE
  OBVIOUS
<1>1. DOMAIN Command!Digits = 1 .. 10
  BY DEF Command!Digits
<1>2. PICK i \in 1 .. 10 : c = Command!Digits[i]
  BY <1>1 DEF Command!Digit, Command!ToSet
<1>3. i - 1 \in 0 .. 9 /\ (i - 1) + 1 = i
  OBVIOUS
<1>4. c \notin {"-", "+", "b", "c", "n", "f", "r", "l", "illegal"}
  BY <1>2, <1>3, DigitIs
<1> QED
  BY <1>4

(* The argument of the option, and the number in it. *)
ArgOf(sign, d) == IF sign = "none" THEN <<d>> ELSE <<sign, d>>

LEMMA NumberIs ==
  ASSUME NEW n \in 0 .. 9, NEW d, d = Command!Digits[n + 1], NEW sign \in {"none", "+", "-"}
  PROVE  Command!Number(ArgOf(sign, d)) = n
<1> DEFINE s == ArgOf(sign, d)
           digits == IF Command!Signed(s) THEN Tail(s) ELSE s
           value == CHOOSE v : v = [i \in 0 .. Len(digits) |->
                      IF i = 0 THEN 0 ELSE 10 * v[i - 1] + Command!Value(digits[i])]
           m == Command!Cardinality({i \in DOMAIN digits : \A j \in 1 .. i :
                   digits[j] \in Command!Digit})
<1>1. d \in Command!Digit /\ Command!Value(d) = n /\ d # "-" /\ d # "+"
  BY DigitIs
<1>2. digits = <<d>>
  <2>1. CASE sign = "none"
    <3>1. s = <<d>> /\ Command!Word(s, 1) = d
      BY <2>1 DEF ArgOf, Command!Word
    <3> QED
      BY <1>1, <3>1 DEF Command!Signed
  <2>2. CASE sign # "none"
    <3>1. s = <<sign, d>> /\ Command!Word(s, 1) = sign
      BY <2>2 DEF ArgOf, Command!Word
    <3> QED
      BY <2>2, <3>1 DEF Command!Signed
  <2> QED
    BY <2>1, <2>2
<1>3. Command!Number(s) = value[m]
  BY DEF Command!Number
<1>4. m = 1
  <2> HIDE DEF digits
  <2>1. {i \in DOMAIN digits : \A j \in 1 .. i : digits[j] \in Command!Digit} = {1}
    BY <1>1, <1>2
  <2> QED
    BY <2>1, FS_Singleton, SameCount
<1>5. value[1] = n
  <2> HIDE DEF digits
  <2> DEFINE v == [i \in 0 .. 1 |-> IF i = 0 THEN 0 ELSE n]
             V(x) == x = [i \in 0 .. Len(digits) |->
                      IF i = 0 THEN 0 ELSE 10 * x[i - 1] + Command!Value(digits[i])]
  <2>1. Len(digits) = 1 /\ digits[1] = d
    BY <1>2
  <2>2. V(v)
    BY <1>1, <2>1
  <2>3. value = CHOOSE x : V(x)
    OBVIOUS
  <2>4. \A x : V(x) => x[1] = n
    <3> TAKE x
    <3> HAVE V(x)
    <3>1. x[0] = 0 /\ x[1] = 10 * x[0] + Command!Value(digits[1])
      BY <2>1
    <3> QED
      BY <1>1, <2>1, <3>1
  <2> HIDE DEF V, v, value
  <2>5. V(value)
    BY <2>2, <2>3
  <2> QED
    BY <2>4, <2>5
<1> QED
  BY <1>3, <1>4, <1>5

-----------------------------------------------------------------------------
(* obsolete(), word by word.                                               *)
OldStart == [at |-> 2, old |-> {}, past |-> FALSE, over |-> FALSE]
OldTurns(t, av, m) ==
  t = [i \in 0 .. m |-> IF i = 0 THEN OldStart ELSE Command!OldTurn(t[i - 1], av)]

LEMMA ObsoleteIsALoop ==
  ASSUME NEW av
  PROVE  \E t : /\ t = CHOOSE g : OldTurns(g, av, Len(av))
                /\ Command!Obsolete(av) =
                     [argv |-> [i \in DOMAIN av |->
                                  IF i \in t[Len(av)].old THEN Command!NewWord(av[i]) ELSE av[i]],
                      past |-> t[Len(av)].past]
BY DEF Command!Obsolete, OldTurns, OldStart

LEMMA OldTurnsExist ==
  ASSUME NEW av, NEW m \in Nat
  PROVE  \E t : OldTurns(t, av, m)
<1> DEFINE T == {k \in Nat : \E t : OldTurns(t, av, k)}
<1>1. 0 \in T
  <2> DEFINE t == [i \in 0 .. 0 |-> OldStart]
  <2>1. OldTurns(t, av, 0)
    BY DEF OldTurns
  <2> QED
    BY <2>1
<1>2. ASSUME NEW k \in Nat, k \in T PROVE k + 1 \in T
  <2>1. PICK g : OldTurns(g, av, k)
    BY <1>2
  <2>2. \A i \in 0 .. k : g[i] = IF i = 0 THEN OldStart ELSE Command!OldTurn(g[i - 1], av)
    BY <2>1 DEF OldTurns
  <2> DEFINE t == [i \in 0 .. k + 1 |-> IF i = k + 1 THEN Command!OldTurn(g[k], av) ELSE g[i]]
  <2>3. t[k + 1] = Command!OldTurn(g[k], av) /\ \A i \in 0 .. k : t[i] = g[i]
    OBVIOUS
  <2>4. t = [i \in 0 .. k + 1 |-> t[i]]
    OBVIOUS
  <2> HIDE DEF t
  <2>5. ASSUME NEW i \in 0 .. k + 1
        PROVE  t[i] = IF i = 0 THEN OldStart ELSE Command!OldTurn(t[i - 1], av)
    <3>1. CASE i = k + 1
      <4>1. i # 0 /\ i - 1 = k /\ k \in 0 .. k
        BY <3>1
      <4> QED
        BY <2>3, <3>1, <4>1
    <3>2. CASE i # k + 1
      <4>1. i \in 0 .. k /\ (i # 0 => i - 1 \in 0 .. k)
        BY <3>2
      <4> QED
        BY <2>2, <2>3, <4>1
    <3> QED
      BY <3>1, <3>2
  <2>6. OldTurns(t, av, k + 1)
    BY <2>4, <2>5 DEF OldTurns
  <2> QED
    BY <2>6
<1> HIDE DEF T
<1>3. m \in T
  BY <1>1, <1>2, NatInd
<1> QED
  BY <1>3 DEF T

IsOld(s) == DOMAIN s = {"at", "old", "past", "over"}

(* When it is over after two words, it has done what they ask for.         *)
OldByTwo(av, s1, s2) ==
  /\ Len(av) \in Nat /\ Len(av) >= 2 /\ IsOld(s2) /\ s2.over = TRUE
  /\ s1 = Command!OldTurn(OldStart, av) /\ s2 = Command!OldTurn(s1, av)

LEMMA ObsoleteByTwo ==
  ASSUME NEW av, NEW s1, NEW s2, OldByTwo(av, s1, s2)
  PROVE  Command!Obsolete(av) =
           [argv |-> [i \in DOMAIN av |->
                        IF i \in s2.old THEN Command!NewWord(av[i]) ELSE av[i]],
            past |-> s2.past]
<1>0. PICK total \in Nat : /\ total = Len(av) /\ total >= 2 /\ IsOld(s2) /\ s2.over = TRUE
                         /\ s1 = Command!OldTurn(OldStart, av) /\ s2 = Command!OldTurn(s1, av)
  BY DEF OldByTwo
<1>1. PICK t : /\ t = CHOOSE g : OldTurns(g, av, total)
               /\ Command!Obsolete(av) =
                     [argv |-> [i \in DOMAIN av |->
                                  IF i \in t[total].old THEN Command!NewWord(av[i]) ELSE av[i]],
                      past |-> t[total].past]
  BY <1>0, ObsoleteIsALoop
<1>2. OldTurns(t, av, total)
  BY <1>1, OldTurnsExist
<1>3. \A i \in 0 .. total : t[i] = IF i = 0 THEN OldStart ELSE Command!OldTurn(t[i - 1], av)
  BY <1>2 DEF OldTurns
<1>4. t[2] = s2
  <2>1. 0 \in 0 .. total /\ 1 \in 0 .. total /\ 2 \in 0 .. total /\ 1 - 1 = 0 /\ 2 - 1 = 1
    BY <1>0
  <2>2. t[0] = OldStart /\ t[1] = Command!OldTurn(t[0], av)
    BY <1>3, <2>1
  <2>3. t[2] = Command!OldTurn(t[1], av)
    BY <1>3, <2>1
  <2> QED
    BY <1>0, <2>2, <2>3
<1> DEFINE Same(x) == IsOld(x) /\ x.over = TRUE /\ x.old = s2.old /\ x.past = s2.past
           T == {i \in 2 .. total : Same(t[i])}
<1>5. \A x : Same(x) => Same(Command!OldTurn(x, av))
  <2> TAKE x
  <2> HAVE Same(x)
  <2>1. Command!OldTurn(x, av) = [x EXCEPT !.over = TRUE]
    BY DEF Command!OldTurn
  <2> QED
    BY <2>1 DEF IsOld
<1> HIDE DEF Same
<1>6. 2 \in T
  BY <1>0, <1>4 DEF Same
<1>7. \A i \in 2 .. total : i \in T /\ i < total => i + 1 \in T
  <2> TAKE i \in 2 .. total
  <2> HAVE i \in T /\ i < total
  <2>1. i + 1 \in 0 .. total /\ i + 1 # 0 /\ (i + 1) - 1 = i /\ i + 1 \in 2 .. total
    OBVIOUS
  <2>2. t[i + 1] = Command!OldTurn(t[i], av)
    BY <1>3, <2>1
  <2> QED
    BY <1>5, <2>1, <2>2
<1>8. total \in T
  <2> HIDE DEF T
  <2>1. 2 .. total \subseteq T
    BY <1>0, <1>6, <1>7, RangeInd
  <2> QED
    BY <1>0, <2>1
<1> QED
  BY <1>1, <1>8 DEF Same

Apart(L, arg) == << <<"tail">>, <<"-", L>>, arg, <<"file">> >>
Glued(word) == << <<"tail">>, word, <<"file">> >>
DashWord(L, sign, d) == IF sign = "none" THEN <<"-", L, d>> ELSE <<"-", L, sign, d>>

(* What the next word makes of s: nothing more, or it is counted.          *)
OldEnds(s, t) == IsOld(t) /\ t.over = TRUE /\ t.old = s.old /\ t.past = s.past
OldGoes(s, t, k, old) ==
  /\ IsOld(t) /\ t.over = s.over /\ t.past = s.past
  /\ t.at = s.at + k /\ t.old = s.old \cup old

(* What the word w at "at" makes of it: k words on, with those rewritten. *)
OldTakes(w, here, total, k, old) ==
  \/ Command!Word(w, 2) \in Command!Digit /\ k = 1 /\ old = {here}
  \/ Command!Word(w, 2) \in {"b", "c", "n"} /\ Len(w) = 2 /\ here < total /\ k = 2 /\ old = {}
  \/ Command!Word(w, 2) \in {"b", "c", "n"} /\ Len(w) \in Nat /\ Len(w) > 2 /\ k = 1 /\ old = {}

LEMMA OldTurnEnds ==
  ASSUME NEW s, NEW av, IsOld(s), Command!Word(av[s.at], 1) \notin {"-", "+"}
  PROVE  OldEnds(s, Command!OldTurn(s, av))
<1>1. PICK t : t = Command!OldTurn(s, av)
  OBVIOUS
<1>2. t = [s EXCEPT !.over = TRUE]
  BY <1>1 DEF Command!OldTurn
<1>3. IsOld(t) /\ t.over = TRUE /\ t.old = s.old /\ t.past = s.past
  BY <1>2 DEF IsOld
<1> QED
  BY <1>1, <1>3 DEF OldEnds

LEMMA MoreThanTwo == \A n \in Nat : n > 2 => n # 2
OBVIOUS

LEMMA OldTurnTakes ==
  ASSUME NEW s, NEW av, NEW k, NEW old, IsOld(s), s.over = FALSE,
         ~(s.at > Len(av)), Command!Word(av[s.at], 1) \in {"-", "+"},
         Command!Word(av[s.at], 2) # "-", OldTakes(av[s.at], s.at, Len(av), k, old)
  PROVE  OldGoes(s, Command!OldTurn(s, av), k, old)
<1>1. PICK t : t = Command!OldTurn(s, av)
  OBVIOUS
<1> DEFINE w == av[s.at]
           c == Command!Word(w, 2)
           go(n, add) == [s EXCEPT !.at = s.at + n, !.old = s.old \cup add]
           end == [s EXCEPT !.over = TRUE]
           past == [s EXCEPT !.past = TRUE, !.over = TRUE]
<1>2. t = CASE c \in Command!Digit -> go(1, {s.at})
            [] c \in {"b", "c", "n"} /\ Len(w) = 2 -> IF s.at < Len(av) THEN go(2, {}) ELSE past
            [] c \in {"b", "c", "n", "f", "r"} /\ (c \in {"f", "r"} \/ Len(w) > 2) -> go(1, {})
            [] OTHER -> end
  BY <1>1 DEF Command!OldTurn
<1>3. t = go(k, old)
  <2> HIDE DEF go, end, past, w
  <2>1. CASE c \in Command!Digit /\ k = 1 /\ old = {s.at}
    <3>1. c \notin {"b", "c", "n", "f", "r"}
      BY <2>1, LetterIsNoDigit
    <3> QED
      BY <1>2, <2>1, <3>1
  <2>2. CASE c \in {"b", "c", "n"} /\ Len(w) = 2 /\ s.at < Len(av) /\ k = 2 /\ old = {}
    <3>1. c \notin Command!Digit
      BY <2>2, LetterIsNoDigit
    <3>2. ~(c \in {"b", "c", "n", "f", "r"} /\ (c \in {"f", "r"} \/ Len(w) > 2))
      BY <2>2
    <3> QED
      BY <1>2, <2>2, <3>1, <3>2
  <2>3. CASE c \in {"b", "c", "n"} /\ Len(w) \in Nat /\ Len(w) > 2 /\ k = 1 /\ old = {}
    <3>1. c \notin Command!Digit
      BY <2>3, LetterIsNoDigit
    <3>2. ~(c \in {"b", "c", "n"} /\ Len(w) = 2)
      <4>1. Len(w) # 2
        BY <2>3, MoreThanTwo, Zenon
      <4> QED
        BY <4>1, Zenon
    <3> QED
      BY <1>2, <2>3, <3>1, <3>2
  <2> QED
    BY <2>1, <2>2, <2>3 DEF OldTakes, w
<1>4. IsOld(t) /\ t.over = s.over /\ t.past = s.past /\ t.at = s.at + k /\ t.old = s.old \cup old
  <2>1. PICK x, y : x = s.at + k /\ y = s.old \cup old
    OBVIOUS
  <2>2. t = [s EXCEPT !.at = x, !.old = y]
    BY <1>3, <2>1
  <2>3. IsOld(t) /\ t.over = s.over /\ t.past = s.past /\ t.at = x /\ t.old = y
    BY <2>2 DEF IsOld
  <2> QED
    BY <2>1, <2>3
<1> QED
  BY <1>1, <1>4 DEF OldGoes

LEMMA StartIsOld ==
  /\ IsOld(OldStart) /\ OldStart.at = 2 /\ OldStart.old = {}
  /\ OldStart.over = FALSE /\ OldStart.past = FALSE
BY DEF OldStart, IsOld

(* It leaves -n 5 and -n5 as they are,                                     *)
LEMMA ApartIsKept ==
  ASSUME NEW L \in {"n", "c", "b"}, NEW arg
  PROVE  Command!Obsolete(Apart(L, arg)) = [argv |-> Apart(L, arg), past |-> FALSE]
<1>1. PICK av, w, f : av = Apart(L, arg) /\ w = <<"-", L>> /\ f = <<"file">>
  OBVIOUS
<1>2. /\ Len(av) = 4 /\ DOMAIN av = 1 .. 4 /\ av[2] = w /\ av[4] = f
      /\ av = [i \in DOMAIN av |-> av[i]]
  BY <1>1 DEF Apart
<1>3. /\ Command!Word(w, 1) = "-" /\ Command!Word(w, 2) = L /\ Len(w) = 2
      /\ Command!Word(f, 1) = "file" /\ L # "-" /\ L \notin Command!Digit
  BY <1>1, LetterIsNoDigit DEF Command!Word
<1>4. PICK s1, s2 : s1 = Command!OldTurn(OldStart, av) /\ s2 = Command!OldTurn(s1, av)
  OBVIOUS
<1>5. OldGoes(OldStart, s1, 2, {})
  <2>1. av[OldStart.at] = w /\ ~(OldStart.at > Len(av))
    BY <1>2, StartIsOld
  <2>2. OldTakes(av[OldStart.at], OldStart.at, Len(av), 2, {})
    BY <1>2, <1>3, <2>1, StartIsOld DEF OldTakes
  <2> QED
    BY <1>3, <1>4, <2>1, <2>2, StartIsOld, OldTurnTakes
<1>6. IsOld(s1) /\ s1.at = 4 /\ s1.old = {} /\ s1.past = FALSE /\ s1.over = FALSE
  BY <1>5, StartIsOld DEF OldGoes
<1>7. OldEnds(s1, s2)
  <2>1. av[s1.at] = f
    BY <1>2, <1>6
  <2> QED
    BY <1>3, <1>4, <1>6, <2>1, OldTurnEnds
<1>8. IsOld(s2) /\ s2.old = {} /\ s2.past = FALSE /\ s2.over = TRUE
  BY <1>6, <1>7 DEF OldEnds
<1>9. Command!Obsolete(av) =
        [argv |-> [i \in DOMAIN av |->
                     IF i \in s2.old THEN Command!NewWord(av[i]) ELSE av[i]],
         past |-> s2.past]
  <2>1. OldByTwo(av, s1, s2)
    BY <1>2, <1>4, <1>8 DEF OldByTwo
  <2> QED
    BY <2>1, ObsoleteByTwo
<1>10. [i \in DOMAIN av |-> IF i \in s2.old THEN Command!NewWord(av[i]) ELSE av[i]] = av
  BY <1>2, <1>8
<1> QED
  BY <1>1, <1>8, <1>9, <1>10

LEMMA GluedIsKept ==
  ASSUME NEW L \in {"n", "c", "b"}, NEW w, Len(w) \in {3, 4}, w[1] = "-", w[2] = L
  PROVE  Command!Obsolete(Glued(w)) = [argv |-> Glued(w), past |-> FALSE]
<1>1. PICK av, f : av = Glued(w) /\ f = <<"file">>
  OBVIOUS
<1>2. /\ Len(av) = 3 /\ DOMAIN av = 1 .. 3 /\ av[2] = w /\ av[3] = f
      /\ av = [i \in DOMAIN av |-> av[i]]
  BY <1>1 DEF Glued
<1>3. /\ Command!Word(w, 1) = "-" /\ Command!Word(w, 2) = L /\ Len(w) \in Nat /\ Len(w) > 2
      /\ Command!Word(f, 1) = "file" /\ L # "-" /\ L \notin Command!Digit
  BY <1>1, LetterIsNoDigit DEF Command!Word
<1>4. PICK s1, s2 : s1 = Command!OldTurn(OldStart, av) /\ s2 = Command!OldTurn(s1, av)
  OBVIOUS
<1>5. OldGoes(OldStart, s1, 1, {})
  <2>1. av[OldStart.at] = w /\ ~(OldStart.at > Len(av))
    BY <1>2, StartIsOld
  <2>2. OldTakes(av[OldStart.at], OldStart.at, Len(av), 1, {})
    BY <1>2, <1>3, <2>1, StartIsOld DEF OldTakes
  <2> QED
    BY <1>3, <1>4, <2>1, <2>2, StartIsOld, OldTurnTakes
<1>6. IsOld(s1) /\ s1.at = 3 /\ s1.old = {} /\ s1.past = FALSE /\ s1.over = FALSE
  BY <1>5, StartIsOld DEF OldGoes
<1>7. OldEnds(s1, s2)
  <2>1. av[s1.at] = f
    BY <1>2, <1>6
  <2> QED
    BY <1>3, <1>4, <1>6, <2>1, OldTurnEnds
<1>8. IsOld(s2) /\ s2.old = {} /\ s2.past = FALSE /\ s2.over = TRUE
  BY <1>6, <1>7 DEF OldEnds
<1>9. Command!Obsolete(av) =
        [argv |-> [i \in DOMAIN av |->
                     IF i \in s2.old THEN Command!NewWord(av[i]) ELSE av[i]],
         past |-> s2.past]
  <2>1. OldByTwo(av, s1, s2)
    BY <1>2, <1>4, <1>8 DEF OldByTwo
  <2> QED
    BY <2>1, ObsoleteByTwo
<1>10. [i \in DOMAIN av |-> IF i \in s2.old THEN Command!NewWord(av[i]) ELSE av[i]] = av
  BY <1>2, <1>8
<1> QED
  BY <1>1, <1>8, <1>9, <1>10

(* and rewrites +5l. *)
LEMMA OldIsRewritten ==
  ASSUME NEW w, Len(w) \in {2, 3}, w[1] \in {"-", "+"}, w[2] \in Command!Digit
  PROVE  Command!Obsolete(Glued(w)) = [argv |-> Glued(Command!NewWord(w)), past |-> FALSE]
<1>1. PICK av, f, new : av = Glued(w) /\ f = <<"file">> /\ new = Command!NewWord(w)
  OBVIOUS
<1>2. Len(av) = 3 /\ DOMAIN av = 1 .. 3 /\ av[1] = <<"tail">> /\ av[2] = w /\ av[3] = f
  BY <1>1 DEF Glued
<1>3. /\ Command!Word(w, 1) \in {"-", "+"} /\ Command!Word(w, 2) \in Command!Digit
      /\ Command!Word(w, 2) # "-" /\ Command!Word(f, 1) = "file"
  BY <1>1, LetterIsNoDigit DEF Command!Word
<1>4. PICK s1, s2 : s1 = Command!OldTurn(OldStart, av) /\ s2 = Command!OldTurn(s1, av)
  OBVIOUS
<1>5. OldGoes(OldStart, s1, 1, {2})
  <2>1. av[OldStart.at] = w /\ ~(OldStart.at > Len(av))
    BY <1>2, StartIsOld
  <2>2. OldTakes(av[OldStart.at], OldStart.at, Len(av), 1, {2})
    BY <1>2, <1>3, <2>1, StartIsOld DEF OldTakes
  <2> QED
    BY <1>3, <1>4, <2>1, <2>2, StartIsOld, OldTurnTakes
<1>6. IsOld(s1) /\ s1.at = 3 /\ s1.old = {2} /\ s1.past = FALSE /\ s1.over = FALSE
  BY <1>5, StartIsOld DEF OldGoes
<1>7. OldEnds(s1, s2)
  <2>1. av[s1.at] = f
    BY <1>2, <1>6
  <2> QED
    BY <1>3, <1>4, <1>6, <2>1, OldTurnEnds
<1>8. IsOld(s2) /\ s2.old = {2} /\ s2.past = FALSE /\ s2.over = TRUE
  BY <1>6, <1>7 DEF OldEnds
<1>9. Command!Obsolete(av) =
        [argv |-> [i \in DOMAIN av |->
                     IF i \in s2.old THEN Command!NewWord(av[i]) ELSE av[i]],
         past |-> s2.past]
  <2>1. OldByTwo(av, s1, s2)
    BY <1>2, <1>4, <1>8 DEF OldByTwo
  <2> QED
    BY <2>1, ObsoleteByTwo
<1>10. [i \in DOMAIN av |-> IF i \in s2.old THEN Command!NewWord(av[i]) ELSE av[i]]
        = <<<<"tail">>, new, f>>
  <2>1. \A i \in 1 .. 3 : i = 1 \/ i = 2 \/ i = 3
    OBVIOUS
  <2>2. [i \in 1 .. 3 |-> IF i \in {2} THEN Command!NewWord(av[i]) ELSE av[i]]
          = <<<<"tail">>, new, f>>
    BY <1>1, <1>2, <2>1
  <2> QED
    BY <1>2, <1>8, <2>2
<1> QED
  BY <1>1, <1>8, <1>9, <1>10 DEF Glued

(* The word it is rewritten to. *)
OldWord(w, L, sign, d) ==
  \/ w = <<sign, d>> /\ L = "n"
  \/ w = <<sign, d, "l">> /\ L = "n"
  \/ w = <<sign, d, L>> /\ L \in {"b", "c"}

LEMMA FourTogether ==
  \A a, b, c, d : <<a>> \o <<>> \o <<b, c>> \o <<d>> = <<a, b, c, d>>
<1> TAKE a, b, c, d
<1> DEFINE S == {a, b, c, d}
           A == <<a>>
           BC == <<b, c>>
           ABC == <<a, b, c>>
           e == <<>>
           D == <<d>>
<1>1. A \in Seq(S)
  OBVIOUS
<1>2. A \o e = A
  BY <1>1, ConcatEmptySeq
<1>3. A \o BC = ABC
  BY OneAndTwo
<1> DEFINE ABCD == <<a, b, c, d>>
<1>5. ABC \o D = ABCD
  BY ThreeAndOne, Zenon
<1> HIDE DEF S, A, BC, ABC, e, D, ABCD
<1>6. ((A \o e) \o BC) \o D = ABCD
  BY <1>2, <1>3, <1>5
<1> QED
  BY <1>6 DEF A, BC, e, D, ABCD

LEMMA NewWordIs ==
  ASSUME NEW d \in Command!Digit, NEW sign, NEW L, NEW w, OldWord(w, L, sign, d)
  PROVE  Command!NewWord(w) = <<"-", L, sign, d>>
<1>1. d \notin {"n", "c", "b", "-", "+", "l", "f", "r"}
  BY LetterIsNoDigit
<1>2. PICK follows, rest, unit :
        /\ follows = IF Command!Last(w) \in {"f", "r"} THEN <<Command!Last(w)>> ELSE <<>>
        /\ rest = SubSeq(w, 1, Len(w) - Len(follows)) /\ unit = Command!Last(rest)
  OBVIOUS
<1> DEFINE word(letter, digits) == <<"-">> \o follows \o <<letter, w[1]>> \o Tail(digits)
<1>3. Command!NewWord(w) =
        CASE unit \in {"b", "c"} -> word(unit, Command!Front(rest))
          [] unit = "l"          -> word("n", Command!Front(rest))
          [] unit \in Command!Digit -> word("n", rest)
          [] OTHER               -> Command!ILLEGAL
  BY <1>2, Zenon DEF Command!NewWord
<1>4. CASE w = <<sign, d>> /\ L = "n"
  <2>1. Command!Last(w) = d
    BY <1>4 DEF Command!Last
  <2>2. follows = <<>> /\ rest = w
    <3>1. follows = <<>>
      BY <1>1, <1>2, <2>1
    <3>2. Len(w) - Len(follows) = 2
      BY <1>4, <3>1
    <3> QED
      BY <1>2, <1>4, <3>1, <3>2, FullOfTwo
  <2>3. unit = d /\ unit \notin {"b", "c"} /\ unit # "l"
    BY <1>1, <1>2, <2>1, <2>2
  <2>4. word("n", rest) = <<"-", "n", sign, d>>
    <3>1. w[1] = sign /\ Tail(rest) = <<d>>
      BY <1>4, <2>2
    <3>2. word("n", rest) = <<"-">> \o <<>> \o <<"n", sign>> \o <<d>>
      BY <2>2, <3>1, Zenon
    <3>3. <<"-">> \o <<>> \o <<"n", sign>> \o <<d>> = <<"-", "n", sign, d>>
      BY FourTogether
    <3> QED
      BY <3>2, <3>3
  <2> HIDE DEF word
  <2> QED
    BY <1>3, <1>4, <2>3, <2>4
<1>5. CASE w = <<sign, d, "l">> /\ L = "n"
  <2>1. Command!Last(w) = "l"
    BY <1>5 DEF Command!Last
  <2>2. follows = <<>> /\ rest = w
    <3>1. follows = <<>>
      BY <1>1, <1>2, <2>1
    <3>2. Len(w) - Len(follows) = 3
      BY <1>5, <3>1
    <3> QED
      BY <1>2, <1>5, <3>1, <3>2, FrontOfThree
  <2>3. unit = "l" /\ unit \notin {"b", "c"} /\ unit \notin Command!Digit
    BY <1>1, <1>2, <2>1, <2>2, LetterIsNoDigit
  <2>4. Command!Front(rest) = <<sign, d>>
    <3>1. Len(rest) - 1 = 2
      BY <1>5, <2>2
    <3> QED
      BY <1>5, <2>2, <3>1, FrontOfThree DEF Command!Front
  <2>5. word("n", Command!Front(rest)) = <<"-", "n", sign, d>>
    <3>1. w[1] = sign /\ Tail(Command!Front(rest)) = <<d>>
      BY <1>5, <2>4
    <3>2. word("n", Command!Front(rest)) = <<"-">> \o <<>> \o <<"n", sign>> \o <<d>>
      BY <2>2, <3>1, Zenon
    <3>3. <<"-">> \o <<>> \o <<"n", sign>> \o <<d>> = <<"-", "n", sign, d>>
      BY FourTogether
    <3> QED
      BY <3>2, <3>3
  <2> HIDE DEF word
  <2> QED
    BY <1>3, <1>5, <2>3, <2>5
<1>6. CASE w = <<sign, d, L>> /\ L \in {"b", "c"}
  <2>1. Command!Last(w) = L
    BY <1>6 DEF Command!Last
  <2>2. follows = <<>> /\ rest = w
    <3>1. follows = <<>>
      BY <1>2, <1>6, <2>1
    <3>2. Len(w) - Len(follows) = 3
      BY <1>6, <3>1
    <3> QED
      BY <1>2, <1>6, <3>1, <3>2, FrontOfThree
  <2>3. unit = L /\ unit \in {"b", "c"} /\ unit # "l" /\ unit \notin Command!Digit
    BY <1>1, <1>2, <1>6, <2>1, <2>2, LetterIsNoDigit
  <2>4. Command!Front(rest) = <<sign, d>>
    <3>1. Len(rest) - 1 = 2
      BY <1>6, <2>2
    <3> QED
      BY <1>6, <2>2, <3>1, FrontOfThree DEF Command!Front
  <2>5. word(unit, Command!Front(rest)) = <<"-", L, sign, d>>
    <3>1. w[1] = sign /\ Tail(Command!Front(rest)) = <<d>>
      BY <1>6, <2>4
    <3>2. word(unit, Command!Front(rest)) = <<"-">> \o <<>> \o <<L, sign>> \o <<d>>
      BY <2>2, <2>3, <3>1, Zenon
    <3>3. <<"-">> \o <<>> \o <<L, sign>> \o <<d>> = <<"-", L, sign, d>>
      BY FourTogether
    <3> QED
      BY <3>2, <3>3
  <2> HIDE DEF word
  <2> QED
    BY <1>3, <1>6, <2>3, <2>5
<1> QED
  BY <1>4, <1>5, <1>6 DEF OldWord

(* What getopt() gives for the option: r. *)
Got(r, L, arg, k) == r.ch = L /\ r.optarg = arg /\ r.optind = k /\ r.place = <<>>

LEMMA GotApart ==
  ASSUME NEW L \in {"n", "c", "b"}, NEW arg
  PROVE  Got(Command!Getopt(Apart(L, arg), 1, <<>>), L, arg, 3)
<1>1. PICK av, w, here, more : /\ av = Apart(L, arg) /\ w = <<"-", L>>
                               /\ here = <<L>> /\ more = Tail(here)
  OBVIOUS
<1>2. av[2] = w /\ Len(av) = 4 /\ av[3] = arg
  BY <1>1 DEF Apart
<1>3. Command!Word(w, 1) = "-" /\ Len(w) # 1 /\ w[2] = L /\ L # "-"
  BY <1>1 DEF Command!Word
<1>4. Tail(w) = here /\ Head(here) = L /\ more = <<>> /\ Tail(here) = more
  BY <1>1
<1>5. PICK r : r = Command!Getopt(av, 1, <<>>)
  OBVIOUS
<1>6. r = [[ch |-> "end", optarg |-> <<>>, optind |-> 1, place |-> <<>>]
             EXCEPT !.ch = L, !.optarg = arg, !.optind = 3]
  <2>1. ~(1 >= Len(av)) /\ 1 + 1 < Len(av) /\ av[1 + 1] = w /\ av[1 + 2] = arg /\ 1 + 2 = 3
    BY <1>2
  <2> QED
    BY <1>3, <1>4, <1>5, <2>1 DEF Command!Getopt
<1>7. r.ch = L /\ r.optarg = arg /\ r.optind = 3 /\ r.place = <<>>
  BY <1>6
<1> QED
  BY <1>1, <1>5, <1>7 DEF Got

LEMMA GotGlued ==
  ASSUME NEW L \in {"n", "c", "b"}, NEW sign, NEW d
  PROVE  Got(Command!Getopt(Glued(DashWord(L, sign, d)), 1, <<>>), L, ArgOf(sign, d), 2)
<1>1. PICK av, w, here, more, arg :
        /\ av = Glued(w) /\ w = DashWord(L, sign, d) /\ arg = ArgOf(sign, d)
        /\ here = Tail(w) /\ more = Tail(here)
  OBVIOUS
<1>2. av[2] = w /\ Len(av) = 3
  BY <1>1 DEF Glued
<1>3. Command!Word(w, 1) = "-" /\ Len(w) # 1 /\ w[2] = L /\ L # "-"
  BY <1>1 DEF Command!Word, DashWord
<1>4. Head(here) = L /\ more = arg /\ more # <<>>
  BY <1>1 DEF DashWord, ArgOf
<1>5. PICK r : r = Command!Getopt(av, 1, <<>>)
  OBVIOUS
<1>6. r = [[ch |-> "end", optarg |-> <<>>, optind |-> 1, place |-> <<>>]
             EXCEPT !.ch = L, !.optarg = arg, !.optind = 2]
  <2>1. ~(1 >= Len(av)) /\ av[1 + 1] = w /\ 1 + 1 = 2
    BY <1>2
  <2> QED
    BY <1>1, <1>3, <1>4, <1>5, <2>1 DEF Command!Getopt
<1>7. r.ch = L /\ r.optarg = arg /\ r.optind = 2 /\ r.place = <<>>
  BY <1>6
<1> QED
  BY <1>1, <1>5, <1>7 DEF Got

LEMMA GotEnd ==
  ASSUME NEW words, NEW k, k >= Len(words)
  PROVE  Command!Getopt(words, k, <<>>).ch = "end"
BY DEF Command!Getopt

IsOptions(s) == DOMAIN s = {"words", "optind", "place", "over", "past", "o"}
OptionsStart(av) ==
  [words |-> av, optind |-> 1, place |-> <<>>, over |-> FALSE, past |-> FALSE,
   o |-> [style |-> "NOTSET", off |-> 0, fflag |-> 0, rflag |-> FALSE,
          qflag |-> FALSE, vflag |-> FALSE, usage |-> FALSE]]

(* The turn that takes the option r, *)
OptionTaken(s, t, r) ==
  /\ IsOptions(t) /\ t.o = Command!Option(s.o, r) /\ t.optind = r.optind /\ t.place = r.place
  /\ t.words = SubSeq(s.words, r.optind + 1, Len(s.words))
  /\ t.past = (s.past \/ r.optind > Len(s.words)) /\ t.over = Command!Option(s.o, r).usage

LEMMA TurnTakes ==
  ASSUME NEW s, IsOptions(s), s.over = FALSE,
         Command!Getopt(s.words, s.optind, s.place).ch # "end"
  PROVE  OptionTaken(s, Command!Turn(s), Command!Getopt(s.words, s.optind, s.place))
<1>1. PICK r, o, words, past, t :
        /\ r = Command!Getopt(s.words, s.optind, s.place) /\ o = Command!Option(s.o, r)
        /\ words = SubSeq(s.words, r.optind + 1, Len(s.words))
        /\ past = (s.past \/ r.optind > Len(s.words)) /\ t = Command!Turn(s)
  OBVIOUS
<1>2. t = [s EXCEPT !.o = o, !.optind = r.optind, !.place = r.place, !.words = words,
                    !.past = past, !.over = o.usage]
  BY <1>1 DEF Command!Turn
<1>3. /\ IsOptions(t) /\ t.o = o /\ t.optind = r.optind /\ t.place = r.place
      /\ t.words = words /\ t.past = past /\ t.over = o.usage
  BY <1>2 DEF IsOptions
<1> QED
  BY <1>1, <1>3 DEF OptionTaken

(* and one when getopt() is through, or the loop is over. *)
OptionsEnd(s, t) ==
  IsOptions(t) /\ t.over = TRUE /\ t.o = s.o /\ t.words = s.words /\ t.past = s.past

LEMMA TurnEnds ==
  ASSUME NEW s, IsOptions(s),
         s.over = TRUE \/ Command!Getopt(s.words, s.optind, s.place).ch = "end"
  PROVE  OptionsEnd(s, Command!Turn(s))
<1>1. PICK t : t = Command!Turn(s)
  OBVIOUS
<1>2. t = [s EXCEPT !.over = TRUE]
  BY <1>1 DEF Command!Turn
<1>3. IsOptions(t) /\ t.over = TRUE /\ t.o = s.o /\ t.words = s.words /\ t.past = s.past
  BY <1>2 DEF IsOptions
<1> QED
  BY <1>1, <1>3 DEF OptionsEnd

(* The loop. *)
OptionTurns(t, av, m) ==
  t = [i \in 0 .. m |-> IF i = 0 THEN OptionsStart(av) ELSE Command!Turn(t[i - 1])]

LEMMA OptionsAreALoop ==
  ASSUME NEW av
  PROVE  \E t, m : /\ m = Len(Command!FlattenSeq(av))
                   /\ t = CHOOSE g : OptionTurns(g, av, m)
                   /\ Command!Options(av) =
                        [o |-> t[m].o, files |-> t[m].words, past |-> t[m].past]
BY DEF Command!Options, OptionTurns, OptionsStart

LEMMA OptionTurnsExist ==
  ASSUME NEW av, NEW m \in Nat
  PROVE  \E t : OptionTurns(t, av, m)
<1> DEFINE T == {k \in Nat : \E t : OptionTurns(t, av, k)}
<1>1. 0 \in T
  <2> DEFINE t == [i \in 0 .. 0 |-> OptionsStart(av)]
  <2>1. OptionTurns(t, av, 0)
    BY DEF OptionTurns
  <2> QED
    BY <2>1
<1>2. ASSUME NEW k \in Nat, k \in T PROVE k + 1 \in T
  <2>1. PICK g : OptionTurns(g, av, k)
    BY <1>2
  <2>2. \A i \in 0 .. k : g[i] = IF i = 0 THEN OptionsStart(av) ELSE Command!Turn(g[i - 1])
    BY <2>1 DEF OptionTurns
  <2> DEFINE t == [i \in 0 .. k + 1 |-> IF i = k + 1 THEN Command!Turn(g[k]) ELSE g[i]]
  <2>3. t[k + 1] = Command!Turn(g[k]) /\ \A i \in 0 .. k : t[i] = g[i]
    OBVIOUS
  <2>4. t = [i \in 0 .. k + 1 |-> t[i]]
    OBVIOUS
  <2> HIDE DEF t
  <2>5. ASSUME NEW i \in 0 .. k + 1
        PROVE  t[i] = IF i = 0 THEN OptionsStart(av) ELSE Command!Turn(t[i - 1])
    <3>1. CASE i = k + 1
      <4>1. i # 0 /\ i - 1 = k /\ k \in 0 .. k
        BY <3>1
      <4> QED
        BY <2>3, <3>1, <4>1
    <3>2. CASE i # k + 1
      <4>1. i \in 0 .. k /\ (i # 0 => i - 1 \in 0 .. k)
        BY <3>2
      <4> QED
        BY <2>2, <2>3, <4>1
    <3> QED
      BY <3>1, <3>2
  <2>6. OptionTurns(t, av, k + 1)
    BY <2>4, <2>5 DEF OptionTurns
  <2> QED
    BY <2>6
<1> HIDE DEF T
<1>3. m \in T
  BY <1>1, <1>2, NatInd
<1> QED
  BY <1>3 DEF T

(* When it is over after two turns, it has done what it does. *)
OptionsByTwo(av, s1, s2) ==
  /\ Len(Command!FlattenSeq(av)) \in Nat /\ Len(Command!FlattenSeq(av)) >= 2
  /\ IsOptions(s2) /\ s2.over = TRUE
  /\ s1 = Command!Turn(OptionsStart(av)) /\ s2 = Command!Turn(s1)

LEMMA OptionsInTwo ==
  ASSUME NEW av, NEW s1, NEW s2, OptionsByTwo(av, s1, s2)
  PROVE  Command!Options(av) = [o |-> s2.o, files |-> s2.words, past |-> s2.past]
<1>1. PICK t, m : /\ m = Len(Command!FlattenSeq(av))
                  /\ t = CHOOSE g : OptionTurns(g, av, m)
                  /\ Command!Options(av) =
                       [o |-> t[m].o, files |-> t[m].words, past |-> t[m].past]
  BY OptionsAreALoop
<1>2. m \in Nat /\ m >= 2
  BY <1>1 DEF OptionsByTwo
<1>3. OptionTurns(t, av, m)
  BY <1>1, <1>2, OptionTurnsExist
<1>4. \A i \in 0 .. m : t[i] = IF i = 0 THEN OptionsStart(av) ELSE Command!Turn(t[i - 1])
  BY <1>3 DEF OptionTurns
<1>5. t[2] = s2
  <2>1. 0 \in 0 .. m /\ 1 \in 0 .. m /\ 2 \in 0 .. m /\ 1 - 1 = 0 /\ 2 - 1 = 1
    BY <1>2
  <2>2. t[0] = OptionsStart(av) /\ t[1] = Command!Turn(t[0])
    BY <1>4, <2>1
  <2>3. t[2] = Command!Turn(t[1])
    BY <1>4, <2>1
  <2> QED
    BY <2>2, <2>3 DEF OptionsByTwo
<1> DEFINE Same(x) == IsOptions(x) /\ x.over = TRUE /\ x.o = s2.o /\ x.words
        = s2.words /\ x.past = s2.past
           T == {i \in 2 .. m : Same(t[i])}
<1>6. \A x : Same(x) => Same(Command!Turn(x))
  <2> TAKE x
  <2> HAVE Same(x)
  <2>1. OptionsEnd(x, Command!Turn(x))
    BY TurnEnds
  <2> QED
    BY <2>1 DEF OptionsEnd
<1>7. Same(s2)
  BY DEF OptionsByTwo
<1> HIDE DEF Same
<1>8. 2 \in T
  BY <1>2, <1>5, <1>7
<1>9. \A i \in 2 .. m : i \in T /\ i < m => i + 1 \in T
  <2> TAKE i \in 2 .. m
  <2> HAVE i \in T /\ i < m
  <2>1. i + 1 \in 0 .. m /\ i + 1 # 0 /\ (i + 1) - 1 = i /\ i + 1 \in 2 .. m
    BY <1>2
  <2>2. t[i + 1] = Command!Turn(t[i])
    BY <1>4, <2>1
  <2> QED
    BY <1>6, <2>1, <2>2
<1>10. Same(t[m])
  <2> HIDE DEF T
  <2>1. 2 .. m \subseteq T
    BY <1>2, <1>8, <1>9, RangeInd
  <2> QED
    BY <1>2, <2>1 DEF T
<1> QED
  BY <1>1, <1>10 DEF Same

(* What ARG() makes of it. *)
OptionSet(o, L, sign, n) ==
  /\ o.style = StyleFor(L, sign) /\ o.off = OffFor(L, sign, n)
  /\ o.usage = FALSE /\ o.rflag = FALSE /\ o.fflag = 0

LEMMA OptionIs ==
  ASSUME NEW L \in {"n", "c", "b"}, NEW sign \in {"none", "+", "-"}, NEW n \in 0 .. 9,
         sign = "+" => n > 0, NEW r, NEW k, NEW av,
         Got(r, L, ArgOf(sign, Command!Digits[n + 1]), k)
  PROVE  OptionSet(Command!Option(OptionsStart(av).o, r), L, sign, n)
<1>1. PICK d, arg, o, o0 :
        /\ d = Command!Digits[n + 1] /\ arg = ArgOf(sign, d)
        /\ o0 = [style |-> "NOTSET", off |-> 0, fflag |-> 0, rflag |-> FALSE,
                 qflag |-> FALSE, vflag |-> FALSE, usage |-> FALSE]
        /\ o = Command!Option(o0, r)
  OBVIOUS
<1>2. OptionsStart(av).o = o0
  BY <1>1 DEF OptionsStart
<1>3. r.ch = L /\ r.optarg = arg
  BY <1>1 DEF Got
<1>4. o0.style = "NOTSET" /\ o0.usage = FALSE /\ o0.rflag = FALSE /\ o0.fflag = 0
      /\ DOMAIN o0 = {"style", "off", "fflag", "rflag", "qflag", "vflag", "usage"}
  BY <1>1
<1>5. Command!Number(arg) = n
  BY <1>1, NumberIs
<1>6. arg[1] = "+" <=> sign = "+"
  <2>1. d # "+"
    BY <1>1, DigitIs
  <2> QED
    BY <1>1, <2>1 DEF ArgOf
<1>7. PICK units : units = IF L = "b" THEN BLOCK ELSE 1
  OBVIOUS
<1>8. BLOCK \in Nat /\ BLOCK > 0 /\ units \in Nat /\ units > 0
  BY <1>7, TailSizes
<1>9. PICK amount : amount = n * units
  OBVIOUS
<1>10. sign = "+" => amount # 0
  BY <1>8, <1>9
<1>11. PICK fwd, bwd : /\ fwd = IF L = "n" THEN "FLINES" ELSE "FBYTES"
                       /\ bwd = IF L = "n" THEN "RLINES" ELSE "RBYTES"
  OBVIOUS
<1>12. o = Command!Arg(o0, units, fwd, bwd, arg)
  BY <1>1, <1>3, <1>4, <1>7, <1>11 DEF Command!Option
<1>13. o = IF sign # "+" THEN [o0 EXCEPT !.style = bwd, !.off = amount]
           ELSE [o0 EXCEPT !.style = fwd, !.off = amount - units]
  <2>1. Command!Number(arg) * units = amount
    BY <1>5, <1>9
  <2> QED
    BY <1>6, <1>10, <1>12, <2>1 DEF Command!Arg
<1>14. CASE sign # "+"
  <2>1. o.style = bwd /\ o.off = amount /\ o.usage = FALSE /\ o.rflag = FALSE /\ o.fflag = 0
    BY <1>4, <1>13, <1>14
  <2>2. bwd = StyleFor(L, sign) /\ amount = OffFor(L, sign, n)
    BY <1>7, <1>9, <1>11, <1>14 DEF StyleFor, OffFor
  <2> QED
    BY <1>1, <1>2, <2>1, <2>2 DEF OptionSet
<1>15. CASE sign = "+"
  <2>1. PICK less : less = amount - units
    OBVIOUS
  <2>2. o = [o0 EXCEPT !.style = fwd, !.off = less]
    BY <1>13, <1>15, <2>1
  <2>3. o.style = fwd /\ o.off = less /\ o.usage = FALSE /\ o.rflag = FALSE /\ o.fflag = 0
    BY <1>4, <2>2
  <2>4. fwd = StyleFor(L, sign) /\ less = OffFor(L, sign, n)
    BY <1>7, <1>9, <1>11, <1>15, <2>1 DEF StyleFor, OffFor
  <2> QED
    BY <1>1, <1>2, <2>3, <2>4 DEF OptionSet
<1> QED
  BY <1>14, <1>15

(* The loop over the options, when the first takes the k words before the  *)
(* file. *)
OneOption(av, L, sign, n, k) ==
  /\ Got(Command!Getopt(av, 1, <<>>), L, ArgOf(sign, Command!Digits[n + 1]), k)
  /\ k \in 2 .. 3 /\ Len(av) = k + 1
  /\ SubSeq(av, k + 1, k + 1) = << <<"file">> >>
  /\ Len(Command!FlattenSeq(av)) \in Nat /\ Len(Command!FlattenSeq(av)) >= 2

OptionShown(r, L, sign, n) ==
  OptionSet(r.o, L, sign, n) /\ r.files = << <<"file">> >> /\ r.past = FALSE

LEMMA OptionsFor ==
  ASSUME NEW L \in {"n", "c", "b"}, NEW sign \in {"none", "+", "-"}, NEW n \in 0 .. 9,
         sign = "+" => n > 0, NEW k, NEW av, OneOption(av, L, sign, n, k)
  PROVE  OptionShown(Command!Options(av), L, sign, n)
<1>1. PICK s, s1, s2, r, o :
        /\ s = OptionsStart(av) /\ s1 = Command!Turn(s) /\ s2 = Command!Turn(s1)
        /\ r = Command!Getopt(av, 1, <<>>) /\ o = Command!Option(s.o, r)
  OBVIOUS
<1>2. /\ IsOptions(s) /\ s.over = FALSE /\ s.words = av /\ s.optind = 1
      /\ s.place = <<>> /\ s.past = FALSE
  BY <1>1 DEF OptionsStart, IsOptions
<1>3. Got(r, L, ArgOf(sign, Command!Digits[n + 1]), k)
  BY <1>1 DEF OneOption
<1>4. r.ch = L /\ r.ch # "end" /\ r.optind = k /\ r.place = <<>>
  BY <1>3 DEF Got
<1>5. OptionSet(o, L, sign, n)
  BY <1>1, <1>3, OptionIs
<1>6. r = Command!Getopt(s.words, s.optind, s.place)
  BY <1>1, <1>2
<1>7. OptionTaken(s, s1, r)
  BY <1>1, <1>2, <1>4, <1>6, TurnTakes
<1>8. k \in Nat /\ Len(av) = k + 1 /\ ~(k > k + 1) /\ k \in 2 .. 3
  BY DEF OneOption
<1>9. /\ IsOptions(s1) /\ s1.o = o /\ s1.optind = k /\ s1.place = <<>>
      /\ s1.words = << <<"file">> >> /\ s1.past = FALSE /\ s1.over = FALSE
  <2>1. /\ IsOptions(s1) /\ s1.o = o /\ s1.optind = k /\ s1.place = <<>>
        /\ s1.words = SubSeq(av, k + 1, Len(av)) /\ s1.past = (FALSE \/ k > Len(av))
        /\ s1.over = o.usage
    BY <1>1, <1>2, <1>4, <1>7 DEF OptionTaken
  <2>2. o.usage = FALSE
    BY <1>5 DEF OptionSet
  <2> QED
    BY <1>8, <2>1, <2>2 DEF OneOption
<1>10. OptionsEnd(s1, s2)
  <2>1. Len(s1.words) = 1 /\ k >= 1
    BY <1>8, <1>9
  <2>2. Command!Getopt(s1.words, s1.optind, s1.place).ch = "end"
    BY <1>9, <2>1, GotEnd
  <2> QED
    BY <1>1, <1>9, <2>2, TurnEnds
<1>11. IsOptions(s2) /\ s2.over = TRUE /\ s2.o = o /\ s2.words = << <<"file">> >> /\ s2.past = FALSE
  BY <1>9, <1>10 DEF OptionsEnd
<1>12. OptionsByTwo(av, s1, s2)
  BY <1>1, <1>11 DEF OptionsByTwo, OneOption
<1>13. PICK all : all = Command!Options(av)
  OBVIOUS
<1>14. all = [o |-> s2.o, files |-> s2.words, past |-> s2.past]
  BY <1>12, <1>13, OptionsInTwo
<1>15. all.o = o /\ all.files = << <<"file">> >> /\ all.past = FALSE
  BY <1>11, <1>14
<1> QED
  BY <1>5, <1>13, <1>15 DEF OptionShown

(* There are turns enough. *)
LEMMA FlatOfTwo ==
  ASSUME NEW S, NEW s \in Seq(Seq(S)), NEW a \in Seq(S), NEW b \in Seq(S), a # <<>>, b # <<>>
  PROVE  /\ Len(Command!FlattenSeq(Append(Append(s, a), b))) \in Nat
         /\ Len(Command!FlattenSeq(Append(Append(s, a), b))) >= 2
<1>1. Append(s, a) \in Seq(Seq(S)) /\ FlattenSeq(s) \in Seq(S) /\ FlattenSeq(Append(s, a)) \in Seq(S)
  <2>1. Append(s, a) \in Seq(Seq(S))
    OBVIOUS
  <2> QED
    BY <2>1, FlattenType
<1>2. FlattenSeq(Append(s, a)) = FlattenSeq(s) \o a
  BY FlattenAppend
<1>3. FlattenSeq(Append(Append(s, a), b)) = FlattenSeq(Append(s, a)) \o b
  BY <1>1, FlattenAppend
<1>4. PICK f \in Seq(S), g \in Seq(S) : f = FlattenSeq(s) /\ g = FlattenSeq(Append(s, a))
  BY <1>1
<1>5. Len(a) \in Nat /\ Len(a) >= 1 /\ Len(b) \in Nat /\ Len(b) >= 1
  OBVIOUS
<1>6. Len(f) \in Nat /\ Len(g) = Len(f) + Len(a)
  BY <1>2, <1>4
<1>7. PICK h : h = FlattenSeq(Append(Append(s, a), b))
  OBVIOUS
<1>8. Len(h) = Len(g) + Len(b)
  BY <1>3, <1>4, <1>7
<1>9. Len(h) \in Nat /\ Len(h) >= 2
  BY <1>5, <1>6, <1>8
<1> QED
  BY <1>7, <1>9, SameFlatten

LEMMA FlatApart ==
  ASSUME NEW L, NEW Q, NEW arg \in Seq(Q), arg # <<>>
  PROVE  /\ Len(Command!FlattenSeq(Apart(L, arg))) \in Nat
         /\ Len(Command!FlattenSeq(Apart(L, arg))) >= 2
<1>1. PICK S : S = {"tail", "file", "-", L} \cup Q
  OBVIOUS
<1>2. PICK tail, w, theFile : tail = <<"tail">> /\ w = <<"-", L>> /\ theFile = <<"file">>
  OBVIOUS
<1>3. tail \in Seq(S) /\ w \in Seq(S) /\ arg \in Seq(S) /\ theFile \in Seq(S) /\ theFile # <<>>
  BY <1>1, <1>2
<1>4. <<tail, w>> \in Seq(Seq(S))
  BY <1>3
<1>5. Append(Append(<<tail, w>>, arg), theFile) = <<tail, w, arg, theFile>>
  <2> DEFINE p == <<tail, w>>
             q == <<tail, w, arg>>
             r == <<tail, w, arg, theFile>>
  <2>1. /\ p \in Seq(Seq(S)) /\ q \in Seq(Seq(S)) /\ r \in Seq(Seq(S))
        /\ Len(q) = Len(p) + 1 /\ (\A i \in 1 .. Len(p) : q[i] = p[i]) /\ q[Len(p) + 1] = arg
        /\ Len(r) = Len(q) + 1 /\ (\A i \in 1 .. Len(q) : r[i] = q[i]) /\ r[Len(q) + 1] = theFile
    BY <1>3
  <2> HIDE DEF p, q, r
  <2>2. Append(p, arg) = q
    BY <1>3, <2>1, IsAppended
  <2>3. Append(q, theFile) = r
    BY <1>3, <2>1, IsAppended
  <2> QED
    BY <2>2, <2>3 DEF p, r
<1>6. Apart(L, arg) = <<tail, w, arg, theFile>>
  BY <1>2 DEF Apart
<1> QED
  BY <1>3, <1>4, <1>5, <1>6, FlatOfTwo

LEMMA FlatGlued ==
  ASSUME NEW Q, NEW w \in Seq(Q), w # <<>>
  PROVE  /\ Len(Command!FlattenSeq(Glued(w))) \in Nat
         /\ Len(Command!FlattenSeq(Glued(w))) >= 2
<1>1. PICK S : S = {"tail", "file"} \cup Q
  OBVIOUS
<1>2. PICK tail, theFile : tail = <<"tail">> /\ theFile = <<"file">>
  OBVIOUS
<1>3. tail \in Seq(S) /\ w \in Seq(S) /\ theFile \in Seq(S) /\ theFile # <<>>
  BY <1>1, <1>2
<1>4. <<tail>> \in Seq(Seq(S))
  BY <1>3
<1>5. Append(Append(<<tail>>, w), theFile) = <<tail, w, theFile>>
  <2> DEFINE p == <<tail>>
             q == <<tail, w>>
             r == <<tail, w, theFile>>
  <2>1. /\ p \in Seq(Seq(S)) /\ q \in Seq(Seq(S)) /\ r \in Seq(Seq(S))
        /\ Len(q) = Len(p) + 1 /\ (\A i \in 1 .. Len(p) : q[i] = p[i]) /\ q[Len(p) + 1] = w
        /\ Len(r) = Len(q) + 1 /\ (\A i \in 1 .. Len(q) : r[i] = q[i]) /\ r[Len(q) + 1] = theFile
    BY <1>3
  <2> HIDE DEF p, q, r
  <2>2. Append(p, w) = q
    BY <1>3, <2>1, IsAppended
  <2>3. Append(q, theFile) = r
    BY <1>3, <2>1, IsAppended
  <2> QED
    BY <2>2, <2>3 DEF p, r
<1>6. Glued(w) = <<tail, w, theFile>>
  BY <1>2 DEF Glued
<1> QED
  BY <1>3, <1>4, <1>5, <1>6, FlatOfTwo

(* main() of tail, when obsolete() makes new of argv. *)
StartsRight(r, L, sign, n) ==
  /\ ~r.exits /\ ~r.past /\ r.fflag = 0 /\ r.files = << <<"file">> >>
  /\ r.start.style = StyleFor(L, sign) /\ r.start.off = OffFor(L, sign, n)

Rewritten(av, new) == Command!Obsolete(av) = [argv |-> new, past |-> FALSE]
Legal(av) == Command!ILLEGAL \notin Command!ToSet(av)

LEMMA MainFor ==
  ASSUME NEW L \in {"n", "c", "b"}, NEW sign \in {"none", "+", "-"}, NEW n \in 0 .. 9,
         sign = "+" => n > 0, NEW av, NEW new, Rewritten(av, new), Legal(new),
         NEW k, OneOption(new, L, sign, n, k)
  PROVE  StartsRight(Command!Main(av), L, sign, n)
<1>1. PICK old, r, m, start :
        /\ old = Command!Obsolete(av) /\ r = Command!Options(old.argv)
        /\ m = Command!Main(av) /\ start = Command!StyleOf(r.o)
  OBVIOUS
<1>2. old.argv = new /\ old.past = FALSE
  BY <1>1 DEF Rewritten
<1>3. OptionShown(r, L, sign, n)
  BY <1>1, <1>2, OptionsFor
<1>4. /\ OptionSet(r.o, L, sign, n) /\ r.files = << <<"file">> >> /\ r.past = FALSE
      /\ Len(r.files) = 1
  BY <1>3 DEF OptionShown
<1>5. /\ r.o.style = StyleFor(L, sign) /\ r.o.off = OffFor(L, sign, n)
      /\ r.o.usage = FALSE /\ r.o.rflag = FALSE /\ r.o.fflag = 0
  BY <1>4 DEF OptionSet
<1>6. start.style = r.o.style /\ start.off = r.o.off
  <2>1. r.o.style # "NOTSET"
    BY <1>5 DEF StyleFor
  <2>2. start = [style |-> r.o.style, off |-> r.o.off]
    BY <1>1, <1>5, <2>1 DEF Command!StyleOf
  <2> QED
    BY <2>2
<1>7. m = [past   |-> old.past \/ r.past,
           exits  |-> \/ Command!ILLEGAL \in Command!ToSet(old.argv) \/ r.o.usage
                      \/ r.o.fflag > 0 /\ (Len(r.files) > 1 \/ r.o.rflag),
           start  |-> start, fflag |-> r.o.fflag, rflag |-> r.o.rflag,
           files  |-> r.files]
  BY <1>1 DEF Command!Main
<1>8. PICK past, exits :
        /\ past = (old.past \/ r.past)
        /\ exits = (\/ Command!ILLEGAL \in Command!ToSet(old.argv) \/ r.o.usage
                    \/ r.o.fflag > 0 /\ (Len(r.files) > 1 \/ r.o.rflag))
  OBVIOUS
<1>9. ~past /\ ~exits
  <2>1. Command!ILLEGAL \notin Command!ToSet(old.argv)
    BY <1>2 DEF Legal
  <2>2. ~(r.o.fflag > 0) /\ ~r.o.usage
    BY <1>5
  <2>3. ~old.past /\ ~r.past
    BY <1>2, <1>4
  <2> QED
    BY <1>8, <2>1, <2>2, <2>3, Zenon
<1>10. m = [past |-> past, exits |-> exits, start |-> start, fflag |-> r.o.fflag,
            rflag |-> r.o.rflag, files |-> r.files]
  BY <1>7, <1>8, Zenon
<1>11. m.past = past /\ m.exits = exits /\ m.start = start /\ m.fflag = r.o.fflag /\ m.files
        = r.files
  BY <1>10
<1> QED
  BY <1>1, <1>4, <1>5, <1>6, <1>9, <1>11 DEF StartsRight

IsSpelling(words, L, sign, n) ==
  LET d == Command!Digits[n + 1]
  IN  \/ words = << <<"-", L>>, ArgOf(sign, d) >>
      \/ words = << DashWord(L, sign, d) >>
      \/ sign # "none" /\ \E w : words = <<w>> /\ OldWord(w, L, sign, d)

LEMMA SpellingsAre ==
  ASSUME NEW L \in {"n", "c", "b"}, NEW sign \in {"none", "+", "-"}, NEW n \in 0 .. 9,
         NEW words \in Command!Spellings(L, sign, n)
  PROVE  IsSpelling(words, L, sign, n)
<1>1. PICK d, first, arg :
        /\ d = Command!Digits[n + 1] /\ first = (IF sign = "none" THEN <<>> ELSE <<sign>>)
        /\ arg = first \o <<d>>
  OBVIOUS
<1>2. arg = ArgOf(sign, d)
  <2>1. CASE sign = "none"
    <3>1. PICK S, s : S = {d} /\ s = <<d>>
      OBVIOUS
    <3>2. s \in Seq(S)
      BY <3>1
    <3>3. <<>> \o s = s
      BY <3>2, ConcatEmptySeq
    <3> QED
      BY <1>1, <2>1, <3>1, <3>3 DEF ArgOf
  <2>2. CASE sign # "none"
    <3>1. <<sign>> \o <<d>> = <<sign, d>>
      BY OneAndOne, Zenon
    <3> QED
      BY <1>1, <2>2, <3>1 DEF ArgOf
  <2> QED
    BY <2>1, <2>2
<1>3. PICK units : units = CASE L = "n" -> {<<>>, <<"l">>} [] OTHER -> {<<L>>}
  OBVIOUS
<1>4. \/ words = << <<"-", L>>, arg >>
      \/ words = << <<"-", L>> \o arg >>
      \/ sign # "none" /\ \E u \in units : words = <<arg \o u>>
  BY <1>1, <1>3, Zenon DEF Command!Spellings
<1>5. CASE words = << <<"-", L>>, arg >>
  BY <1>1, <1>2, <1>5, Zenon DEF IsSpelling
<1>6. CASE words = << <<"-", L>> \o arg >>
  <2>1. <<"-", L>> \o arg = DashWord(L, sign, d)
    <3>1. CASE sign = "none"
      <4>1. <<"-", L>> \o <<d>> = <<"-", L, d>>
        BY TwoAndOne, Zenon
      <4> QED
        BY <1>2, <3>1, <4>1 DEF ArgOf, DashWord
    <3>2. CASE sign # "none"
      <4>1. <<"-", L>> \o <<sign, d>> = <<"-", L, sign, d>>
        BY TwoAndTwo, Zenon
      <4> QED
        BY <1>2, <3>2, <4>1 DEF ArgOf, DashWord
    <3> QED
      BY <3>1, <3>2
  <2> QED
    BY <1>1, <1>6, <2>1, Zenon DEF IsSpelling
<1>7. CASE sign # "none" /\ \E u \in units : words = <<arg \o u>>
  <2>1. PICK u \in units : words = <<arg \o u>>
    BY <1>7
  <2>2. arg = <<sign, d>>
    BY <1>2, <1>7 DEF ArgOf
  <2>3. OldWord(arg \o u, L, sign, d)
    <3>1. CASE L = "n" /\ u = <<>>
      <4>1. arg \o u = arg
        <5>1. PICK S : S = {sign, d}
          OBVIOUS
        <5>2. arg \in Seq(S)
          BY <2>2, <5>1
        <5> QED
          BY <3>1, <5>2, ConcatEmptySeq
      <4> QED
        BY <2>2, <3>1, <4>1 DEF OldWord
    <3>2. CASE L = "n" /\ u = <<"l">>
      <4>1. <<sign, d>> \o <<"l">> = <<sign, d, "l">>
        BY TwoAndOne, Zenon
      <4> QED
        BY <2>2, <3>2, <4>1 DEF OldWord
    <3>3. CASE L # "n" /\ u = <<L>>
      <4>1. <<sign, d>> \o <<L>> = <<sign, d, L>>
        BY TwoAndOne, Zenon
      <4> QED
        BY <2>2, <3>3, <4>1 DEF OldWord
    <3> QED
      BY <1>3, <2>1, <3>1, <3>2, <3>3
  <2> QED
    BY <1>1, <1>7, <2>1, <2>3, Zenon DEF IsSpelling
<1> QED
  BY <1>4, <1>5, <1>6, <1>7

(* The words that getopt() sees take one option, and none is illegal.      *)
LEMMA ApartIsOne ==
  ASSUME NEW L \in {"n", "c", "b"}, NEW sign \in {"none", "+", "-"}, NEW n \in 0 .. 9,
         NEW av, av = Apart(L, ArgOf(sign, Command!Digits[n + 1]))
  PROVE  OneOption(av, L, sign, n, 3) /\ Legal(av)
<1>1. PICK d, arg, Q, tail, dash, theFile :
        /\ d = Command!Digits[n + 1] /\ arg = ArgOf(sign, d) /\ Q = {sign, d}
        /\ tail = <<"tail">> /\ dash = <<"-", L>> /\ theFile = <<"file">>
  OBVIOUS
<1>2. arg \in Seq(Q) /\ arg # <<>>
  <2>1. CASE sign = "none"
    <3>1. arg = <<d>> /\ d \in Q
      BY <1>1, <2>1 DEF ArgOf
    <3> QED
      BY <3>1
  <2>2. CASE sign # "none"
    <3>1. arg = <<sign, d>> /\ sign \in Q /\ d \in Q
      BY <1>1, <2>2 DEF ArgOf
    <3> QED
      BY <3>1
  <2> QED
    BY <2>1, <2>2
<1>3. av = <<tail, dash, arg, theFile>>
  BY <1>1 DEF Apart
<1>4. av = Apart(L, arg)
  BY <1>1
<1>5. Len(Command!FlattenSeq(av)) \in Nat /\ Len(Command!FlattenSeq(av)) >= 2
  BY <1>2, <1>4, FlatApart
<1>6. SubSeq(av, 3 + 1, 3 + 1) = <<theFile>>
  <2>1. SubSeq(<<tail, dash, arg, theFile>>, 4, 4) = <<theFile>>
    BY LastOfFour, Zenon
  <2> QED
    BY <1>3, <2>1
<1>7. Got(Command!Getopt(av, 1, <<>>), L, arg, 3)
  BY <1>4, GotApart
<1>8. OneOption(av, L, sign, n, 3)
  <2>1. Len(av) = 3 + 1 /\ 3 \in 2 .. 3
    BY <1>3
  <2> QED
    BY <1>1, <1>5, <1>6, <1>7, <2>1 DEF OneOption
<1>9. Legal(av)
  <2>1. d # "illegal" /\ sign # "illegal"
    BY <1>1, DigitIs
  <2>2. PICK ill : ill = <<"illegal">>
    OBVIOUS
  <2>3. tail # ill /\ dash # ill /\ theFile # ill
    BY <1>1, <2>2
  <2>4. arg # ill
    BY <1>1, <2>1, <2>2 DEF ArgOf
  <2>5. \A i \in DOMAIN av : av[i] # ill
    <3>1. DOMAIN av = 1 .. 4 /\ av[1] = tail /\ av[2] = dash /\ av[3] = arg /\ av[4] = theFile
      BY <1>3
    <3>2. \A i \in 1 .. 4 : i = 1 \/ i = 2 \/ i = 3 \/ i = 4
      OBVIOUS
    <3> QED
      BY <2>3, <2>4, <3>1, <3>2
  <2> QED
    BY <2>2, <2>5 DEF Legal, Command!ToSet, Command!ILLEGAL
<1> QED
  BY <1>8, <1>9

LEMMA GluedIsOne ==
  ASSUME NEW L \in {"n", "c", "b"}, NEW sign \in {"none", "+", "-"}, NEW n \in 0 .. 9,
         NEW av, av = Glued(DashWord(L, sign, Command!Digits[n + 1]))
  PROVE  OneOption(av, L, sign, n, 2) /\ Legal(av)
<1>1. PICK d, w, Q, tail, theFile :
        /\ d = Command!Digits[n + 1] /\ w = DashWord(L, sign, d) /\ Q = {"-", L, sign, d}
        /\ tail = <<"tail">> /\ theFile = <<"file">>
  OBVIOUS
<1>2. w \in Seq(Q) /\ w # <<>>
  <2>1. CASE sign = "none"
    <3>1. w = <<"-", L, d>> /\ "-" \in Q /\ L \in Q /\ d \in Q
      BY <1>1, <2>1 DEF DashWord
    <3> QED
      BY <3>1
  <2>2. CASE sign # "none"
    <3>1. w = <<"-", L, sign, d>> /\ "-" \in Q /\ L \in Q /\ sign \in Q /\ d \in Q
      BY <1>1, <2>2 DEF DashWord
    <3> QED
      BY <3>1
  <2> QED
    BY <2>1, <2>2
<1>3. av = <<tail, w, theFile>>
  BY <1>1 DEF Glued
<1>4. av = Glued(w) /\ av = Glued(DashWord(L, sign, d))
  BY <1>1
<1>5. Len(Command!FlattenSeq(av)) \in Nat /\ Len(Command!FlattenSeq(av)) >= 2
  BY <1>2, <1>4, FlatGlued
<1>6. SubSeq(av, 2 + 1, 2 + 1) = <<theFile>>
  <2>1. SubSeq(<<tail, w, theFile>>, 3, 3) = <<theFile>>
    BY FrontOfThree, Zenon
  <2> QED
    BY <1>3, <2>1
<1>7. Got(Command!Getopt(av, 1, <<>>), L, ArgOf(sign, d), 2)
  BY <1>4, GotGlued
<1>8. OneOption(av, L, sign, n, 2)
  <2>1. Len(av) = 2 + 1 /\ 2 \in 2 .. 3
    BY <1>3
  <2> QED
    BY <1>1, <1>5, <1>6, <1>7, <2>1 DEF OneOption
<1>9. Legal(av)
  <2>2. PICK ill : ill = <<"illegal">>
    OBVIOUS
  <2>3. tail # ill /\ theFile # ill
    BY <1>1, <2>2
  <2>4. w # ill
    BY <1>1, <2>2 DEF DashWord
  <2>5. \A i \in DOMAIN av : av[i] # ill
    <3>1. DOMAIN av = 1 .. 3 /\ av[1] = tail /\ av[2] = w /\ av[3] = theFile
      BY <1>3
    <3>2. \A i \in 1 .. 3 : i = 1 \/ i = 2 \/ i = 3
      OBVIOUS
    <3> QED
      BY <2>3, <2>4, <3>1, <3>2
  <2> QED
    BY <2>2, <2>5 DEF Legal, Command!ToSet, Command!ILLEGAL
<1> QED
  BY <1>8, <1>9

(* Every spelling starts main() with the option's style and offset.        *)
LEMMA SpellingStarts ==
  ASSUME NEW L \in {"n", "c", "b"}, NEW sign \in {"none", "+", "-"}, NEW n \in 0 .. 9,
         sign = "+" => n > 0, NEW words \in Command!Spellings(L, sign, n)
  PROVE  StartsRight(Command!Main(<< <<"tail">> >> \o words \o << <<"file">> >>), L, sign, n)
<1>1. PICK d, arg, av, glued, tail, theFile, dash :
        /\ d = Command!Digits[n + 1] /\ arg = ArgOf(sign, d)
        /\ tail = <<"tail">> /\ theFile = <<"file">> /\ dash = <<"-", L>>
        /\ av = <<tail>> \o words \o <<theFile>>
        /\ glued = DashWord(L, sign, d)
  OBVIOUS
<1>2. IsSpelling(words, L, sign, n)
  BY SpellingsAre
<1>3. \A w : words = <<w>> => av = Glued(w)
  <2> TAKE w
  <2> HAVE words = <<w>>
  <2>1. (<<tail>> \o <<w>>) \o <<theFile>> = <<tail, w, theFile>>
    <3>1. <<tail>> \o <<w>> = <<tail, w>>
      BY OneAndOne, Zenon
    <3>2. <<tail, w>> \o <<theFile>> = <<tail, w, theFile>>
      BY TwoAndOne, Zenon
    <3> QED
      BY <3>1, <3>2, Zenon
  <2> QED
    BY <1>1, <2>1 DEF Glued
<1>4. OneOption(Glued(glued), L, sign, n, 2) /\ Legal(Glued(glued))
  BY <1>1, GluedIsOne
<1>5. CASE words = <<dash, arg>>
  <2>1. av = Apart(L, arg)
    <3>1. <<tail>> \o <<dash, arg>> = <<tail, dash, arg>>
      BY OneAndTwo, Zenon
    <3>2. <<tail, dash, arg>> \o <<theFile>> = <<tail, dash, arg, theFile>>
      BY ThreeAndOne, Zenon
    <3>3. av = <<tail, dash, arg, theFile>>
      BY <1>1, <1>5, <3>1, <3>2, Zenon
    <3> QED
      BY <1>1, <3>3 DEF Apart
  <2>2. Rewritten(av, av)
    BY <2>1, ApartIsKept DEF Rewritten
  <2>3. OneOption(av, L, sign, n, 3) /\ Legal(av)
    BY <1>1, <2>1, ApartIsOne
  <2>4. StartsRight(Command!Main(av), L, sign, n)
    BY <2>2, <2>3, MainFor
  <2> QED
    BY <1>1, <2>4
<1>6. CASE words = <<glued>>
  <2>1. av = Glued(glued)
    BY <1>3, <1>6
  <2>2. Len(glued) \in {3, 4} /\ glued[1] = "-" /\ glued[2] = L
    BY <1>1 DEF DashWord
  <2>3. Rewritten(av, Glued(glued))
    BY <2>1, <2>2, GluedIsKept DEF Rewritten
  <2>4. StartsRight(Command!Main(av), L, sign, n)
    BY <1>4, <2>3, MainFor
  <2> QED
    BY <1>1, <2>4
<1>7. CASE sign # "none" /\ \E w : words = <<w>> /\ OldWord(w, L, sign, d)
  <2>1. PICK w : words = <<w>> /\ OldWord(w, L, sign, d)
    BY <1>7
  <2>2. d \in Command!Digit
    BY <1>1, DigitIs
  <2>3. Len(w) \in {2, 3} /\ w[1] \in {"-", "+"} /\ w[2] \in Command!Digit
    <3>1. w[1] = sign /\ w[2] = d /\ (Len(w) = 2 \/ Len(w) = 3)
      BY <2>1 DEF OldWord
    <3> QED
      BY <1>7, <2>2, <3>1
  <2>4. Command!NewWord(w) = glued
    <3>1. Command!NewWord(w) = <<"-", L, sign, d>>
      BY <2>1, <2>2, NewWordIs
    <3> QED
      BY <1>1, <1>7, <3>1 DEF DashWord
  <2>5. Rewritten(av, Glued(glued))
    <3>1. av = Glued(w)
      BY <1>3, <2>1
    <3> QED
      BY <2>3, <2>4, <3>1, OldIsRewritten DEF Rewritten
  <2>6. StartsRight(Command!Main(av), L, sign, n)
    BY <1>4, <2>5, MainFor
  <2> QED
    BY <1>1, <2>6
<1> QED
  BY <1>1, <1>2, <1>5, <1>6, <1>7 DEF IsSpelling

(* tail shows of a file of any length, in windows and blocks of any size,  *)
(* what -n, -c or -b asks for, in each of its spellings: obsolete(),       *)
(* getopt(), ARG, the switch and rlines() count by one each in their own   *)
(* way (tail.c:33 to 97, 183 to 281; forward.c:93 to 128, 230 to 314).     *)
THEOREM TailShowsWhatIsAsked ==
  ASSUME input.letter \in {"n", "c", "b"}, input.sign \in {"none", "+", "-"},
         input.n \in 0 .. 9, input.data \in Seq(STRING)
  PROVE  ShowsWhatIsAsked
<1> SUFFICES ASSUME Is("tail")
             PROVE  Command!ShowsWhatIsAsked(input.letter, input.sign, input.n, input.data)
  BY DEF ShowsWhatIsAsked
<1>1. PICK L \in {"n", "c", "b"}, sign \in {"none", "+", "-"}, n \in 0 .. 9, data \in Seq(STRING) :
        L = input.letter /\ sign = input.sign /\ n = input.n /\ data = input.data
  OBVIOUS
<1>2. SUFFICES ASSUME sign = "+" => n > 0, sign # "+" /\ L = "n" => ~Command!NewlineAtBorder(data),
                      NEW words \in Command!Spellings(L, sign, n)
               PROVE  \E r \in {Command!Main(<< <<"tail">> >> \o words \o << <<"file">> >>)} :
                        /\ ~r.exits /\ ~r.past /\ r.fflag = 0
                        /\ r.files = << <<"file">> >>
                        /\ Command!Forward(r.start.style, r.start.off, data)
                             = Command!Wanted(L, sign, n, data)
  BY <1>1 DEF Command!ShowsWhatIsAsked
<1>3. PICK r : r = Command!Main(<< <<"tail">> >> \o words \o << <<"file">> >>)
  OBVIOUS
<1>4. StartsRight(r, L, sign, n)
  BY <1>2, <1>3, SpellingStarts
<1>5. Command!Forward(StyleFor(L, sign), OffFor(L, sign, n), data)
        = Command!Wanted(L, sign, n, data)
  BY <1>2, ForwardShows
<1> QED
  BY <1>3, <1>4, <1>5 DEF StartsRight
=============================================================================
