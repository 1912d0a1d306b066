---------------------------- MODULE Grep_proofs ----------------------------
(***************************************************************************)
(* What grep keeps for every file, every way of reading it, every setting  *)
(* and any number of names.                                                *)
(***************************************************************************)
EXTENDS Grep, SequenceFacts, FiniteSetTheorems

Byte == {NL, NUL, Hit}

-----------------------------------------------------------------------------
(***************************************************************************)
(* Cutting a buffer behind its first separator.                            *)
(***************************************************************************)
LEMMA FirstSeparator ==
  ASSUME NEW b \in Seq(Byte), HasLine(b)
  PROVE  /\ LineLen(b) \in 1 .. Len(b)
         /\ b[LineLen(b)] = line_sep
         /\ \A j \in 1 .. LineLen(b) - 1 : b[j] # line_sep
<1> DEFINE T == {i \in 1 .. Len(b) : b[i] = line_sep}
           First(i) == b[i] = line_sep /\ \A j \in 1 .. i - 1 : b[j] # line_sep
<1>1. Len(b) \in Nat /\ DOMAIN b = 1 .. Len(b)
  OBVIOUS
<1>2. T \subseteq Nat /\ T # {}
  BY <1>1 DEF HasLine, ToSet
<1>3. PICK i \in T : \A j \in T : i <= j
  BY <1>2, LeastElement
<1>4. i \in DOMAIN b /\ First(i)
  BY <1>1, <1>3
<1>5. LineLen(b) = CHOOSE n \in DOMAIN b : First(n)
  BY DEF LineLen
<1>6. LineLen(b) \in DOMAIN b /\ First(LineLen(b))
  BY <1>4, <1>5
<1> QED
  BY <1>1, <1>6

(* The line that ends there and what follows make up the buffer. *)
LEMMA LineIsCut ==
  ASSUME NEW b \in Seq(Byte), HasLine(b)
  PROVE  /\ LineOf(b) \in Seq(Byte) /\ AfterLine(b) \in Seq(Byte)
         /\ Len(LineOf(b)) = LineLen(b) /\ LineOf(b) # <<>>
         /\ b = LineOf(b) \o AfterLine(b)
<1> DEFINE n == LineLen(b)
<1>1. n \in 1 .. Len(b) /\ Len(b) \in Nat
  BY FirstSeparator
<1> HIDE DEF n
<1>2. \A i \in 1 .. Len(b) : b[i] \in Byte
  OBVIOUS
<1>3. SubSeq(b, 1, n) \in Seq(Byte) /\ Len(SubSeq(b, 1, n)) = n
  BY <1>1, <1>2, SubSeqProperties
<1>4. SubSeq(b, n + 1, Len(b)) \in Seq(Byte)
  BY <1>1, <1>2, SubSeqProperties
<1>5. SubSeq(b, 1, n) \o SubSeq(b, n + 1, Len(b)) = SubSeq(b, 1, Len(b))
  BY <1>1, ConcatAdjacentSubSeq
<1>6. SubSeq(b, 1, Len(b)) = b
  BY SubSeqFull
<1>7. SubSeq(b, 1, n) # <<>>
  BY <1>1, <1>3
<1> QED
  BY <1>3, <1>4, <1>5, <1>6, <1>7 DEF LineOf, AfterLine, n

(* A text without a separator and a line together are a line. *)
LEMMA JoinedLine ==
  ASSUME NEW a \in Seq(Byte), ~HasLine(a), NEW b \in Seq(Byte), HasLine(b)
  PROVE  IsLine(a \o LineOf(b))
<1> DEFINE n == LineLen(b)
           m == Len(a)
           s == a \o LineOf(b)
<1>1. n \in 1 .. Len(b) /\ b[n] = line_sep /\ \A j \in 1 .. n - 1 : b[j] # line_sep
  BY FirstSeparator
<1>2. LineOf(b) \in Seq(Byte) /\ Len(LineOf(b)) = n /\ m \in Nat /\ Len(b) \in Nat
  BY LineIsCut
<1>3. \A i \in 1 .. n : LineOf(b)[i] = b[i]
  BY <1>1 DEF LineOf
<1>4. /\ s \in Seq(Byte) /\ Len(s) = m + n
      /\ \A i \in 1 .. m : s[i] = a[i]
      /\ \A i \in 1 .. n : s[m + i] = LineOf(b)[i]
  BY <1>2
<1>5. \A i \in 1 .. m : a[i] # line_sep
  BY DEF HasLine, ToSet
<1> HIDE DEF n, m, s
<1>6. Last(s) = line_sep
  BY <1>1, <1>2, <1>3, <1>4 DEF Last
<1>7. \A i \in 1 .. m + n - 1 : s[i] # line_sep
  <2> TAKE i \in 1 .. m + n - 1
  <2>1. CASE i \in 1 .. m
    BY <1>4, <1>5, <2>1
  <2>2. CASE i > m
    <3>1. i - m \in 1 .. n - 1 /\ i - m \in 1 .. n /\ m + (i - m) = i
      BY <1>1, <1>2, <2>2
    <3> QED
      BY <1>1, <1>3, <1>4, <3>1
  <2> QED
    BY <1>2, <2>1, <2>2
<1>8. line_sep \notin ToSet(Front(s))
  <2>1. \A i \in 1 .. Len(s) - 1 : s[i] \in Byte
    BY <1>1, <1>2, <1>4
  <2>2. /\ DOMAIN Front(s) = 1 .. m + n - 1
        /\ \A i \in 1 .. m + n - 1 : Front(s)[i] = s[i]
    BY <1>1, <1>2, <1>4 DEF Front
  <2> QED
    BY <1>7, <2>2 DEF ToSet
<1> QED
  BY <1>6, <1>8 DEF IsLine, s

-----------------------------------------------------------------------------
(***************************************************************************)
(* What is kept of the input.  UnderWay: a file is being read, and Pending *)
(* is what was read of it and not returned yet.                            *)
(***************************************************************************)
UnderWay == io \in {"ready", "fgetln", "lnbuf"}
Pending == IF io = "lnbuf" THEN lnbuf ELSE buf

FileType ==
  /\ file.data \in Seq(Byte) /\ file.packed \in BOOLEAN
  /\ offset \in 0 .. Len(file.data)

InputType ==
  /\ buf \in Seq(Byte) /\ lnbuf \in Seq(Byte) /\ dat \in Seq(Byte)
  /\ lnbuflen \in Nat /\ Len(lnbuf) <= lnbuflen
  /\ taken \in Seq(Seq(Byte))
  /\ failed \in BOOLEAN
  /\ io \in {"closed", "init", "ready", "fgetln", "lnbuf"}

(* Only what is packed is decompressed beyond the first fill, and what is  *)
(* put together in the line buffer is the beginning of a line.             *)
Stage ==
  /\ io = "init" => offset = 0 /\ taken = <<>> /\ ~failed
  /\ UnderWay /\ bz = "open" => file.packed
  /\ io \in {"fgetln", "lnbuf"} => ~failed
  /\ io = "lnbuf" => ~HasLine(lnbuf)

(* A line without a separator is what the file ends with. *)
Remainder(i) ==
  /\ i = Len(taken) /\ offset = Len(file.data) /\ buf = <<>> /\ io # "lnbuf"
  /\ ~HasLine(taken[i])

BytesKept == FlattenSeq(taken) \o Pending = SubSeq(file.data, 1, offset)
LinesKept == \A i \in 1 .. Len(taken) : IsLine(taken[i]) \/ Remainder(i)
Faithful == UnderWay /\ ~failed => BytesKept /\ LinesKept

InputInv == FileType /\ InputType /\ Stage /\ Faithful

(* A refill that succeeds gives the next bytes of the file, and none only  *)
(* at its end.                                                             *)
LEMMA RefillReads ==
  ASSUME FileType, NEW r \in Refills, r.ok,
         bz = "open" => file.packed \/ offset = 0
  PROVE  /\ r.offset \in offset .. Len(file.data)
         /\ r.got = SubSeq(file.data, offset + 1, r.offset)
         /\ r.got = <<>> => offset = Len(file.data)
         /\ r.bz = "open" => file.packed
<1> USE BufferAssumption
<1> DEFINE n == Len(file.data)
           Piece(q, from) ==
             \E x \in 0 .. n - from :
               /\ q.ok = TRUE /\ q.got = SubSeq(file.data, from + 1, from + x)
               /\ q.offset = from + x
               /\ x = 0 => from = n
<1>1. n \in Nat /\ offset \in Nat /\ offset <= n
  BY DEF FileType
<1>2. \A from \in 0 .. n :
        Room(from) \in 0 .. n - from /\ (Room(from) = 0 => from = n)
  BY <1>1 DEF Room, Least
<1>3. \A from \in 0 .. n : \A q \in PlainReads(from) : Piece(q, from) /\ q.bz = "none"
  <2> TAKE from \in 0 .. n
  <2> TAKE q \in PlainReads(from)
  <2>1. PICK x \in IF Room(from) = 0 THEN {0} ELSE 1 .. Room(from) :
          q = Reads(from, x, "none")
    BY DEF PlainReads
  <2>2. x \in 0 .. n - from /\ (x = 0 => from = n)
    BY <1>1, <1>2, <2>1
  <2>3. /\ q.ok = TRUE /\ q.got = SubSeq(file.data, from + 1, from + x)
        /\ q.offset = from + x /\ q.bz = "none"
    BY <2>1 DEF Reads
  <2> QED
    BY <2>2, <2>3
<1>4. \A q \in Unpacked : Piece(q, offset)
  <2> TAKE q \in Unpacked
  <2>1. PICK stream : q = Reads(offset, Room(offset), stream)
    BY DEF Unpacked
  <2>2. Room(offset) \in 0 .. n - offset /\ (Room(offset) = 0 => offset = n)
    BY <1>1, <1>2
  <2>3. /\ q.ok = TRUE /\ q.got = SubSeq(file.data, offset + 1, offset + Room(offset))
        /\ q.offset = offset + Room(offset)
    BY <2>1 DEF Reads
  <2> QED
    BY <2>2, <2>3
<1>5. Failure.ok = FALSE
  BY DEF Failure
<1>6. \/ r \in PlainReads(offset) /\ bz = "none"
      \/ r \in Unpacked /\ bz = "open" /\ file.packed
      \/ r \in PlainReads(0) /\ bz = "open" /\ ~file.packed
  BY <1>5 DEF Refills
<1>7. Piece(r, offset) /\ (r.bz = "open" => file.packed)
  BY <1>1, <1>3, <1>4, <1>6
<1>8. PICK x \in 0 .. n - offset :
        /\ r.got = SubSeq(file.data, offset + 1, offset + x)
        /\ r.offset = offset + x
        /\ x = 0 => offset = n
  BY <1>7
<1>9. r.got = <<>> => x = 0
  <2>1. file.data \in Seq(Byte) /\ x \in Nat /\ offset + x <= n
    BY <1>1 DEF FileType
  <2>2. \A i \in offset + 1 .. offset + x : file.data[i] \in Byte
    BY <1>1, <2>1
  <2>3. Len(SubSeq(file.data, offset + 1, offset + x)) = x
    <3>1. /\ offset + 1 \in Int /\ offset + x \in Int
          /\ (offset + x) - (offset + 1) + 1 = x
      BY <1>1, <2>1
    <3>2. Len(SubSeq(file.data, offset + 1, offset + x))
            = IF offset + 1 <= offset + x THEN (offset + x) - (offset + 1) + 1 ELSE 0
      BY <2>2, <3>1, SubSeqProperties
    <3> QED
      BY <1>1, <2>1, <3>1, <3>2
  <2>4. Len(r.got) = x
    BY <1>8, <2>3, Zenon
  <2>5. r.got = <<>> => Len(r.got) = 0
    OBVIOUS
  <2> QED
    BY <2>4, <2>5
<1> QED
  BY <1>1, <1>7, <1>8, <1>9

(* A refill that fails leaves the buffer empty and the place in the file   *)
(* as it was.                                                              *)
LEMMA RefillFails ==
  ASSUME NEW r \in Refills, ~r.ok
  PROVE  r.got = <<>> /\ r.offset = offset /\ r.bz = bz
<1>1. \A from : \A q \in PlainReads(from) : q.ok
  BY DEF PlainReads, Reads
<1>2. \A q \in Unpacked : q.ok
  BY DEF Unpacked, Reads
<1>3. r = Failure
  BY <1>1, <1>2 DEF Refills
<1> QED
  BY <1>3 DEF Failure

(* What is read next joins what was read. *)
LEMMA ReadOn ==
  ASSUME NEW s \in Seq(Byte), NEW from \in 0 .. Len(s), NEW to \in from .. Len(s)
  PROVE  SubSeq(s, 1, from) \o SubSeq(s, from + 1, to) = SubSeq(s, 1, to)
<1>1. Len(s) \in Nat
  OBVIOUS
<1>2. 1 \in 1 .. Len(s) + 1 /\ from \in 1 - 1 .. Len(s)
  BY <1>1
<1> QED
  BY <1>2, ConcatAdjacentSubSeq

(* In both cases. *)
LEMMA RefillType ==
  ASSUME FileType, NEW r \in Refills,
         bz = "open" => file.packed \/ offset = 0
  PROVE  r.got \in Seq(Byte) /\ r.ok \in BOOLEAN /\ r.offset \in 0 .. Len(file.data)
<1>1. Len(file.data) \in Nat /\ file.data \in Seq(Byte) /\ offset \in 0 .. Len(file.data)
  BY DEF FileType
<1>2. r.ok \in BOOLEAN
  <2>1. \A from, x, stream : Reads(from, x, stream).ok \in BOOLEAN
    BY DEF Reads
  <2>2. \A from : \A q \in PlainReads(from) : q.ok \in BOOLEAN
    BY <2>1 DEF PlainReads
  <2>3. \A q \in Unpacked : q.ok \in BOOLEAN
    BY <2>1 DEF Unpacked
  <2>4. Failure.ok \in BOOLEAN
    BY DEF Failure
  <2> QED
    BY <2>2, <2>3, <2>4 DEF Refills
<1>3. CASE r.ok
  <2>1. /\ r.offset \in offset .. Len(file.data)
        /\ r.got = SubSeq(file.data, offset + 1, r.offset)
    BY <1>3, RefillReads
  <2>2. \A i \in offset + 1 .. r.offset : file.data[i] \in Byte
    BY <1>1, <2>1
  <2>3. SubSeq(file.data, offset + 1, r.offset) \in Seq(Byte)
    BY <1>1, <2>1, <2>2, SubSeqProperties
  <2> QED
    BY <1>1, <1>2, <2>1, <2>3
<1>4. CASE ~r.ok
  <2>1. <<>> \in Seq(Byte)
    OBVIOUS
  <2> QED
    BY <1>1, <1>2, <1>4, <2>1, RefillFails
<1> QED
  BY <1>2, <1>3, <1>4

-----------------------------------------------------------------------------
(***************************************************************************)
(* Each operation on the input keeps that.                                 *)
(***************************************************************************)
LEMMA Regroup ==
  ASSUME NEW S, NEW f \in Seq(S), NEW l \in Seq(S), NEW e \in Seq(S)
  PROVE  /\ (f \o l) \o e = f \o (l \o e)
         /\ e # <<>> => l \o e # <<>>
<1>1. (f \o l) \o e = f \o (l \o e)
  BY ConcatAssociative
<1>2. e # <<>> => l \o e # <<>>
  BY ConcatEqualIffEmpty
<1> QED
  BY <1>1, <1>2

(* grep_fgetln() returns a line: what was taken grows by it.               *)
LEMMA ReturnTakes ==
  ASSUME taken \in Seq(Seq(Byte)), NEW line \in Seq(Byte), Return(line)
  PROVE  /\ taken' \in Seq(Seq(Byte)) /\ dat' \in Seq(Byte)
         /\ FlattenSeq(taken') = FlattenSeq(taken) \o line
         /\ line = <<>> => taken' = taken
         /\ line # <<>> => /\ Len(taken') = Len(taken) + 1
                          /\ taken'[Len(taken) + 1] = line
         /\ \A i \in 1 .. Len(taken) : taken'[i] = taken[i]
<1>1. dat' = line /\ taken' = IF line = <<>> THEN taken ELSE Append(taken, line)
  BY DEF Return
<1>2. FlattenSeq(taken) \in Seq(Byte)
  BY FlattenType
<1>3. CASE line = <<>>
  <2>1. FlattenSeq(taken) \o <<>> = FlattenSeq(taken)
    BY <1>2, ConcatEmptySeq
  <2> QED
    BY <1>1, <1>3, <2>1
<1>4. CASE line # <<>>
  <2>1. taken' = Append(taken, line)
    BY <1>1, <1>4
  <2>2. FlattenSeq(Append(taken, line)) = FlattenSeq(taken) \o line
    BY FlattenAppend
  <2>3. /\ Append(taken, line) \in Seq(Seq(Byte))
        /\ Len(Append(taken, line)) = Len(taken) + 1
        /\ Append(taken, line)[Len(taken) + 1] = line
        /\ \A i \in 1 .. Len(taken) : Append(taken, line)[i] = taken[i]
    BY AppendProperties
  <2> QED
    BY <1>1, <1>4, <2>1, <2>2, <2>3
<1> QED
  BY <1>3, <1>4

(* grep_open() starts at the beginning of a file.                          *)
LEMMA OpenKeeps ==
  ASSUME InputInv, NEW f, f.data \in Seq(Byte), f.packed \in BOOLEAN, Open(f)
  PROVE  InputInv'
<1>1. Len(f.data) \in Nat /\ <<>> \in Seq(Seq(Byte))
  OBVIOUS
<1> USE DEF InputInv
<1>2. FileType'
  BY <1>1 DEF FileType, Open
<1>3. InputType'
  BY <1>1 DEF InputType, Open
<1>4. Stage' /\ Faithful'
  BY DEF Stage, Faithful, UnderWay, Open
<1> QED
  BY <1>2, <1>3, <1>4

(* The first fill is the beginning of the file, packed or not.             *)
LEMMA FirstFillKeeps ==
  ASSUME InputInv, FirstFill, opt' = opt
  PROVE  InputInv' /\ io' \in {"closed", "ready"} /\ (io' = "ready" => ~failed')
<1> USE DEF InputInv
<1>1. io = "init" /\ offset = 0 /\ taken = <<>>
  BY DEF FirstFill, Stage
<1>2. PICK r \in Refills :
        /\ buf' = r.got /\ offset' = r.offset /\ bz' = r.bz /\ failed' = ~r.ok
        /\ io' = IF r.ok THEN "ready" ELSE "closed"
  BY DEF FirstFill, Refilled
<1>3. UNCHANGED <<file, lnbuf, lnbuflen, dat, taken>>
  BY DEF FirstFill
<1>4. r.got \in Seq(Byte) /\ r.ok \in BOOLEAN /\ r.offset \in 0 .. Len(file.data)
  BY <1>1, RefillType
<1>5. FileType' /\ InputType'
  BY <1>2, <1>3, <1>4 DEF FileType, InputType
<1>6. CASE r.ok
  <2>1. r.got = SubSeq(file.data, offset + 1, r.offset) /\ (r.bz = "open" => file.packed)
    BY <1>1, <1>6, RefillReads
  <2>2. Stage'
    BY <1>2, <1>3, <1>6, <2>1 DEF Stage
  <2>3. BytesKept'
    <3>1. taken' = <<>> /\ Pending' = r.got
      BY <1>1, <1>2, <1>3, <1>6 DEF Pending
    <3>2. FlattenSeq(taken') = <<>>
      BY <3>1, FlattenEmpty
    <3>3. <<>> \o r.got = r.got
      BY <1>4, ConcatEmptySeq
    <3>4. r.got = SubSeq(file.data, 1, r.offset)
      BY <1>1, <2>1
    <3> QED
      BY <1>2, <1>3, <3>1, <3>2, <3>3, <3>4 DEF BytesKept
  <2>4. LinesKept'
    BY <1>1, <1>3 DEF LinesKept
  <2> QED
    BY <1>2, <1>5, <1>6, <2>2, <2>3, <2>4 DEF Faithful
<1>7. CASE ~r.ok
  BY <1>2, <1>5, <1>7 DEF Stage, Faithful, UnderWay
<1> QED
  BY <1>6, <1>7

(* A file that is said to be compressed by gzip is not opened.             *)
LEMMA CannotDecompressKeeps ==
  ASSUME InputInv, CannotDecompress
  PROVE  InputInv' /\ io' = "closed"
<1> USE DEF InputInv
<1>1. FileType' /\ InputType' /\ io' = "closed"
  BY DEF FileType, InputType, CannotDecompress
<1> QED
  BY <1>1 DEF Stage, Faithful, UnderWay

(* grep_close() forgets what is in the buffers.                            *)
LEMMA CloseKeeps ==
  ASSUME InputInv, Close
  PROVE  InputInv' /\ io' = "closed"
<1> USE DEF InputInv
<1>1. io' = "closed" /\ FileType'
  BY DEF Close, FileType
<1>2. InputType'
  BY DEF Close, InputType
<1> QED
  BY <1>1, <1>2 DEF Stage, Faithful, UnderWay

(* A call of grep_fgetln() reads nothing yet.                              *)
LEMMA CallFgetlnKeeps ==
  ASSUME InputInv, CallFgetln, ~failed, opt' = opt
  PROVE  InputInv'
<1> USE DEF InputInv, CallFgetln
<1>1. FileType' /\ InputType'
  BY DEF FileType, InputType
<1>2. Stage'
  BY DEF Stage, UnderWay
<1>3. BytesKept /\ LinesKept
  BY DEF Faithful, UnderWay
<1>4. BytesKept'
  BY <1>3 DEF BytesKept, Pending
<1>5. LinesKept'
  BY <1>3 DEF LinesKept, IsLine, Remainder, HasLine, line_sep
<1> QED
  BY <1>1, <1>2, <1>4, <1>5 DEF Faithful

(* A step that leaves the input alone.                                     *)
LEMMA InputUnchanged ==
  ASSUME InputInv, UNCHANGED inputVars, opt' = opt
  PROVE  InputInv'
<1> USE DEF InputInv, inputVars
<1>1. FileType' /\ InputType'
  BY DEF FileType, InputType
<1>2. Stage'
  BY DEF Stage, UnderWay, HasLine, line_sep
<1>3. BytesKept => BytesKept'
  BY DEF BytesKept, Pending
<1>4. LinesKept => LinesKept'
  BY DEF LinesKept, IsLine, Remainder, HasLine, line_sep
<1> QED
  BY <1>1, <1>2, <1>3, <1>4 DEF Faithful, UnderWay

(* An empty buffer is filled with the next bytes; none of them is the end. *)
LEMMA FillBufferKeeps ==
  ASSUME InputInv, FillBuffer, opt' = opt
  PROVE  InputInv' /\ UnderWay' /\ (failed' /\ io' = "ready" => dat' = <<>>)
<1> USE DEF InputInv
<1>1. io = "fgetln" /\ buf = <<>> /\ UNCHANGED <<file, lnbuf, lnbuflen, binary>>
  BY DEF FillBuffer
<1>2. PICK r \in Refills :
        /\ buf' = r.got /\ offset' = r.offset /\ bz' = r.bz /\ failed' = ~r.ok
        /\ IF r.got = <<>> THEN Return(<<>>) ELSE UNCHANGED <<dat, taken, io>>
  BY DEF FillBuffer, Refilled
<1>3. ~failed /\ (bz = "open" => file.packed) /\ BytesKept /\ LinesKept
  BY <1>1 DEF Stage, Faithful, UnderWay
<1>4. r.got \in Seq(Byte) /\ r.ok \in BOOLEAN /\ r.offset \in 0 .. Len(file.data)
  BY <1>3, RefillType
<1>5. taken \in Seq(Seq(Byte)) /\ <<>> \in Seq(Byte)
  BY DEF InputType
<1>6. line_sep' = line_sep
  BY DEF line_sep
<1>7. FileType'
  BY <1>1, <1>2, <1>4 DEF FileType
<1>8. FlattenSeq(taken) = SubSeq(file.data, 1, offset)
  <2>1. FlattenSeq(taken) \o <<>> = FlattenSeq(taken)
    BY <1>5, FlattenType, ConcatEmptySeq
  <2> QED
    BY <1>1, <1>3, <2>1 DEF BytesKept, Pending
<1>9. CASE r.got = <<>>
  <2>1. dat' = <<>> /\ taken' = taken /\ io' = "ready"
    BY <1>2, <1>9 DEF Return
  <2>2. InputType'
    BY <1>1, <1>2, <1>4, <1>5, <2>1 DEF InputType
  <2>3. Stage'
    <3>1. CASE r.ok
      BY <1>1, <1>2, <1>3, <2>1, <3>1, RefillReads DEF Stage
    <3>2. CASE ~r.ok
      BY <1>1, <1>2, <1>3, <2>1, <3>2, RefillFails DEF Stage
    <3> QED
      BY <3>1, <3>2
  <2>4. ASSUME r.ok PROVE BytesKept' /\ LinesKept'
    <3>1. offset = Len(file.data) /\ r.offset \in offset .. Len(file.data)
      BY <1>3, <1>9, <2>4, RefillReads
    <3>2. offset' = offset /\ buf' = buf
      BY <1>1, <1>2, <1>7, <1>9, <3>1 DEF FileType
    <3>3. BytesKept'
      BY <1>1, <1>3, <2>1, <3>2 DEF BytesKept, Pending
    <3>4. LinesKept'
      BY <1>1, <1>3, <1>6, <2>1, <3>2 DEF LinesKept, IsLine, Remainder, HasLine
    <3> QED
      BY <3>3, <3>4
  <2> QED
    BY <1>2, <1>7, <2>1, <2>2, <2>3, <2>4 DEF Faithful, UnderWay
<1>10. CASE r.got # <<>>
  <2>1. UNCHANGED <<dat, taken, io>>
    BY <1>2, <1>10
  <2>2. r.ok
    BY <1>10, RefillFails
  <2>3. /\ r.offset \in offset .. Len(file.data)
        /\ r.got = SubSeq(file.data, offset + 1, r.offset)
        /\ r.bz = "open" => file.packed
    BY <1>3, <2>2, RefillReads
  <2>4. offset # Len(file.data)
    BY <1>4, <1>7, <1>10, <2>3 DEF FileType
  <2>5. InputType'
    BY <1>1, <1>2, <1>4, <2>1 DEF InputType
  <2>6. Stage'
    BY <1>1, <1>2, <2>1, <2>2, <2>3 DEF Stage
  <2>7. BytesKept'
    <3>2. SubSeq(file.data, 1, offset) \o SubSeq(file.data, offset + 1, r.offset)
            = SubSeq(file.data, 1, r.offset)
      BY <2>3, ReadOn DEF FileType
    <3> QED
      BY <1>1, <1>2, <1>8, <2>1, <2>3, <3>2 DEF BytesKept, Pending
  <2>8. LinesKept'
    BY <1>3, <1>6, <2>1, <2>4 DEF LinesKept, IsLine, Remainder
  <2> QED
    BY <1>1, <1>2, <1>7, <2>1, <2>2, <2>5, <2>6, <2>7, <2>8 DEF Faithful, UnderWay
<1> QED
  BY <1>9, <1>10

(* A line that is whole in the buffer is cut off it.                       *)
LEMMA TakeLineKeeps ==
  ASSUME InputInv, TakeLine, opt' = opt
  PROVE  InputInv' /\ UnderWay' /\ ~failed'
<1> USE DEF InputInv
<1>1. /\ io = "fgetln" /\ HasLine(buf) /\ Return(LineOf(buf)) /\ buf' = AfterLine(buf)
      /\ UNCHANGED <<file, offset, lnbuf, lnbuflen, bz, binary, failed>>
  BY DEF TakeLine
<1>2. ~failed /\ (bz = "open" => file.packed) /\ BytesKept /\ LinesKept
  BY <1>1 DEF Stage, Faithful, UnderWay
<1>3. buf \in Seq(Byte) /\ taken \in Seq(Seq(Byte))
  BY DEF InputType
<1>4. /\ LineOf(buf) \in Seq(Byte) /\ AfterLine(buf) \in Seq(Byte)
      /\ LineOf(buf) # <<>> /\ buf = LineOf(buf) \o AfterLine(buf)
  BY <1>1, <1>3, LineIsCut
<1>5. /\ taken' \in Seq(Seq(Byte)) /\ dat' \in Seq(Byte)
      /\ FlattenSeq(taken') = FlattenSeq(taken) \o LineOf(buf)
      /\ Len(taken') = Len(taken) + 1 /\ taken'[Len(taken) + 1] = LineOf(buf)
      /\ \A i \in 1 .. Len(taken) : taken'[i] = taken[i]
  BY <1>1, <1>3, <1>4, ReturnTakes
<1>6. io' = "ready" /\ line_sep' = line_sep
  BY <1>1 DEF Return, line_sep
<1>7. FileType' /\ InputType'
  BY <1>1, <1>4, <1>5, <1>6 DEF FileType, InputType
<1>8. Stage'
  BY <1>1, <1>2, <1>6 DEF Stage
<1>9. BytesKept'
  <2>1. FlattenSeq(taken) \in Seq(Byte)
    BY <1>3, FlattenType
  <2>2. (FlattenSeq(taken) \o LineOf(buf)) \o AfterLine(buf)
          = FlattenSeq(taken) \o (LineOf(buf) \o AfterLine(buf))
    BY <1>4, <2>1, ConcatAssociative
  <2>3. FlattenSeq(taken) \o buf = SubSeq(file.data, 1, offset)
    BY <1>1, <1>2 DEF BytesKept, Pending
  <2>4. FlattenSeq(taken') \o buf' = SubSeq(file.data, 1, offset)
    BY <1>1, <1>4, <1>5, <2>2, <2>3
  <2> QED
    BY <1>1, <1>6, <2>4 DEF BytesKept, Pending
<1>10. LinesKept'
  <2>1. buf # <<>>
    BY <1>1 DEF HasLine, ToSet
  <2>2. \A i \in 1 .. Len(taken) : IsLine(taken[i])
    BY <1>2, <2>1 DEF LinesKept, Remainder
  <2>3. IsLine(LineOf(buf))
    <3>1. <<>> \in Seq(Byte) /\ ~HasLine(<<>>)
      BY DEF HasLine, ToSet
    <3>2. <<>> \o LineOf(buf) = LineOf(buf)
      BY <1>4, ConcatEmptySeq
    <3>3. IsLine(<<>> \o LineOf(buf))
      BY <1>1, <1>3, <3>1, JoinedLine
    <3> QED
      BY <3>2, <3>3
  <2>4. \A i \in 1 .. Len(taken) + 1 : IsLine(taken'[i])
    <3> TAKE i \in 1 .. Len(taken) + 1
    <3>1. Len(taken) \in Nat
      BY <1>3
    <3>2. CASE i \in 1 .. Len(taken)
      BY <1>5, <2>2, <3>2
    <3>3. CASE i = Len(taken) + 1
      BY <1>5, <2>3, <3>3
    <3> QED
      BY <3>1, <3>2, <3>3
  <2> QED
    BY <1>5, <1>6, <2>4 DEF LinesKept, IsLine
<1> QED
  BY <1>1, <1>2, <1>6, <1>7, <1>8, <1>9, <1>10 DEF Faithful, UnderWay

(* The beginning of a line moves from the buffer to the line buffer.       *)
LEMMA StartLineKeeps ==
  ASSUME InputInv, StartLine, opt' = opt
  PROVE  InputInv' /\ UnderWay' /\ ~failed'
<1> USE DEF InputInv
<1>1. /\ io = "fgetln" /\ ~HasLine(buf) /\ io' = "lnbuf" /\ lnbuf' = buf /\ buf # <<>>
      /\ lnbuflen' = Grown(Len(buf) + LNBUFBUMP)
      /\ UNCHANGED <<file, offset, buf, bz, binary, dat, taken, failed>>
  BY DEF StartLine
<1>2. ~failed /\ (bz = "open" => file.packed) /\ BytesKept /\ LinesKept
  BY <1>1 DEF Stage, Faithful, UnderWay
<1>3. line_sep' = line_sep
  BY DEF line_sep
<1>4. lnbuflen' \in Nat /\ Len(buf) <= lnbuflen'
  <2>1. Len(buf) \in Nat /\ lnbuflen \in Nat /\ LNBUFBUMP \in Nat
    BY BufferAssumption DEF InputType
  <2> QED
    BY <1>1, <2>1 DEF Grown
<1>5. FileType' /\ InputType'
  BY <1>1, <1>4 DEF FileType, InputType
<1>6. Stage'
  BY <1>1, <1>2, <1>3 DEF Stage, HasLine
<1>7. BytesKept'
  BY <1>1, <1>2 DEF BytesKept, Pending
<1>8. LinesKept'
  BY <1>1, <1>2, <1>3 DEF LinesKept, Remainder, IsLine
<1> QED
  BY <1>1, <1>2, <1>5, <1>6, <1>7, <1>8 DEF Faithful, UnderWay

(* What ContinueLine does with each refill. *)
Refilling(r) ==
  /\ offset' = r.offset /\ bz' = r.bz /\ failed' = ~r.ok
  /\ UNCHANGED <<file, binary>>

(* The middle of a line joins its beginning.                               *)
LEMMA MoreOfLineKeeps ==
  ASSUME InputInv, opt' = opt, io = "lnbuf", NEW r \in Refills, Refilling(r),
         MoreOfLine(r)
  PROVE  InputInv' /\ UnderWay' /\ ~failed'
<1> USE DEF InputInv
<1>1. /\ r.got # <<>> /\ ~HasLine(r.got) /\ buf' = r.got /\ lnbuf' = lnbuf \o r.got
      /\ lnbuflen' = Grown(Len(lnbuf) + Len(r.got) + LNBUFBUMP)
      /\ UNCHANGED <<dat, taken, io>>
  BY DEF MoreOfLine
<1>0. /\ offset' = r.offset /\ bz' = r.bz /\ failed' = ~r.ok
      /\ UNCHANGED <<file, binary>>
  BY DEF Refilling
<1>2. ~failed /\ (bz = "open" => file.packed) /\ ~HasLine(lnbuf) /\ BytesKept /\ LinesKept
  BY <1>0 DEF Stage, Faithful, UnderWay
<1>3. r.got \in Seq(Byte) /\ r.offset \in 0 .. Len(file.data)
  BY <1>2, RefillType
<1>4. r.ok
  BY <1>1, RefillFails
<1>5. /\ r.offset \in offset .. Len(file.data)
      /\ r.got = SubSeq(file.data, offset + 1, r.offset)
      /\ r.bz = "open" => file.packed
  BY <1>2, <1>4, RefillReads
<1>6. lnbuf \in Seq(Byte) /\ taken \in Seq(Seq(Byte)) /\ line_sep' = line_sep
  BY <1>0 DEF InputType, line_sep
<1>7. FileType'
  BY <1>0, <1>3 DEF FileType
<1>8. lnbuf' \in Seq(Byte) /\ Len(lnbuf') = Len(lnbuf) + Len(r.got)
  BY <1>1, <1>3, <1>6, ConcatProperties
<1>9. InputType'
  <2>1. lnbuflen' \in Nat /\ Len(lnbuf') <= lnbuflen'
    <3>1. Len(lnbuf) \in Nat /\ lnbuflen \in Nat /\ LNBUFBUMP \in Nat /\ Len(r.got) \in Nat
      BY <1>0, <1>3, BufferAssumption DEF InputType
    <3> QED
      BY <1>1, <1>8, <3>1 DEF Grown
  <2> QED
    BY <1>0, <1>1, <1>3, <1>4, <1>8, <2>1 DEF InputType
<1>10. ~HasLine(lnbuf \o r.got)
  <2>1. Range(lnbuf \o r.got) = Range(lnbuf) \cup Range(r.got)
    BY <1>3, <1>6, RangeConcatenation
  <2> QED
    BY <1>1, <1>2, <2>1 DEF HasLine, ToSet, Range
<1>11. Stage'
  BY <1>0, <1>1, <1>4, <1>5, <1>6, <1>10 DEF Stage, HasLine
<1>12. BytesKept'
  <2>1. FlattenSeq(taken) \in Seq(Byte)
    BY <1>6, FlattenType
  <2>2. (FlattenSeq(taken) \o lnbuf) \o r.got = FlattenSeq(taken) \o (lnbuf \o r.got)
    <3>1. lnbuf \in Seq(Byte) /\ r.got \in Seq(Byte)
      BY <1>3, <1>6
    <3>2. \A f, l, e \in Seq(Byte) : (f \o l) \o e = f \o (l \o e)
      BY Regroup
    <3> QED
      BY <2>1, <3>1, <3>2, Zenon
  <2>3. FlattenSeq(taken) \o lnbuf = SubSeq(file.data, 1, offset)
    BY <1>0, <1>2 DEF BytesKept, Pending
  <2>4. SubSeq(file.data, 1, offset) \o SubSeq(file.data, offset + 1, r.offset)
          = SubSeq(file.data, 1, r.offset)
    BY <1>0, <1>5, ReadOn DEF FileType
  <2>5. FlattenSeq(taken) \o (lnbuf \o r.got) = SubSeq(file.data, 1, r.offset)
    BY <1>5, <2>2, <2>3, <2>4
  <2> QED
    BY <1>0, <1>1, <2>5 DEF BytesKept, Pending
<1>13. LinesKept'
  BY <1>0, <1>1, <1>2, <1>6 DEF LinesKept, Remainder, IsLine
<1> QED
  BY <1>0, <1>1, <1>4, <1>7, <1>9, <1>11, <1>12, <1>13 DEF Faithful, UnderWay

(* The end of a line joins its beginning, and the line is returned.        *)
LEMMA EndOfLineKeeps ==
  ASSUME InputInv, opt' = opt, io = "lnbuf", NEW r \in Refills, Refilling(r),
         EndOfLine(r)
  PROVE  InputInv' /\ UnderWay' /\ ~failed'
<1> USE DEF InputInv
<1> DEFINE end == LineOf(r.got)
           rest == AfterLine(r.got)
<1>1. /\ r.got # <<>> /\ HasLine(r.got) /\ buf' = rest /\ lnbuf' = lnbuf \o end
      /\ lnbuflen' = Grown(Len(lnbuf) + LineLen(r.got))
      /\ Return(lnbuf \o end)
  BY DEF EndOfLine
<1>0. /\ offset' = r.offset /\ bz' = r.bz /\ failed' = ~r.ok
      /\ UNCHANGED <<file, binary>>
  BY DEF Refilling
<1>2. ~failed /\ (bz = "open" => file.packed) /\ ~HasLine(lnbuf) /\ BytesKept /\ LinesKept
  BY <1>0 DEF Stage, Faithful, UnderWay
<1>3. r.got \in Seq(Byte) /\ r.offset \in 0 .. Len(file.data)
  BY <1>2, RefillType
<1>4. r.ok
  BY <1>1, RefillFails
<1>5. /\ r.offset \in offset .. Len(file.data)
      /\ r.got = SubSeq(file.data, offset + 1, r.offset)
      /\ r.bz = "open" => file.packed
  BY <1>2, <1>4, RefillReads
<1>6. lnbuf \in Seq(Byte) /\ taken \in Seq(Seq(Byte)) /\ line_sep' = line_sep
  BY <1>0 DEF InputType, line_sep
<1>7. FileType'
  BY <1>0, <1>3 DEF FileType
<1>8. /\ end \in Seq(Byte) /\ rest \in Seq(Byte) /\ Len(end) = LineLen(r.got)
      /\ end # <<>> /\ r.got = end \o rest
  BY <1>1, <1>3, LineIsCut
<1>9. IsLine(lnbuf \o end)
  BY <1>1, <1>2, <1>3, <1>6, JoinedLine
<1> HIDE DEF end, rest
<1>10. /\ lnbuf \o end \in Seq(Byte) /\ Len(lnbuf \o end) = Len(lnbuf) + Len(end)
       /\ lnbuf \o end # <<>>
  <2>1. lnbuf \in Seq(Byte) /\ end \in Seq(Byte) /\ end # <<>>
    BY <1>6, <1>8
  <2>2. lnbuf \o end \in Seq(Byte) /\ Len(lnbuf \o end) = Len(lnbuf) + Len(end)
    BY <2>1, ConcatProperties, Zenon
  <2>3. lnbuf \o end # <<>>
    BY <2>1, Regroup
  <2> QED
    BY <2>2, <2>3
<1>11. /\ taken' \in Seq(Seq(Byte)) /\ dat' \in Seq(Byte)
       /\ FlattenSeq(taken') = FlattenSeq(taken) \o (lnbuf \o end)
       /\ Len(taken') = Len(taken) + 1 /\ taken'[Len(taken) + 1] = lnbuf \o end
       /\ \A i \in 1 .. Len(taken) : taken'[i] = taken[i]
  BY <1>1, <1>6, <1>10, ReturnTakes
<1>12. io' = "ready"
  BY <1>1 DEF Return
<1>13. InputType'
  <2>1. lnbuflen' \in Nat /\ Len(lnbuf') <= lnbuflen'
    <3>1. Len(lnbuf) \in Nat /\ lnbuflen \in Nat /\ Len(end) \in Nat
      BY <1>0, <1>8 DEF InputType
    <3>2. lnbuflen' = Grown(Len(lnbuf) + Len(end)) /\ Len(lnbuf') = Len(lnbuf) + Len(end)
      BY <1>1, <1>8, <1>10
    <3> QED
      BY <3>1, <3>2 DEF Grown
  <2> QED
    BY <1>0, <1>1, <1>4, <1>8, <1>10, <1>11, <1>12, <2>1 DEF InputType
<1>14. Stage'
  BY <1>0, <1>4, <1>5, <1>12 DEF Stage
<1>15. BytesKept'
  <2>1. FlattenSeq(taken) \in Seq(Byte)
    BY <1>6, FlattenType
  <2>2. FlattenSeq(taken) \o lnbuf = SubSeq(file.data, 1, offset)
    BY <1>0, <1>2 DEF BytesKept, Pending
  <2>3. SubSeq(file.data, 1, offset) \o SubSeq(file.data, offset + 1, r.offset)
          = SubSeq(file.data, 1, r.offset)
    BY <1>0, <1>5, ReadOn DEF FileType
  <2>4. (FlattenSeq(taken) \o lnbuf) \o r.got = SubSeq(file.data, 1, r.offset)
    BY <1>5, <2>2, <2>3
  <2>5. lnbuf \in Seq(Byte) /\ end \in Seq(Byte) /\ rest \in Seq(Byte)
    BY <1>6, <1>8
  <2>6. (FlattenSeq(taken) \o (lnbuf \o end)) \o rest
          = (FlattenSeq(taken) \o lnbuf) \o (end \o rest)
    <3>1. lnbuf \o end \in Seq(Byte) /\ FlattenSeq(taken) \o lnbuf \in Seq(Byte)
      BY <2>1, <2>5, ConcatProperties
    <3>2. \A f, l, e \in Seq(Byte) : (f \o l) \o e = f \o (l \o e)
      BY Regroup
    <3>3. (FlattenSeq(taken) \o lnbuf) \o end = FlattenSeq(taken) \o (lnbuf \o end)
      BY <2>1, <2>5, <3>2, Zenon
    <3>4. ((FlattenSeq(taken) \o lnbuf) \o end) \o rest
            = (FlattenSeq(taken) \o lnbuf) \o (end \o rest)
      BY <2>5, <3>1, <3>2, Zenon
    <3> QED
      BY <3>3, <3>4, Zenon
  <2>7. end \o rest = r.got
    BY <1>8
  <2>8. (FlattenSeq(taken) \o (lnbuf \o end)) \o rest = SubSeq(file.data, 1, r.offset)
    BY <2>4, <2>6, <2>7
  <2> QED
    BY <1>0, <1>1, <1>11, <1>12, <2>8 DEF BytesKept, Pending
<1>16. LinesKept'
  <2>1. \A i \in 1 .. Len(taken) : IsLine(taken[i])
    BY <1>0, <1>2 DEF LinesKept, Remainder
  <2>2. \A i \in 1 .. Len(taken) + 1 : IsLine(taken'[i])
    <3> TAKE i \in 1 .. Len(taken) + 1
    <3>1. Len(taken) \in Nat
      BY <1>6
    <3>2. CASE i \in 1 .. Len(taken)
      BY <1>11, <2>1, <3>2
    <3>3. CASE i = Len(taken) + 1
      BY <1>9, <1>11, <3>3
    <3> QED
      BY <3>1, <3>2, <3>3
  <2> QED
    BY <1>0, <1>6, <1>11, <2>2 DEF LinesKept, IsLine
<1> QED
  BY <1>0, <1>4, <1>7, <1>12, <1>13, <1>14, <1>15, <1>16 DEF Faithful, UnderWay

(* The file ends within a line, or cannot be read: the line is returned,   *)
(* or nothing is.                                                          *)
LEMMA PartialLineKeeps ==
  ASSUME InputInv, opt' = opt, io = "lnbuf", NEW r \in Refills, Refilling(r),
         PartialLine(r)
  PROVE  InputInv' /\ UnderWay' /\ (failed' => dat' = <<>>)
<1> USE DEF InputInv
<1>1. /\ r.got = <<>> /\ buf' = <<>> /\ Return(IF r.ok THEN lnbuf ELSE <<>>)
      /\ UNCHANGED <<lnbuf, lnbuflen>>
  BY DEF PartialLine
<1>0. /\ offset' = r.offset /\ bz' = r.bz /\ failed' = ~r.ok
      /\ UNCHANGED <<file, binary>>
  BY DEF Refilling
<1>2. ~failed /\ (bz = "open" => file.packed) /\ ~HasLine(lnbuf) /\ BytesKept /\ LinesKept
  BY <1>0 DEF Stage, Faithful, UnderWay
<1>3. r.ok \in BOOLEAN /\ r.offset \in 0 .. Len(file.data)
  BY <1>2, RefillType
<1>4. /\ lnbuf \in Seq(Byte) /\ taken \in Seq(Seq(Byte)) /\ line_sep' = line_sep
      /\ <<>> \in Seq(Byte)
  BY <1>0 DEF InputType, line_sep
<1>5. FileType' /\ io' = "ready"
  BY <1>0, <1>1, <1>3 DEF FileType, Return
<1>6. CASE r.ok
  <2>1. /\ taken' \in Seq(Seq(Byte)) /\ dat' \in Seq(Byte)
        /\ FlattenSeq(taken') = FlattenSeq(taken) \o lnbuf
        /\ lnbuf = <<>> => taken' = taken
        /\ lnbuf # <<>> => /\ Len(taken') = Len(taken) + 1
                          /\ taken'[Len(taken) + 1] = lnbuf
        /\ \A i \in 1 .. Len(taken) : taken'[i] = taken[i]
    BY <1>1, <1>4, <1>6, ReturnTakes
  <2>2. /\ offset = Len(file.data) /\ r.offset \in offset .. Len(file.data)
        /\ r.bz = "open" => file.packed
    BY <1>1, <1>2, <1>6, RefillReads
  <2>3. offset' = offset
    BY <1>0, <2>2 DEF FileType
  <2>4. InputType'
    BY <1>0, <1>1, <1>4, <1>5, <1>6, <2>1 DEF InputType
  <2>5. Stage'
    BY <1>0, <1>5, <1>6, <2>2 DEF Stage
  <2>6. BytesKept'
    <3>1. FlattenSeq(taken) \o lnbuf = SubSeq(file.data, 1, offset)
      BY <1>0, <1>2 DEF BytesKept, Pending
    <3>2. (FlattenSeq(taken) \o lnbuf) \o <<>> = FlattenSeq(taken) \o lnbuf
      <4>1. FlattenSeq(taken) \in Seq(Byte)
        BY <1>4, FlattenType
      <4>2. FlattenSeq(taken) \o lnbuf \in Seq(Byte)
        BY <1>4, <4>1, ConcatProperties
      <4> QED
        BY <4>2, ConcatEmptySeq
    <3> QED
      BY <1>0, <1>1, <1>5, <2>1, <2>3, <3>1, <3>2 DEF BytesKept, Pending
  <2>7. LinesKept'
    <3>1. \A i \in 1 .. Len(taken) : IsLine(taken[i])
      BY <1>0, <1>2 DEF LinesKept, Remainder
    <3>2. \A i \in 1 .. Len(taken') :
            IsLine(taken'[i]) \/ (i = Len(taken') /\ taken'[i] = lnbuf)
      <4> TAKE i \in 1 .. Len(taken')
      <4>1. Len(taken) \in Nat
        BY <1>4
      <4>2. CASE i \in 1 .. Len(taken)
        BY <2>1, <3>1, <4>2
      <4>3. CASE i \notin 1 .. Len(taken)
        BY <2>1, <4>1, <4>3
      <4> QED
        BY <4>2, <4>3
    <3> QED
      BY <1>0, <1>1, <1>2, <1>4, <1>5, <2>2, <2>3, <3>2 DEF LinesKept, IsLine, Remainder, HasLine
  <2> QED
    BY <1>0, <1>5, <1>6, <2>4, <2>5, <2>6, <2>7 DEF Faithful, UnderWay
<1>7. CASE ~r.ok
  <2>1. dat' = <<>> /\ taken' = taken
    BY <1>1, <1>7 DEF Return
  <2>2. InputType'
    BY <1>0, <1>1, <1>4, <1>5, <1>7, <2>1 DEF InputType
  <2>3. Stage'
    BY <1>0, <1>2, <1>5, <1>7, RefillFails DEF Stage
  <2> QED
    BY <1>0, <1>5, <1>7, <2>1, <2>2, <2>3 DEF Faithful, UnderWay
<1> QED
  BY <1>3, <1>6, <1>7

(* The three ways in which a line is continued.                            *)
LEMMA ContinueLineKeeps ==
  ASSUME InputInv, ContinueLine, opt' = opt
  PROVE  InputInv' /\ UnderWay' /\ (failed' /\ io' = "ready" => dat' = <<>>)
<1>1. io = "lnbuf" /\ UNCHANGED <<file, binary>>
  BY DEF ContinueLine
<1>2. PICK r \in Refills :
        /\ Refilling(r)
        /\ MoreOfLine(r) \/ EndOfLine(r) \/ PartialLine(r)
  BY DEF ContinueLine, Refilling
<1>3. CASE MoreOfLine(r)
  BY <1>1, <1>2, <1>3, MoreOfLineKeeps
<1>4. CASE EndOfLine(r)
  BY <1>1, <1>2, <1>4, EndOfLineKeeps
<1>5. CASE PartialLine(r)
  BY <1>1, <1>2, <1>5, PartialLineKeeps
<1> QED
  BY <1>2, <1>3, <1>4, <1>5

-----------------------------------------------------------------------------
(***************************************************************************)
(* procfile() and main() use it as it is meant to be used: a line is asked *)
(* for only while no read has failed, and after a failure none is given.   *)
(***************************************************************************)
NameType(name) == name.data \in Seq(Byte) /\ name.packed \in BOOLEAN

RunType ==
  /\ opt.m \in Nat \cup {NoLimit}
  /\ Len(operands) \in Nat /\ DOMAIN operands = 1 .. Len(operands)
  /\ \A i \in 1 .. Len(operands) : NameType(operands[i])
  /\ NameType(stdin)
  /\ operands # <<>> => Len(operands) # 0
  /\ k \in Nat \ {0}

Correspond ==
  /\ pc \in {"main", "opening", "loop", "line", "end", "exit", "crash"}
  /\ pc \in {"main", "exit", "crash"} => io = "closed"
  /\ pc = "opening" => io = "init"
  /\ pc = "loop" => io = "ready" /\ ~failed
  /\ pc = "line" => UnderWay
  /\ pc = "end" => io = "ready"
  /\ failed /\ io = "ready" => dat = <<>>

ReadingInv == RunType /\ InputInv /\ Correspond

(* Before the first name nothing has been read.                            *)
LEMMA InitReading == Init => ReadingInv
<1> SUFFICES ASSUME Init PROVE ReadingInv
  OBVIOUS
<1>1. PICK r \in Runs : opt = r.opt /\ operands = r.operands /\ stdin = r.stdin
  BY DEF Init
<1>2. r.opt \in Setting /\ r.operands \in Seq(Operand) /\ r.stdin \in Operand
  BY RunsAssumption, SettingsAssumption
<1>3. r.opt.m \in Nat \cup {NoLimit}
  BY <1>2 DEF Setting
<1>4. \A n \in Operand : NameType(n)
  BY DEF Operand, NameType, Byte
<1>5. k = 1 /\ pc = "main" /\ InputInit
  BY DEF Init
<1>6. RunType
  <2>1. /\ Len(r.operands) \in Nat /\ DOMAIN r.operands = 1 .. Len(r.operands)
        /\ \A i \in 1 .. Len(r.operands) : r.operands[i] \in Operand
        /\ r.operands # <<>> => Len(r.operands) # 0
    BY <1>2
  <2> QED
    BY <1>1, <1>2, <1>3, <1>4, <1>5, <2>1 DEF RunType
<1>7. InputInv
  <2>0. <<>> \in Seq(Byte) /\ <<>> \in Seq(Seq(Byte)) /\ Len(<<>>) = 0
    OBVIOUS
  <2>1. FileType
    <3>1. file.data = <<>> /\ file.packed = FALSE /\ offset = 0
      BY <1>5 DEF InputInit, NoFile
    <3>2. file.data \in Seq(Byte) /\ Len(file.data) = 0
      BY <2>0, <3>1
    <3>3. file.packed \in BOOLEAN
      BY <3>1
    <3>4. offset \in 0 .. Len(file.data)
      BY <3>1, <3>2
    <3> QED
      BY <3>2, <3>3, <3>4 DEF FileType
  <2>2. InputType
    <3>1. buf \in Seq(Byte) /\ lnbuf \in Seq(Byte) /\ dat \in Seq(Byte)
      BY <1>5, <2>0 DEF InputInit
    <3>2. lnbuflen \in Nat /\ Len(lnbuf) <= lnbuflen
      BY <1>5, <2>0 DEF InputInit
    <3>3. taken \in Seq(Seq(Byte)) /\ failed = FALSE /\ io = "closed"
      BY <1>5, <2>0 DEF InputInit
    <3> QED
      BY <3>1, <3>2, <3>3 DEF InputType
  <2>3. Stage /\ Faithful
    BY <1>5 DEF InputInit, Stage, Faithful, UnderWay
  <2> QED
    BY <2>1, <2>2, <2>3 DEF InputInv
<1>8. Correspond
  BY <1>5 DEF InputInit, Correspond
<1> QED
  BY <1>6, <1>7, <1>8 DEF ReadingInv

(* The names do not change, and the one being processed moves on. *)
RunUnchanged == UNCHANGED <<opt, operands, stdin>> /\ (k' = k \/ k' = k + 1)

(* The names and the settings stay what they are.                          *)
LEMMA RunTypeKept == ASSUME RunType, RunUnchanged PROVE RunType'
<1>1. k' \in Nat \ {0}
  BY DEF RunType, RunUnchanged
<1> QED
  BY <1>1 DEF RunType, RunUnchanged, NameType

(* No step changes the names or the settings, and names are taken in       *)
(* order.                                                                  *)
LEMMA StepRun == ASSUME [Next]_vars PROVE RunUnchanged
<1> USE DEF RunUnchanged
<1>1. CASE Pass
  BY <1>1 DEF Pass, Returns
<1>2. CASE TreeError
  BY <1>2 DEF TreeError, Exit
<1>3. CASE StatFails
  BY <1>3 DEF StatFails, Returns
<1>4. CASE OpenFails
  BY <1>4 DEF OpenFails, Returns
<1>5. CASE OpenName
  BY <1>5 DEF OpenName
<1>6. CASE Opening
  BY <1>6 DEF Opening, Returns
<1>7. CASE ReadLine
  BY <1>7 DEF ReadLine
<1>8. CASE Reading
  BY <1>8 DEF Reading, mainVars
<1>9. CASE EndOfFile
  BY <1>9 DEF EndOfFile
<1>10. CASE SkipBinary
  BY <1>10 DEF SkipBinary, Returns
<1>11. CASE Selects
  BY <1>11 DEF Selects, Counted
<1>12. CASE FileDone
  BY <1>12 DEF FileDone, Returns
<1>13. CASE Finish
  BY <1>13 DEF Finish, Exit
<1>14. CASE UNCHANGED vars
  BY <1>14 DEF vars, mainVars
<1> QED
  BY <1>1, <1>2, <1>3, <1>4, <1>5, <1>6, <1>7, <1>8, <1>9, <1>10, <1>11, <1>12, <1>13,
     <1>14 DEF Next

(* Every step of grep keeps the invariant of the input: one case for each  *)
(* action.                                                                 *)
LEMMA StepReading == ASSUME ReadingInv, [Next]_vars PROVE ReadingInv'
<1> USE DEF ReadingInv
<1>0. RunType' /\ opt' = opt
  BY RunTypeKept, StepRun DEF RunUnchanged
<1>a. ASSUME UNCHANGED inputVars, pc' \in {"main", "exit", "crash"}, io = "closed"
      PROVE  InputInv' /\ Correspond'
  <2>1. InputInv'
    BY <1>0, <1>a, InputUnchanged
  <2> QED
    BY <1>a, <2>1 DEF Correspond, inputVars
<1>b. ASSUME io' = "closed", pc' = "main", InputInv'
      PROVE  Correspond'
  BY <1>b DEF Correspond
<1>1. CASE Pass
  <2>1. io = "closed" /\ UNCHANGED inputVars /\ pc' = "main"
    BY <1>1 DEF Pass, AtName, Considered, Stated, Returns, Correspond
  <2> QED
    BY <1>0, <1>a, <2>1
<1>2. CASE TreeError
  <2>1. io = "closed" /\ UNCHANGED inputVars /\ pc' = "exit"
    BY <1>2 DEF TreeError, AtName, Exit, Correspond
  <2> QED
    BY <1>0, <1>a, <2>1
<1>3. CASE StatFails
  <2>1. io = "closed" /\ UNCHANGED inputVars /\ pc' \in {"main", "crash"}
    BY <1>3 DEF StatFails, AtName, Considered, Stated, Returns, Correspond
  <2> QED
    BY <1>0, <1>a, <2>1
<1>4. CASE OpenFails
  <2>1. io = "closed" /\ UNCHANGED inputVars /\ pc' = "main"
    BY <1>4 DEF OpenFails, AtName, Considered, Stated, Returns, Correspond
  <2> QED
    BY <1>0, <1>a, <2>1
<1>5. CASE OpenName
  <2> DEFINE f == [data |-> Name.data, packed |-> Name.packed]
  <2>1. Open(f) /\ pc' = "opening" /\ AtName
    BY <1>5 DEF OpenName, Stated, Considered
  <2>2. NameType(Name)
    <3>1. CASE FromStdin
      BY <3>1 DEF Name, RunType
    <3>2. CASE ~FromStdin
      <4>1. k \in 1 .. Len(operands)
        BY <2>1, <3>2 DEF AtName, RunType
      <4> QED
        BY <3>2, <4>1 DEF Name, RunType
    <3> QED
      BY <3>1, <3>2
  <2>3. f.data \in Seq(Byte) /\ f.packed \in BOOLEAN
    BY <2>2 DEF NameType
  <2> HIDE DEF f
  <2>4. InputInv' /\ io' = "init" /\ failed' = FALSE
    BY <2>1, <2>3, OpenKeeps DEF Open
  <2> QED
    BY <1>0, <2>1, <2>4 DEF Correspond
<1>6. CASE Opening
  <2>1. CASE FirstFill
    <3>1. InputInv' /\ io' \in {"closed", "ready"} /\ (io' = "ready" => ~failed')
      BY <1>0, <2>1, FirstFillKeeps
    <3>2. (io' = "closed" /\ pc' = "main") \/ (io' = "ready" /\ pc' = "loop")
      BY <1>6 DEF Opening, Returns
    <3> QED
      BY <1>0, <3>1, <3>2 DEF Correspond
  <2>2. CASE CannotDecompress
    <3>1. InputInv' /\ io' = "closed"
      BY <2>2, CannotDecompressKeeps
    <3>2. pc' = "main"
      BY <1>6, <3>1 DEF Opening, Returns
    <3> QED
      BY <1>0, <1>b, <3>1, <3>2
  <2> QED
    BY <1>6, <2>1, <2>2 DEF Opening
<1>7. CASE ReadLine
  <2>1. CallFgetln /\ pc = "loop" /\ pc' = "line"
    BY <1>7 DEF ReadLine
  <2>2. InputInv' /\ io' = "fgetln"
    BY <1>0, <2>1, CallFgetlnKeeps DEF Correspond, CallFgetln
  <2> QED
    BY <1>0, <2>1, <2>2 DEF Correspond, UnderWay
<1>8. CASE Reading
  <2>1. pc = "line" /\ pc' = "line"
    BY <1>8 DEF Reading, mainVars
  <2>2. InputInv' /\ UnderWay' /\ (failed' /\ io' = "ready" => dat' = <<>>)
    <3>1. FillBuffer \/ TakeLine \/ StartLine \/ ContinueLine
      BY <1>8 DEF Reading
    <3> QED
      BY <1>0, <3>1, FillBufferKeeps, TakeLineKeeps, StartLineKeeps, ContinueLineKeeps
  <2> QED
    BY <1>0, <2>1, <2>2 DEF Correspond
<1>9. CASE EndOfFile
  <2>1. io = "ready" /\ UNCHANGED inputVars /\ pc' = "end"
    BY <1>9 DEF EndOfFile, HasReturned, Correspond
  <2>2. InputInv'
    BY <1>0, <2>1, InputUnchanged
  <2> QED
    BY <1>0, <2>1, <2>2 DEF Correspond, inputVars
<1>10. CASE SkipBinary
  <2>1. Close /\ pc' = "main"
    BY <1>10 DEF SkipBinary, Returns
  <2> QED
    BY <1>0, <1>b, <2>1, CloseKeeps
<1>11. CASE Selects
  <2>1. io = "ready" /\ ~failed /\ UNCHANGED inputVars /\ pc' \in {"loop", "end"}
    BY <1>11 DEF Selects, HasReturned, Counted, Correspond
  <2>2. InputInv'
    BY <1>0, <2>1, InputUnchanged
  <2> QED
    BY <1>0, <2>1, <2>2 DEF Correspond, inputVars
<1>12. CASE FileDone
  <2>1. Close /\ pc' = "main"
    BY <1>12 DEF FileDone, Returns
  <2> QED
    BY <1>0, <1>b, <2>1, CloseKeeps
<1>13. CASE Finish
  <2>1. io = "closed" /\ UNCHANGED inputVars /\ pc' = "exit"
    BY <1>13 DEF Finish, Exit, Correspond
  <2> QED
    BY <1>0, <1>a, <2>1
<1>14. CASE UNCHANGED vars
  <2>1. UNCHANGED inputVars /\ pc' = pc
    BY <1>14 DEF vars, mainVars
  <2>2. InputInv'
    BY <1>0, <2>1, InputUnchanged
  <2> QED
    BY <1>0, <2>1, <2>2 DEF Correspond, UnderWay, inputVars
<1> QED
  BY <1>1, <1>2, <1>3, <1>4, <1>5, <1>6, <1>7, <1>8, <1>9, <1>10, <1>11, <1>12, <1>13,
     <1>14 DEF Next

(* What has been read of a file is always what was returned, cut into its  *)
(* lines, and what is pending (file.c:120 to 160): the invariant of the    *)
(* input holds.                                                            *)
THEOREM GrepReads == Spec => []ReadingInv
<1>1. Init => ReadingInv
  BY InitReading
<1>2. ReadingInv /\ [Next]_vars => ReadingInv'
  BY StepReading
<1> QED
  BY <1>1, <1>2, PTL DEF Spec

(* What a caller of grep_fgetln() is given is the file, cut behind each    *)
(* separator, and no copy leaves the line buffer: for every file, size of  *)
(* the buffers and way the reads end (file.c:120 to 160).                  *)
THEOREM GrepLinesAreTheFile == Spec => []LinesAreTheFile
<1>1. ReadingInv => LinesAreTheFile
  <2> SUFFICES ASSUME ReadingInv PROVE LinesAreTheFile
    OBVIOUS
  <2>1. Len(lnbuf) <= lnbuflen /\ taken \in Seq(Seq(Byte))
    BY DEF ReadingInv, InputInv, InputType
  <2>2. UnderWay /\ ~failed => BytesKept /\ LinesKept
    BY DEF ReadingInv, InputInv, Faithful
  <2>3. DOMAIN taken = 1 .. Len(taken)
    BY <2>1
  <2>4. BytesKept =>
          FlattenSeq(taken) \o (IF io = "lnbuf" THEN lnbuf ELSE buf)
            = SubSeq(file.data, 1, offset)
    BY DEF BytesKept, Pending
  <2>5. LinesKept =>
          \A i \in DOMAIN taken :
            \/ IsLine(taken[i])
            \/ /\ i = Len(taken) /\ offset = Len(file.data)
               /\ line_sep \notin ToSet(taken[i])
    BY <2>3 DEF LinesKept, Remainder, HasLine
  <2> QED
    BY <2>1, <2>2, <2>4, <2>5 DEF LinesAreTheFile, UnderWay
<1> QED
  BY <1>1, GrepReads, PTL

-----------------------------------------------------------------------------
(***************************************************************************)
(* Counting the selected lines.  What procfile() has not returned yet is   *)
(* in c, and mcount is what is left of the limit; a file is opened, and a  *)
(* line asked for, only while something is left.                           *)
(***************************************************************************)
SeenLine == [file : Nat, hit : BOOLEAN, hidden : BOOLEAN]

InFile == pc \in {"loop", "line", "end"}
Current == IF InFile THEN c ELSE 0

Counting ==
  /\ seen \in Seq(SeenLine) /\ IsFiniteSet(Hits)
  /\ c \in Nat /\ total \in Nat
  /\ total + Current = Cardinality(Hits)
  /\ InFile /\ binary /\ opt.bin = "SKIP" => c = 0

Limiting ==
  opt.m # NoLimit =>
    /\ mcount \in Nat /\ Cardinality(Hits) + mcount = opt.m
    /\ pc \in {"opening", "loop", "line"} => mcount > 0
    /\ mcount = 0 /\ seen # <<>> => Len(seen) \in Hits

(* A missing name that was asked for has been noticed by the time the next *)
(* one is processed, unless the limit ended the search before.             *)
Missing(i) ==
  i <= Len(operands) /\ operands[i].kind = "missing" /\ FileMatching(operands[i])

Naming ==
  /\ pc \in {"opening", "loop", "line", "end"} =>
       FromStdin \/ (k <= Len(operands) /\ operands[k].kind = "file")
  /\ ~FromStdin /\ opt.m = NoLimit => \A i \in 1 .. k - 1 : Missing(i) => notfound
  /\ pc = "exit" /\ ~InTree =>
       code = Status /\ k > (IF FromStdin THEN 1 ELSE Len(operands))

CountingInv == ReadingInv /\ Counting /\ Limiting /\ Naming

(* Before the first name nothing is counted.                               *)
LEMMA InitCounting == Init => CountingInv
<1> SUFFICES ASSUME Init PROVE CountingInv
  OBVIOUS
<1>1. ReadingInv
  BY InitReading
<1>2. seen = <<>> /\ c = 0 /\ total = 0 /\ mcount = opt.m /\ pc = "main" /\ k = 1
  BY DEF Init, ContextInit
<1>3. Hits = {}
  BY <1>2 DEF Hits
<1>4. IsFiniteSet(Hits) /\ Cardinality(Hits) = 0
  BY <1>3, FS_EmptySet
<1>5. Counting
  <2>1. <<>> \in Seq(SeenLine)
    OBVIOUS
  <2> QED
    BY <1>2, <1>4, <2>1 DEF Counting, Current, InFile
<1>6. Limiting
  BY <1>1, <1>2, <1>4 DEF Limiting, ReadingInv, RunType
<1>7. Naming
  BY <1>2 DEF Naming
<1> QED
  BY <1>1, <1>5, <1>6, <1>7 DEF CountingInv

(* A line that is not processed changes nothing there; one that is, is the *)
(* last of all, and a hit if it is selected.                               *)
LEMMA OneMoreSeen ==
  ASSUME seen \in Seq(SeenLine), IsFiniteSet(Hits), NEW e \in SeenLine,
         seen' = Append(seen, e)
  PROVE  /\ seen' \in Seq(SeenLine) /\ seen' # <<>> /\ IsFiniteSet(Hits')
         /\ Cardinality(Hits') = Cardinality(Hits) + (IF e.hit THEN 1 ELSE 0)
         /\ Cardinality(Hits) \in Nat
         /\ e.hit => Len(seen') \in Hits'
<1> DEFINE n == Len(seen)
<1>1. /\ n \in Nat /\ DOMAIN seen = 1 .. n
      /\ seen' \in Seq(SeenLine) /\ seen' # <<>> /\ Len(seen') = n + 1
      /\ DOMAIN seen' = 1 .. n + 1
      /\ \A i \in 1 .. n : seen'[i] = seen[i]
      /\ seen'[n + 1] = e
  OBVIOUS
<1> HIDE DEF n
<1>2. Hits = {i \in 1 .. n : seen[i].hit} /\ Hits' = {i \in 1 .. n + 1 : seen'[i].hit}
  BY <1>1 DEF Hits
<1>3. CASE e.hit
  <2>1. Hits' = Hits \cup {n + 1} /\ n + 1 \notin Hits
    BY <1>1, <1>2, <1>3
  <2>2. /\ IsFiniteSet(Hits \cup {n + 1})
        /\ Cardinality(Hits \cup {n + 1}) = Cardinality(Hits) + 1
    BY <2>1, FS_AddElement
  <2> QED
    BY <1>1, <1>3, <2>1, <2>2, FS_CardinalityType
<1>4. CASE ~e.hit
  <2>1. Hits' = Hits
    BY <1>1, <1>2, <1>4
  <2>2. Cardinality(Hits) \in Nat
    BY FS_CardinalityType
  <2> QED
    BY <1>1, <1>4, <2>1, <2>2
<1> QED
  BY <1>3, <1>4

(* A step that processes no line may move the count of the file to the     *)
(* total.                                                                  *)
LEMMA CountingKept ==
  ASSUME Counting, Limiting, UNCHANGED <<opt, seen, mcount>>,
         c' \in Nat, total' \in Nat, total' + Current' = total + Current,
         InFile' /\ binary' /\ opt.bin = "SKIP" => c' = 0,
         opt.m # NoLimit /\ pc' \in {"opening", "loop", "line"} => mcount > 0
  PROVE  Counting' /\ Limiting'
<1>1. Hits' = Hits
  BY DEF Hits
<1>2. Counting'
  BY <1>1 DEF Counting
<1>3. Limiting'
  BY <1>1 DEF Limiting
<1> QED
  BY <1>2, <1>3

(* procfile() returns for a name, which is noticed if it was missing.      *)
LEMMA ReturnsNaming ==
  ASSUME RunType, Naming, NEW n, NEW missing \in BOOLEAN, Returns(n, missing), opt' = opt,
         ~FromStdin /\ opt.m = NoLimit /\ Missing(k) => missing
  PROVE  Naming'
<1>1. /\ notfound' = (notfound \/ missing) /\ k' = k + 1 /\ pc' = "main"
      /\ UNCHANGED <<operands, opt>>
  BY DEF Returns
<1>2. ASSUME ~FromStdin, opt.m = NoLimit, NEW i \in 1 .. k, Missing(i)
      PROVE  notfound'
  <2>1. k \in Nat \ {0}
    BY DEF RunType
  <2>2. CASE i \in 1 .. k - 1
    BY <1>1, <1>2, <2>2 DEF Naming
  <2>3. CASE i = k
    BY <1>1, <1>2, <2>3
  <2> QED
    BY <2>1, <2>2, <2>3
<1>3. k' - 1 = k
  BY <1>1 DEF RunType
<1>4. FromStdin' = FromStdin /\ \A i : Missing(i)' = Missing(i)
  BY <1>1 DEF FromStdin, Missing, FileMatching
<1> QED
  BY <1>1, <1>2, <1>3, <1>4 DEF Naming

(* A step within a file leaves what is known of the names.                 *)
LEMMA MovesNaming ==
  ASSUME Naming, UNCHANGED <<opt, operands, k, notfound>>, pc' # "exit",
         pc' \in {"opening", "loop", "line", "end"} =>
           \/ pc \in {"opening", "loop", "line", "end"}
           \/ FromStdin \/ (k <= Len(operands) /\ operands[k].kind = "file")
  PROVE  Naming'
BY DEF Naming, FromStdin, Missing, FileMatching

(* A name that is passed by: nothing of it is read. *)
LEMMA PassedBy ==
  ASSUME CountingInv, pc = "main", opt' = opt, UNCHANGED <<seen, c>>,
         NEW missing \in BOOLEAN, Returns(0, missing),
         ~FromStdin /\ opt.m = NoLimit /\ Missing(k) => missing
  PROVE  Counting' /\ Limiting' /\ Naming'
<1> USE DEF CountingInv
<1>1. total' = total + 0 /\ mcount' = mcount /\ pc' = "main"
  BY DEF Returns
<1>2. c \in Nat /\ total \in Nat
  BY DEF Counting
<1>3. Current = 0 /\ Current' = 0 /\ ~InFile'
  BY <1>1 DEF Current, InFile
<1>4. Counting' /\ Limiting'
  BY <1>1, <1>2, <1>3, CountingKept
<1>5. Naming'
  BY ReturnsNaming DEF ReadingInv
<1> QED
  BY <1>4, <1>5

(* A step within a file, or into one, that counts nothing. *)
LEMMA GoesOn ==
  ASSUME CountingInv, UNCHANGED <<opt, operands, k, seen, c, total, mcount, notfound>>,
         pc' # "exit", Current' = Current,
         InFile' => InFile /\ binary' = binary,
         opt.m # NoLimit /\ pc' \in {"opening", "loop", "line"} => mcount > 0,
         pc' \in {"opening", "loop", "line", "end"} =>
           \/ pc \in {"opening", "loop", "line", "end"}
           \/ FromStdin \/ (k <= Len(operands) /\ operands[k].kind = "file")
  PROVE  Counting' /\ Limiting' /\ Naming'
<1> USE DEF CountingInv
<1>1. Counting' /\ Limiting'
  <2>1. c \in Nat /\ total \in Nat /\ (InFile /\ binary /\ opt.bin = "SKIP" => c = 0)
    BY DEF Counting
  <2> QED
    BY <2>1, CountingKept
<1>2. Naming'
  BY MovesNaming
<1> QED
  BY <1>1, <1>2

(* Every step of grep keeps the counts: one case for each action.          *)
LEMMA StepCounting == ASSUME CountingInv, [Next]_vars PROVE CountingInv'
<1> USE DEF CountingInv
<1>0. ReadingInv' /\ opt' = opt /\ operands' = operands
  BY StepReading, StepRun DEF RunUnchanged
<1>a. /\ c \in Nat /\ total \in Nat /\ (opt.m # NoLimit => mcount \in Nat)
      /\ seen \in Seq(SeenLine) /\ IsFiniteSet(Hits)
  BY DEF Counting, Limiting
<1>b. opt.m # NoLimit /\ pc \in {"opening", "loop", "line"} => mcount > 0
  BY DEF Limiting
<1>c. /\ pc \in {"opening", "loop", "line", "end"} =>
            FromStdin \/ (k <= Len(operands) /\ operands[k].kind = "file")
  BY DEF Naming
<1>1. CASE Pass
  <2>1. pc = "main" /\ Returns(0, FALSE) /\ UNCHANGED <<seen, c>>
    BY <1>1 DEF Pass, AtName, Considered, Stated, contextVars
  <2>2. ~(~FromStdin /\ opt.m = NoLimit /\ Missing(k))
    BY <1>1 DEF Pass, Stated, LimitReached, Missing, Name
  <2> QED
    BY <1>0, <2>1, <2>2, PassedBy
<1>2. CASE TreeError
  <2>1. /\ pc = "main" /\ pc' = "exit" /\ InTree
        /\ UNCHANGED <<opt, seen, c, total, mcount, operands, k, notfound>>
    BY <1>2 DEF TreeError, AtName, Exit, contextVars
  <2>2. Counting' /\ Limiting'
    BY <1>a, <2>1, CountingKept DEF Current, InFile
  <2>3. Naming'
    BY <2>1 DEF Naming, FromStdin, Missing, FileMatching, InTree
  <2> QED
    BY <1>0, <2>2, <2>3
<1>3. CASE StatFails
  <2>1. pc = "main" /\ UNCHANGED <<seen, c>>
    BY <1>3 DEF StatFails, AtName, Considered, Stated, contextVars
  <2>2. CASE Returns(0, Name.kind = "missing")
    <3>1. ~FromStdin /\ Missing(k) => Name.kind = "missing"
      BY DEF Missing, Name
    <3> DEFINE missing == Name.kind = "missing"
    <3>2. missing \in BOOLEAN /\ Returns(0, missing) /\ (~FromStdin /\ Missing(k) => missing)
      BY <2>2, <3>1
    <3> HIDE DEF missing
    <3> QED
      BY <1>0, <2>1, <3>2, PassedBy
  <2>3. CASE pc' = "crash" /\ UNCHANGED <<operands, stdin, k, total, mcount, notfound, code>>
    <3>1. Current' = Current /\ ~InFile'
      BY <2>1, <2>3 DEF Current, InFile
    <3> QED
      BY <1>0, <2>1, <2>3, <3>1, GoesOn
  <2> QED
    BY <1>3, <2>2, <2>3 DEF StatFails
<1>4. CASE OpenFails
  <2>1. pc = "main" /\ UNCHANGED <<seen, c>> /\ Name.kind \in {"file", "directory"} /\ ~FromStdin
    BY <1>4 DEF OpenFails, AtName, Considered, Stated, contextVars
  <2>2. PICK gone \in BOOLEAN : Returns(0, gone)
    BY <1>4 DEF OpenFails
  <2>3. ~Missing(k)
    BY <2>1 DEF Missing, Name
  <2> QED
    BY <1>0, <2>1, <2>2, <2>3, PassedBy
<1>5. CASE OpenName
  <2>1. /\ AtName /\ pc = "main" /\ pc' = "opening" /\ Name.kind = "file" /\ ~LimitReached
        /\ UNCHANGED <<opt, operands, k, seen, c, total, mcount, notfound>>
    BY <1>5 DEF OpenName, AtName, Considered, Stated, contextVars
  <2>2. opt.m # NoLimit => mcount > 0
    BY <1>a, <2>1 DEF LimitReached
  <2>3. FromStdin \/ (k <= Len(operands) /\ operands[k].kind = "file")
    BY <2>1 DEF AtName, Name
  <2>4. Current' = Current /\ ~InFile'
    BY <2>1 DEF Current, InFile
  <2> QED
    BY <1>0, <2>1, <2>2, <2>3, <2>4, GoesOn
<1>6. CASE Opening
  <2>1. pc = "opening"
    BY <1>6 DEF Opening
  <2>2. CASE Returns(0, FALSE) /\ UNCHANGED <<contextVars, c>>
    <3>1. total' = total + 0 /\ mcount' = mcount /\ pc' = "main" /\ UNCHANGED <<seen, c>>
      BY <2>2 DEF Returns, contextVars
    <3>2. Current = 0 /\ Current' = 0 /\ ~InFile'
      BY <2>1, <3>1 DEF Current, InFile
    <3>3. Counting' /\ Limiting'
      BY <1>0, <1>a, <3>1, <3>2, CountingKept
    <3>4. ~FromStdin => ~Missing(k)
      BY <1>c, <2>1 DEF Missing
    <3>5. Naming'
      BY <1>0, <2>2, <3>4, ReturnsNaming DEF ReadingInv
    <3> QED
      BY <1>0, <3>3, <3>5
  <2>3. CASE /\ io' = "ready" /\ pc' = "loop" /\ c' = 0 /\ StartFile
             /\ UNCHANGED <<operands, stdin, k, total, mcount, notfound, code>>
    <3>1. UNCHANGED <<seen, opt>>
      BY <1>0, <2>3 DEF StartFile
    <3>2. Current = 0 /\ Current' = 0
      BY <2>1, <2>3 DEF Current, InFile
    <3>3. Counting' /\ Limiting'
      BY <1>a, <1>b, <2>1, <2>3, <3>1, <3>2, CountingKept
    <3>4. Naming'
      BY <1>0, <2>1, <2>3, MovesNaming
    <3> QED
      BY <1>0, <3>3, <3>4
  <2> QED
    BY <1>6, <2>2, <2>3 DEF Opening
<1>7. CASE ReadLine
  <2>1. /\ pc = "loop" /\ pc' = "line" /\ binary' = binary
        /\ UNCHANGED <<opt, operands, k, seen, c, total, mcount, notfound>>
    BY <1>7 DEF ReadLine, CallFgetln, contextVars
  <2>2. Current' = Current /\ InFile
    BY <2>1 DEF Current, InFile
  <2> QED
    BY <1>0, <1>b, <2>1, <2>2, GoesOn
<1>8. CASE Reading
  <2>1. /\ pc = "line" /\ pc' = pc
        /\ UNCHANGED <<opt, operands, k, seen, c, total, mcount, notfound>>
    BY <1>8 DEF Reading, mainVars, contextVars
  <2>2. binary' = binary
    BY <1>8 DEF Reading, FillBuffer, TakeLine, StartLine, ContinueLine
  <2>3. Current' = Current /\ InFile
    BY <2>1 DEF Current, InFile
  <2> QED
    BY <1>0, <1>b, <2>1, <2>2, <2>3, GoesOn
<1>9. CASE EndOfFile
  <2>1. /\ pc \in {"loop", "line"} /\ pc' = "end" /\ binary' = binary
        /\ UNCHANGED <<opt, operands, k, seen, c, total, mcount, notfound>>
    BY <1>9 DEF EndOfFile, HasReturned, inputVars, contextVars
  <2>2. Current' = Current /\ InFile
    BY <2>1 DEF Current, InFile
  <2> QED
    BY <1>0, <2>1, <2>2, GoesOn
<1>10. CASE SkipBinary
  <2>1. /\ pc = "line" /\ binary /\ opt.bin = "SKIP" /\ Returns(0, FALSE)
        /\ UNCHANGED <<seen, c>>
    BY <1>10 DEF SkipBinary, HasReturned, contextVars
  <2>2. total' = total + 0 /\ mcount' = mcount /\ pc' = "main"
    BY <2>1 DEF Returns
  <2>3. Current = 0 /\ Current' = 0 /\ ~InFile'
    BY <2>1, <2>2 DEF Counting, Current, InFile
  <2>4. Counting' /\ Limiting'
    BY <1>0, <1>a, <2>1, <2>2, <2>3, CountingKept
  <2>5. ~FromStdin => ~Missing(k)
    BY <1>c, <2>1 DEF Missing
  <2>6. Naming'
    BY <1>0, <2>1, <2>5, ReturnsNaming DEF ReadingInv
  <2> QED
    BY <1>0, <2>4, <2>6
<1>11. CASE Selects
  <2> DEFINE hit == IsHit(dat)
             t == IF hit THEN 1 ELSE 0
             hidden == hit /\ binary /\ opt.bin = "BIN"
             e == [file |-> k, hit |-> hit, hidden |-> hidden]
  <2>1. /\ pc = "line" /\ ~(binary /\ opt.bin = "SKIP") /\ ProcLine(k, hit, binary)
        /\ c' = c + t /\ Counted(t)
        /\ UNCHANGED <<opt, inputVars, operands, stdin, k, total, notfound, code>>
    BY <1>11 DEF Selects, HasReturned
  <2>2. seen' = Append(seen, e)
    BY <2>1 DEF ProcLine
  <2>3. k \in Nat /\ hit \in BOOLEAN /\ hidden \in BOOLEAN
    BY DEF ReadingInv, RunType, IsHit
  <2>4. e \in SeenLine /\ e.hit = hit
    BY <2>3 DEF SeenLine
  <2>5. t \in Nat /\ t <= 1
    OBVIOUS
  <2> HIDE DEF e, hit, hidden
  <2>6. /\ seen' \in Seq(SeenLine) /\ seen' # <<>> /\ IsFiniteSet(Hits')
        /\ Cardinality(Hits') = Cardinality(Hits) + t
        /\ Cardinality(Hits) \in Nat
        /\ hit => Len(seen') \in Hits'
    BY <1>a, <2>2, <2>4, OneMoreSeen
  <2>7. binary' = binary
    BY <2>1 DEF inputVars
  <2>8. Counting'
    <3>1. pc' \in {"loop", "end"}
      BY <2>1 DEF Counted
    <3>2. Current = c /\ Current' = c' /\ InFile'
      BY <2>1, <3>1 DEF Current, InFile
    <3>3. total + c = Cardinality(Hits)
      BY <3>2 DEF Counting
    <3> QED
      BY <1>0, <1>a, <2>1, <2>5, <2>6, <2>7, <3>2, <3>3 DEF Counting
  <2>9. Limiting'
    <3> SUFFICES ASSUME opt.m # NoLimit
                 PROVE  /\ mcount' \in Nat /\ Cardinality(Hits') + mcount' = opt.m
                        /\ pc' \in {"opening", "loop", "line"} => mcount' > 0
                        /\ mcount' = 0 => Len(seen') \in Hits'
      BY <1>0 DEF Limiting
    <3>1. mcount' = mcount - t /\ pc' = IF mcount - t <= 0 THEN "end" ELSE "loop"
      BY <2>1 DEF Counted
    <3>2. mcount \in Nat /\ mcount > 0 /\ Cardinality(Hits) + mcount = opt.m
      BY <2>1 DEF Limiting
    <3>3. mcount' \in Nat /\ (mcount' = 0 => hit)
      BY <3>1, <3>2
    <3> QED
      BY <2>5, <2>6, <3>1, <3>2, <3>3
  <2>10. Naming'
    <3>1. pc' \in {"loop", "end"}
      BY <2>1 DEF Counted
    <3> QED
      BY <2>1, <3>1, MovesNaming
  <2> QED
    BY <1>0, <2>8, <2>9, <2>10
<1>12. CASE FileDone
  <2>1. pc = "end" /\ Returns(c, FALSE) /\ UNCHANGED <<seen, c>>
    BY <1>12 DEF FileDone, EndFile
  <2>2. total' = total + c /\ mcount' = mcount /\ pc' = "main"
    BY <2>1 DEF Returns
  <2>3. Current = c /\ Current' = 0 /\ ~InFile'
    BY <2>1, <2>2 DEF Current, InFile
  <2>4. Counting' /\ Limiting'
    BY <1>0, <1>a, <2>1, <2>2, <2>3, CountingKept
  <2>5. ~FromStdin => ~Missing(k)
    BY <1>c, <2>1 DEF Missing
  <2>6. Naming'
    BY <1>0, <2>1, <2>5, ReturnsNaming DEF ReadingInv
  <2> QED
    BY <1>0, <2>4, <2>6
<1>13. CASE Finish
  <2>1. /\ pc = "main" /\ ~AtName /\ pc' = "exit" /\ code' = Status
        /\ UNCHANGED <<opt, seen, c, total, mcount, operands, k, notfound>>
    BY <1>13 DEF Finish, Exit, contextVars
  <2>2. Counting' /\ Limiting'
    BY <1>a, <2>1, CountingKept DEF Current, InFile
  <2>3. /\ Status' = Status /\ InTree' = InTree /\ FromStdin' = FromStdin
        /\ \A i : Missing(i)' = Missing(i)
    BY <2>1 DEF Status, InTree, FromStdin, Missing, FileMatching
  <2>4. k > (IF FromStdin THEN 1 ELSE Len(operands))
    <3>1. k \in Nat /\ Len(operands) \in Nat
      BY DEF ReadingInv, RunType
    <3> QED
      BY <2>1, <3>1 DEF AtName
  <2>5. Naming'
    BY <2>1, <2>3, <2>4 DEF Naming
  <2> QED
    BY <1>0, <2>2, <2>5
<1>14. CASE UNCHANGED vars
  <2>1. /\ pc' = pc /\ binary' = binary /\ code' = code
        /\ UNCHANGED <<opt, operands, k, seen, c, total, mcount, notfound>>
    BY <1>14 DEF vars, inputVars, contextVars, mainVars
  <2>2. Current' = Current /\ InFile' = InFile
    BY <2>1 DEF Current, InFile
  <2>3. Counting' /\ Limiting'
    BY <1>a, <1>b, <2>1, <2>2, CountingKept DEF Counting
  <2>4. /\ Status' = Status /\ InTree' = InTree /\ FromStdin' = FromStdin
        /\ \A i : Missing(i)' = Missing(i)
    BY <2>1 DEF Status, InTree, FromStdin, Missing, FileMatching
  <2>5. Naming'
    BY <2>1, <2>4 DEF Naming
  <2> QED
    BY <1>0, <2>3, <2>5
<1> QED
  BY <1>1, <1>2, <1>3, <1>4, <1>5, <1>6, <1>7, <1>8, <1>9, <1>10, <1>11, <1>12, <1>13,
     <1>14, <1>0 DEF Next

(* The counts of the lines selected, in the file and in all, the rest of   *)
(* the limit and the missing names that were noticed agree with the lines  *)
(* and the names processed (util.c:159, 216, grep.c:670 to 689).           *)
THEOREM GrepCounts == Spec => []CountingInv
<1>1. Init => CountingInv
  BY InitCounting
<1>2. CountingInv /\ [Next]_vars => CountingInv'
  BY StepCounting
<1> QED
  BY <1>1, <1>2, PTL DEF Spec

(* With -m no more lines are selected than that, in all the files, and the *)
(* last line that is processed is then the last one selected: for every    *)
(* limit and any number of files (util.c:159, 216).                        *)
THEOREM GrepLimitKept == Spec => []LimitKept
<1>1. CountingInv => LimitKept
  <2> SUFFICES ASSUME CountingInv, opt.m # NoLimit
               PROVE  /\ Cardinality(Hits) <= opt.m
                      /\ seen # <<>> /\ Cardinality(Hits) = opt.m => Len(seen) \in Hits
    BY DEF LimitKept
  <2>1. /\ mcount \in Nat /\ Cardinality(Hits) + mcount = opt.m
        /\ mcount = 0 /\ seen # <<>> => Len(seen) \in Hits
    BY DEF CountingInv, Limiting
  <2>2. Cardinality(Hits) \in Nat
    BY FS_CardinalityType DEF CountingInv, Counting
  <2> QED
    BY <2>1, <2>2
<1> QED
  BY <1>1, GrepCounts, PTL

(* The exit status is 0 only when a line was selected, 1 only when none    *)
(* was, 2 only when a name was missing, and 2 if one was and neither -q    *)
(* nor -m is given: for any names (grep.c:670 to 689).                     *)
THEOREM GrepStatusTellsMatch == Spec => []StatusTellsMatch
<1>1. CountingInv => StatusTellsMatch
  <2> SUFFICES ASSUME CountingInv, pc = "exit", ~InTree PROVE StatusTellsMatch
    BY DEF StatusTellsMatch
  <2>1. code = Status /\ k > (IF FromStdin THEN 1 ELSE Len(operands))
    BY DEF CountingInv, Naming
  <2>2. total \in Nat /\ total = Cardinality(Hits)
    BY DEF CountingInv, Counting, Current, InFile
  <2>3. Hits = {} <=> total = 0
    BY <2>2, FS_EmptySet DEF CountingInv, Counting
  <2>4. Status \in {0, 1, 2}
    BY DEF Status
  <2>5. /\ code = 0 => total > 0
        /\ code = 1 => total = 0
        /\ code = 2 => notfound
    BY <2>1, <2>2 DEF Status
  <2>6. ASSUME ~FromStdin, ~opt.q, opt.m = NoLimit, NEW i \in DOMAIN operands,
               operands[i].kind = "missing", FileMatching(operands[i])
        PROVE  code = 2
    <3>1. /\ DOMAIN operands = 1 .. Len(operands) /\ k \in Nat /\ Len(operands) \in Nat
      BY DEF CountingInv, ReadingInv, RunType
    <3>2. i \in 1 .. k - 1 /\ i <= Len(operands)
      BY <2>1, <2>6, <3>1
    <3>3. Missing(i)
      BY <2>6, <3>2 DEF Missing
    <3>4. notfound
      BY <2>6, <3>2, <3>3 DEF CountingInv, Naming
    <3> QED
      BY <2>1, <2>2, <2>6, <3>4 DEF Status
  <2> QED
    BY <2>3, <2>5, <2>6, <2>2 DEF StatusTellsMatch
<1> QED
  BY <1>1, GrepCounts, PTL

-----------------------------------------------------------------------------
(***************************************************************************)
(* What is printed.  The reference is the pieces that are due at the lines *)
(* seen, joined; one line more changes it at its end only, because a match *)
(* wants lines that are still in the queue and no earlier ones.  So the    *)
(* invariant says what the queue holds (Waiting), how far back the last    *)
(* printed line is (Since) and how far a match still reaches (Following).  *)
(***************************************************************************)

Entry == [what : {"line", "--", "count", "name", "binary"}, of : Nat]
IsLineEntry(e) == e.what \in {"line", "--"}

(* Of nothing printed, the lines are nothing.                              *)
LEMMA LinesOfEmpty == LinesOf(<<>>) = <<>>
<1>1. [n \in DOMAIN <<>> |-> IF <<>>[n].what \in {"line", "--"} THEN <<<<>>[n]>> ELSE <<>>] = <<>>
  OBVIOUS
<1> QED
  BY <1>1, FlattenEmpty DEF LinesOf

(* What LinesOf() picks are entries.                                       *)
LEMMA LinesOfType ==
  ASSUME NEW s \in Seq(Entry)
  PROVE  LinesOf(s) \in Seq(Entry)
<1> DEFINE f(n) == IF s[n].what \in {"line", "--"} THEN <<s[n]>> ELSE <<>>
           d == [n \in DOMAIN s |-> f(n)]
<1>1. \A n \in DOMAIN s : f(n) \in Seq(Entry)
  OBVIOUS
<1>2. DOMAIN s = 1 .. Len(s) /\ Len(s) \in Nat
  OBVIOUS
<1> HIDE DEF f
<1>3. d \in Seq(Seq(Entry))
  BY <1>1, <1>2
<1>4. FlattenSeq(d) \in Seq(Entry)
  BY <1>3, FlattenType
<1> QED
  BY <1>4 DEF LinesOf, f

(* One thing more is printed: a line or a mark is one more of the lines.   *)
LEMMA LinesOfAppend ==
  ASSUME NEW s \in Seq(Entry), NEW e \in Entry
  PROVE  LinesOf(Append(s, e)) = IF IsLineEntry(e) THEN Append(LinesOf(s), e) ELSE LinesOf(s)
<1> DEFINE f(x) == IF x.what \in {"line", "--"} THEN <<x>> ELSE <<>>
           t == Append(s, e)
           ds == [n \in DOMAIN s |-> f(s[n])]
           dt == [n \in DOMAIN t |-> f(t[n])]
<1>1. \A x \in Entry : f(x) \in Seq(Entry)
  OBVIOUS
<1>2. /\ DOMAIN s = 1 .. Len(s) /\ Len(s) \in Nat /\ DOMAIN t = 1 .. Len(s) + 1
      /\ \A i \in 1 .. Len(s) : t[i] = s[i] /\ s[i] \in Entry
      /\ t[Len(s) + 1] = e
  OBVIOUS
<1>3. f(e) = IF IsLineEntry(e) THEN <<e>> ELSE <<>>
  BY DEF IsLineEntry
<1>4. LinesOf(s) = FlattenSeq(ds) /\ LinesOf(t) = FlattenSeq(dt)
  BY DEF LinesOf
<1> HIDE DEF f, t
<1>5. /\ ds \in Seq(Seq(Entry)) /\ dt \in Seq(Seq(Entry))
      /\ Len(ds) = Len(s) /\ Len(dt) = Len(ds) + 1
      /\ \A i \in 1 .. Len(ds) : dt[i] = ds[i]
      /\ dt[Len(ds) + 1] = f(e)
  <2>0. /\ \A i \in DOMAIN s : ds[i] = f(s[i])
        /\ \A i \in DOMAIN t : dt[i] = f(t[i])
        /\ DOMAIN ds = DOMAIN s /\ DOMAIN dt = DOMAIN t
    OBVIOUS
  <2> HIDE DEF ds, dt
  <2>1. \A i \in 1 .. Len(s) : ds[i] = f(s[i]) /\ dt[i] = f(s[i]) /\ f(s[i]) \in Seq(Entry)
    <3>1. \A i \in 1 .. Len(s) : i \in DOMAIN s /\ i \in DOMAIN t
      BY <1>2
    <3> QED
      BY <1>1, <1>2, <2>0, <3>1, Zenon
  <2>2. Len(s) + 1 \in DOMAIN t /\ dt[Len(s) + 1] = f(e) /\ f(e) \in Seq(Entry)
    <3>1. Len(s) + 1 \in DOMAIN t
      BY <1>2
    <3>2. dt[Len(s) + 1] = f(t[Len(s) + 1])
      BY <2>0, <3>1
    <3> QED
      BY <1>1, <1>2, <3>1, <3>2
  <2>3. DOMAIN ds = 1 .. Len(s) /\ DOMAIN dt = 1 .. Len(s) + 1
    BY <1>2, <2>0
  <2>4. \A i \in 1 .. Len(s) + 1 : dt[i] \in Seq(Entry)
    BY <1>2, <2>1, <2>2
  <2>5. ds \in [1 .. Len(s) -> Seq(Entry)] /\ dt \in [1 .. Len(s) + 1 -> Seq(Entry)]
    <3>1. \A i \in 1 .. Len(s) : ds[i] \in Seq(Entry)
      BY <2>1
    <3>2. ds = [i \in 1 .. Len(s) |-> ds[i]] /\ dt = [i \in 1 .. Len(s) + 1 |-> dt[i]]
      BY <2>3, Zenon DEF ds, dt
    <3> QED
      BY <2>4, <3>1, <3>2
  <2>6. ds \in Seq(Seq(Entry)) /\ dt \in Seq(Seq(Entry)) /\ Len(ds) = Len(s) /\ Len(dt) = Len(s) + 1
    <3>1. \A n \in Nat : \A h \in [1 .. n -> Seq(Entry)] : h \in Seq(Seq(Entry)) /\ Len(h) = n
      OBVIOUS
    <3>2. Len(s) \in Nat /\ Len(s) + 1 \in Nat
      BY <1>2
    <3> QED
      BY <2>5, <3>1, <3>2
  <2> QED
    BY <2>1, <2>2, <2>6
<1> HIDE DEF ds, dt
<1>6. f(e) \in Seq(Entry)
  BY <1>1
<1>7. dt = Append(ds, f(e))
  BY <1>5, <1>6, IsAppended
<1>8. FlattenSeq(dt) = FlattenSeq(ds) \o f(e)
  BY <1>5, <1>6, <1>7, FlattenAppend
<1>9. FlattenSeq(ds) \in Seq(Entry)
  BY <1>5, FlattenType
<1>10. FlattenSeq(ds) \o <<>> = FlattenSeq(ds) /\ FlattenSeq(ds) \o <<e>> = Append(FlattenSeq(ds), e)
  BY <1>9
<1> QED
  BY <1>3, <1>4, <1>8, <1>10 DEF t

(* What is printed at once. *)
LEMMA LinesOfMore ==
  ASSUME NEW s \in Seq(Entry), NEW t \in Seq(Entry),
         \/ \A n \in 1 .. Len(t) : IsLineEntry(t[n])
         \/ \A n \in 1 .. Len(t) : ~IsLineEntry(t[n])
  PROVE  /\ (\A n \in 1 .. Len(t) : IsLineEntry(t[n])) => LinesOf(s \o t) = LinesOf(s) \o t
         /\ (\A n \in 1 .. Len(t) : ~IsLineEntry(t[n])) => LinesOf(s \o t) = LinesOf(s)
<1> DEFINE u(m) == SubSeq(t, 1, m)
           all == \A n \in 1 .. Len(t) : IsLineEntry(t[n])
           T == {m \in 0 .. Len(t) : LinesOf(s \o u(m)) = IF all THEN LinesOf(s) \o u(m) ELSE LinesOf(s)}
<1>1. Len(t) \in Nat /\ LinesOf(s) \in Seq(Entry)
  BY LinesOfType
<1>a. \A x, p \in Seq(Entry), e \in Entry :
        x \o Append(p, e) = Append(x \o p, e) /\ x \o p \in Seq(Entry)
  BY ConcatAppend
<1>2. u(0) = <<>> /\ s \o <<>> = s /\ LinesOf(s) \o <<>> = LinesOf(s)
  BY <1>1
<1>3. 0 \in T
  <2>1. LinesOf(s \o u(0)) = LinesOf(s) /\ LinesOf(s) \o u(0) = LinesOf(s)
    BY <1>2
  <2>2. 0 \in 0 .. Len(t)
    BY <1>1
  <2> QED
    BY <2>1, <2>2
<1>4. \A i \in 0 .. Len(t) : i \in T /\ i < Len(t) => i + 1 \in T
  <2> SUFFICES ASSUME NEW i \in 0 .. Len(t), i \in T, i < Len(t)
               PROVE  LinesOf(s \o u(i + 1)) = IF all THEN LinesOf(s) \o u(i + 1) ELSE LinesOf(s)
    BY <1>1
  <2>1. i + 1 \in 1 .. Len(t) /\ t[i + 1] \in Entry
    BY <1>1
  <2>2. u(i) \in Seq(Entry) /\ u(i + 1) = Append(u(i), t[i + 1])
    BY PrefixMore
  <2>0. LinesOf(s \o u(i)) = IF all THEN LinesOf(s) \o u(i) ELSE LinesOf(s)
    OBVIOUS
  <2> HIDE DEF u, T
  <2>4. s \o u(i + 1) = Append(s \o u(i), t[i + 1]) /\ s \o u(i) \in Seq(Entry)
    <3>1. s \o Append(u(i), t[i + 1]) = Append(s \o u(i), t[i + 1]) /\ s \o u(i) \in Seq(Entry)
      <4> DEFINE p == u(i)  e == t[i + 1]
      <4>1. p \in Seq(Entry) /\ e \in Entry /\ s \in Seq(Entry)
        BY <2>1, <2>2
      <4> HIDE DEF p, e
      <4>2. s \o Append(p, e) = Append(s \o p, e) /\ s \o p \in Seq(Entry)
        BY <1>a, <4>1
      <4> QED
        BY <4>2 DEF p, e
    <3> QED
      BY <3>1, <2>2
  <2>5. LinesOf(s \o u(i + 1)) = IF IsLineEntry(t[i + 1]) THEN Append(LinesOf(s \o u(i)), t[i + 1])
                                 ELSE LinesOf(s \o u(i))
    BY <2>1, <2>4, LinesOfAppend
  <2>6. IsLineEntry(t[i + 1]) <=> all
    BY <2>1
  <2>7. LinesOf(s) \o u(i + 1) = Append(LinesOf(s) \o u(i), t[i + 1])
    <3> DEFINE p == u(i)  e == t[i + 1]  x == LinesOf(s)
    <3>1. p \in Seq(Entry) /\ e \in Entry /\ x \in Seq(Entry) /\ u(i + 1) = Append(p, e)
      BY <1>1, <2>1, <2>2
    <3> HIDE DEF p, e, x
    <3>2. x \o Append(p, e) = Append(x \o p, e)
      BY <1>a, <3>1
    <3>3. x \o u(i + 1) = Append(x \o p, e)
      BY <3>1, <3>2
    <3> QED
      BY <3>3 DEF p, e, x
  <2> QED
    BY <2>0, <2>5, <2>6, <2>7
<1> HIDE DEF T
<1>5. 0 .. Len(t) \subseteq T
  BY <1>1, <1>3, <1>4, RangeInd
<1>6. Len(t) \in T
  BY <1>1, <1>5
<1>7. u(Len(t)) = t
  BY SubSeqFull
<1>8. LinesOf(s \o t) = IF all THEN LinesOf(s) \o t ELSE LinesOf(s)
  BY <1>6, <1>7 DEF T
<1>9. CASE Len(t) = 0
  BY <1>1, <1>2, <1>9
<1>10. CASE Len(t) # 0
  BY <1>1, <1>8, <1>10
<1> QED
  BY <1>9, <1>10

(* Lines, the mark and what is due are entries of the output.              *)
LEMMA EntryFacts ==
  /\ Separator \in Entry /\ IsLineEntry(Separator)
  /\ \A i \in Nat : Line(i) \in Entry /\ IsLineEntry(Line(i))
  /\ \A i \in Nat : Due(i, Wanted) \in Seq(Entry)
<1>a. Separator \in Entry
  BY DEF Separator, Entry
<1>b. IsLineEntry(Separator)
  BY DEF Separator, IsLineEntry
<1>1. Separator \in Entry /\ IsLineEntry(Separator)
  BY <1>a, <1>b
<1>2. ASSUME NEW i \in Nat PROVE Line(i) \in Entry /\ IsLineEntry(Line(i))
  <2>1. Line(i) \in Entry
    BY DEF Line, Entry
  <2>2. IsLineEntry(Line(i))
    BY DEF Line, IsLineEntry
  <2> QED
    BY <2>1, <2>2
<1>3. ASSUME NEW i \in Nat PROVE Due(i, Wanted) \in Seq(Entry)
  <2>1. \A a, b \in Entry : <<>> \in Seq(Entry) /\ <<a>> \in Seq(Entry) /\ <<a, b>> \in Seq(Entry)
    OBVIOUS
  <2> QED
    BY <1>1, <1>2, <2>1 DEF Due
<1> QED
  BY <1>1, <1>2, <1>3

(* The pieces of the reference. *)
Pieces == [i \in 1 .. Len(seen) |-> Due(i, Wanted)]

(* The reference is its pieces joined, one for each line seen.             *)
LEMMA PiecesType ==
  ASSUME seen \in Seq(SeenLine)
  PROVE  /\ Pieces \in Seq(Seq(Entry)) /\ Len(Pieces) = Len(seen)
         /\ \A i \in 1 .. Len(seen) : Pieces[i] = Due(i, Wanted)
         /\ Reference = FlattenSeq(Pieces) /\ Reference \in Seq(Entry)
<1> DEFINE n == Len(seen)
<1>1. n \in Nat /\ DOMAIN seen = 1 .. n
  OBVIOUS
<1>2. \A i \in 1 .. n : Due(i, Wanted) \in Seq(Entry)
  BY <1>1, EntryFacts
<1>3. Pieces \in [1 .. n -> Seq(Entry)]
  BY <1>2 DEF Pieces
<1>4. \A i \in 1 .. n : Pieces[i] = Due(i, Wanted)
  BY DEF Pieces
<1>5. Reference = FlattenSeq(Pieces)
  BY <1>1 DEF Reference, Pieces
<1> HIDE DEF n
<1>6. \A m \in Nat : \A h \in [1 .. m -> Seq(Entry)] : h \in Seq(Seq(Entry)) /\ Len(h) = m
  OBVIOUS
<1>7. Pieces \in Seq(Seq(Entry)) /\ Len(Pieces) = n
  BY <1>1, <1>3, <1>6
<1>8. FlattenSeq(Pieces) \in Seq(Entry)
  BY <1>7, FlattenType
<1> QED
  BY <1>4, <1>5, <1>7, <1>8 DEF n

(* One line more has been seen. *)
OneMore(e) ==
  /\ seen \in Seq(SeenLine) /\ e \in SeenLine
  /\ seen' = Append(seen, e)
  /\ opt' = opt /\ opt.A \in Nat /\ opt.B \in Nat

(* The lines seen before stay where they are.                              *)
LEMMA MoreFacts ==
  ASSUME NEW e, OneMore(e)
  PROVE  LET n == Len(seen)
         IN  /\ n \in Nat /\ DOMAIN seen = 1 .. n
             /\ seen' \in Seq(SeenLine) /\ Len(seen') = n + 1 /\ DOMAIN seen' = 1 .. n + 1
             /\ \A i \in 1 .. n : seen'[i] = seen[i] /\ seen[i] \in SeenLine
             /\ seen'[n + 1] = e /\ e \in SeenLine
             /\ Wanted \subseteq 1 .. n /\ Wanted' \subseteq 1 .. n + 1
<1> DEFINE n == Len(seen)
<1>1. seen \in Seq(SeenLine) /\ e \in SeenLine /\ seen' = Append(seen, e)
  BY DEF OneMore
<1>2. n \in Nat /\ DOMAIN seen = 1 .. n /\ \A i \in 1 .. n : seen[i] \in SeenLine
  BY <1>1
<1>3. seen' \in Seq(SeenLine) /\ Len(seen') = n + 1 /\ DOMAIN seen' = 1 .. n + 1
  BY <1>1
<1>4. /\ \A i \in 1 .. n : seen'[i] = seen[i]
      /\ seen'[n + 1] = e
  BY <1>1
<1>5. Wanted \subseteq 1 .. n /\ Wanted' \subseteq 1 .. n + 1
  BY <1>2, <1>3 DEF Wanted
<1> QED
  BY <1>1, <1>2, <1>3, <1>4, <1>5

(* Of the lines seen, one more is selected if the new one is.              *)
LEMMA SelectedMore ==
  ASSUME NEW e, OneMore(e)
  PROVE  \A j \in 1 .. Len(seen) + 1 :
           j \in Selected' <=> \/ j \in Selected
                               \/ j = Len(seen) + 1 /\ e.hit /\ ~e.hidden
<1> DEFINE n == Len(seen)
<1>1. /\ n \in Nat /\ DOMAIN seen = 1 .. n /\ DOMAIN seen' = 1 .. n + 1
      /\ \A i \in 1 .. n : seen'[i] = seen[i]
      /\ seen'[n + 1] = e
  BY MoreFacts
<1> HIDE DEF n
<1>2. /\ \A j : j \in Selected <=> j \in 1 .. n /\ seen[j].hit /\ ~seen[j].hidden
      /\ \A j : j \in Selected' <=> j \in 1 .. n + 1 /\ seen'[j].hit /\ ~seen'[j].hidden
  BY <1>1 DEF Selected
<1> SUFFICES ASSUME NEW j \in 1 .. n + 1
             PROVE  j \in Selected' <=> j \in Selected \/ (j = n + 1 /\ e.hit /\ ~e.hidden)
  BY DEF n
<1>3. CASE j \in 1 .. n
  BY <1>1, <1>2, <1>3
<1>4. CASE j = n + 1
  BY <1>1, <1>2, <1>4
<1> QED
  BY <1>1, <1>3, <1>4

(* A match makes the lines before it wanted; another line is wanted itself *)
(* when a match is near before it, and changes nothing else.               *)
LEMMA WantedMore ==
  ASSUME NEW e, OneMore(e), Prints
  PROVE  LET n == Len(seen)
         IN  /\ e.hit /\ ~e.hidden =>
                  \A i \in 1 .. n + 1 : i \in Wanted' <=>
                    i \in Wanted \/ (seen'[i].file = e.file /\ n + 1 <= i + opt.B)
             /\ ~(e.hit /\ ~e.hidden) =>
                  /\ \A i \in 1 .. n : i \in Wanted' <=> i \in Wanted
                  /\ n + 1 \in Wanted' <=>
                       \E j \in Selected : seen[j].file = e.file /\ n + 1 <= j + opt.A
<1> DEFINE n == Len(seen)
<1>1. /\ n \in Nat /\ DOMAIN seen = 1 .. n /\ DOMAIN seen' = 1 .. n + 1
      /\ \A i \in 1 .. n : seen'[i] = seen[i]
      /\ seen'[n + 1] = e
      /\ opt.A \in Nat /\ opt.B \in Nat
  BY MoreFacts DEF OneMore
<1>2. Prints' /\ opt' = opt
  BY DEF Prints, OneMore
<1> DEFINE Near(i, j) == seen'[j].file = seen'[i].file /\ j <= i + opt.B /\ i <= j + opt.A
<1>3. /\ \A j \in Selected : j \in 1 .. n
      /\ \A j \in Selected' : j \in 1 .. n + 1
      /\ \A j \in 1 .. n + 1 : j \in Selected' <=>
            j \in Selected \/ (j = n + 1 /\ e.hit /\ ~e.hidden)
  BY <1>1, SelectedMore DEF Selected
<1>4. \A i \in 1 .. n + 1 : i \in Wanted' <=> \E j \in Selected' : Near(i, j)
  BY <1>1, <1>2, <1>3 DEF Wanted
<1>5. \A i \in 1 .. n : i \in Wanted <=> \E j \in Selected : Near(i, j)
  BY <1>1, <1>2, <1>3, SMTT(60) DEF Wanted
<1>6. n + 1 \notin Wanted
  BY <1>1 DEF Wanted
<1>7. \A i \in 1 .. n + 1 : Near(i, n + 1) <=> seen'[i].file = e.file /\ n + 1 <= i + opt.B
  BY <1>1
<1>8. \A j \in 1 .. n : Near(n + 1, j) <=> seen[j].file = e.file /\ n + 1 <= j + opt.A
  BY <1>1
<1>9. Near(n + 1, n + 1)
  BY <1>1
<1> HIDE DEF n, Near
<1>10. ASSUME e.hit, ~e.hidden, NEW i \in 1 .. n + 1
       PROVE  i \in Wanted' <=> i \in Wanted \/ Near(i, n + 1)
  <2>1. n + 1 \in Selected' /\ n + 1 \in 1 .. n + 1
    BY <1>1, <1>3, <1>10
  <2>4. \A j \in 1 .. n : j \in 1 .. n + 1
    BY <1>1
  <2>2. CASE i \in 1 .. n
    <3>1. i \in Wanted' <=> \E j \in Selected' : Near(i, j)
      BY <1>4
    <3>2. \A j : j \in Selected' <=> j \in Selected \/ j = n + 1
      BY <1>3, <1>10, <2>1, <2>4
    <3>3. i \in Wanted <=> \E j \in Selected : Near(i, j)
      BY <1>5, <2>2
    <3> QED
      BY <3>1, <3>2, <3>3, Zenon
  <2>3. CASE i = n + 1
    BY <1>4, <1>9, <2>1, <2>3
  <2> QED
    BY <1>1, <2>2, <2>3
<1>11. ASSUME ~(e.hit /\ ~e.hidden)
       PROVE  /\ \A i \in 1 .. n : i \in Wanted' <=> i \in Wanted
              /\ n + 1 \in Wanted' <=> \E j \in Selected : Near(n + 1, j)
  <2>1. \A j : j \in Selected' <=> j \in Selected
    BY <1>1, <1>3, <1>11
  <2>2. \A i \in 1 .. n : i \in 1 .. n + 1
    BY <1>1
  <2>3. n + 1 \in 1 .. n + 1
    BY <1>1
  <2> QED
    BY <1>4, <1>5, <2>1, <2>2, <2>3
<1> QED
  BY <1>3, <1>7, <1>8, <1>10, <1>11 DEF n

PiecesFacts ==
  seen \in Seq(SeenLine) =>
    /\ Pieces \in Seq(Seq(Entry)) /\ Len(Pieces) = Len(seen)
    /\ \A i \in 1 .. Len(seen) : Pieces[i] = Due(i, Wanted)
    /\ Reference = FlattenSeq(Pieces) /\ Reference \in Seq(Entry)

(* The same, to be used of the next state too.                             *)
LEMMA PiecesAre == PiecesFacts
BY PiecesType DEF PiecesFacts

(* The pieces before and after one line more.                              *)
LEMMA PiecesMore ==
  ASSUME NEW e, OneMore(e)
  PROVE  LET n == Len(seen)
         IN  /\ Pieces \in Seq(Seq(Entry)) /\ Pieces' \in Seq(Seq(Entry))
             /\ Len(Pieces) = n /\ Len(Pieces') = n + 1
             /\ \A i \in 1 .. n : Pieces[i] = Due(i, Wanted)
             /\ \A i \in 1 .. n + 1 : Pieces'[i] = Due(i, Wanted)'
             /\ Reference = FlattenSeq(Pieces) /\ Reference' = FlattenSeq(Pieces')
             /\ Reference \in Seq(Entry)
<1> DEFINE n == Len(seen)
<1>1. PiecesFacts /\ PiecesFacts'
  BY PiecesAre, PTL
<1>2. n \in Nat /\ seen \in Seq(SeenLine) /\ seen' \in Seq(SeenLine) /\ Len(seen') = n + 1
  BY MoreFacts DEF OneMore
<1>3. /\ Pieces' \in Seq(Seq(Entry)) /\ Len(Pieces') = n + 1
      /\ \A i \in 1 .. n + 1 : Pieces'[i] = Due(i, Wanted)'
      /\ Reference' = FlattenSeq(Pieces')
  BY <1>1, <1>2 DEF PiecesFacts
<1>4. /\ Pieces \in Seq(Seq(Entry)) /\ Len(Pieces) = n
      /\ \A i \in 1 .. n : Pieces[i] = Due(i, Wanted)
      /\ Reference = FlattenSeq(Pieces) /\ Reference \in Seq(Entry)
  BY <1>1, <1>2 DEF PiecesFacts
<1> QED
  BY <1>3, <1>4

(* When there is a mark in front of a line. *)
LEMMA GapMore ==
  ASSUME NEW e, OneMore(e)
  PROVE  LET n == Len(seen)
         IN  /\ \A i \in 1 .. n : Gap(i, Wanted) <=>
                  /\ opt.A > 0 \/ opt.B > 0
                  /\ \E j \in 1 .. n : j \in Wanted /\ j < i
                  /\ ~(i - 1 \in Wanted /\ seen[i - 1].file = seen[i].file)
             /\ \A i \in 1 .. n + 1 : Gap(i, Wanted)' <=>
                  /\ opt.A > 0 \/ opt.B > 0
                  /\ \E j \in 1 .. n : j \in Wanted' /\ j < i
                  /\ ~(i - 1 \in Wanted' /\ seen'[i - 1].file = seen'[i].file)
<1> DEFINE n == Len(seen)
<1>1. /\ n \in Nat /\ Wanted \subseteq 1 .. n /\ Wanted' \subseteq 1 .. n + 1 /\ opt' = opt
  BY MoreFacts DEF OneMore
<1> HIDE DEF n
<1>2. ASSUME NEW i \in 1 .. n
      PROVE  Gap(i, Wanted) <=>
                  /\ opt.A > 0 \/ opt.B > 0
                  /\ \E j \in 1 .. n : j \in Wanted /\ j < i
                  /\ ~(i - 1 \in Wanted /\ seen[i - 1].file = seen[i].file)
  <2>1. (\E j \in Wanted : j < i) <=> \E j \in 1 .. n : j \in Wanted /\ j < i
    BY <1>1
  <2>2. \A j \in Wanted : i = j + 1 <=> j = i - 1
    BY <1>1
  <2>3. (\E j \in Wanted : Neighbours(j, i)) <=> i - 1 \in Wanted /\ seen[i - 1].file = seen[i].file
    BY <2>2 DEF Neighbours
  <2> QED
    BY <2>1, <2>3 DEF Gap
<1>3. ASSUME NEW i \in 1 .. n + 1
      PROVE  Gap(i, Wanted)' <=>
                  /\ opt.A > 0 \/ opt.B > 0
                  /\ \E j \in 1 .. n : j \in Wanted' /\ j < i
                  /\ ~(i - 1 \in Wanted' /\ seen'[i - 1].file = seen'[i].file)
  <2>1. (\E j \in Wanted' : j < i) <=> \E j \in 1 .. n : j \in Wanted' /\ j < i
    <3>1. \A j \in Wanted' : j < i => j \in 1 .. n
      BY <1>1, <1>3
    <3> QED
      BY <3>1
  <2>2. \A j \in Wanted' : i = j + 1 <=> j = i - 1
    BY <1>1
  <2>3. (\E j \in Wanted' : Neighbours(j, i)') <=> i - 1 \in Wanted' /\ seen'[i - 1].file = seen'[i].file
    BY <2>2 DEF Neighbours
  <2> QED
    BY <1>1, <2>1, <2>3 DEF Gap
<1> QED
  BY <1>2, <1>3 DEF n

(* What is due up to a line depends on the lines up to it. *)
LEMMA DueKept ==
  ASSUME NEW e, OneMore(e), NEW a \in 0 .. Len(seen),
         \A i \in 1 .. a : i \in Wanted' <=> i \in Wanted
  PROVE  \A i \in 1 .. a : Due(i, Wanted)' = Due(i, Wanted)
<1> DEFINE n == Len(seen)
<1>1. /\ n \in Nat /\ Wanted \subseteq 1 .. n /\ Wanted' \subseteq 1 .. n + 1
      /\ \A i \in 1 .. n : seen'[i] = seen[i]
  BY MoreFacts
<1>2. /\ \A i \in 1 .. n : Gap(i, Wanted) <=>
                  /\ opt.A > 0 \/ opt.B > 0
                  /\ \E j \in 1 .. n : j \in Wanted /\ j < i
                  /\ ~(i - 1 \in Wanted /\ seen[i - 1].file = seen[i].file)
      /\ \A i \in 1 .. n + 1 : Gap(i, Wanted)' <=>
                  /\ opt.A > 0 \/ opt.B > 0
                  /\ \E j \in 1 .. n : j \in Wanted' /\ j < i
                  /\ ~(i - 1 \in Wanted' /\ seen'[i - 1].file = seen'[i].file)
  BY GapMore
<1>a. a \in 0 .. n
  OBVIOUS
<1> HIDE DEF n
<1> SUFFICES ASSUME NEW i \in 1 .. a PROVE Due(i, Wanted)' = Due(i, Wanted)
  OBVIOUS
<1>3. i \in 1 .. n /\ i \in 1 .. n + 1 /\ i - 1 <= a
  BY <1>1, <1>a
<1>4. \A j \in 1 .. n : j < i => (j \in Wanted' <=> j \in Wanted)
  BY <1>1, <1>a
<1>5. i - 1 \in Wanted' <=> i - 1 \in Wanted
  <2>1. CASE i = 1
    BY <1>1, <2>1
  <2>2. CASE i # 1
    <3>1. i - 1 \in 1 .. a
      BY <2>2
    <3> QED
      BY <3>1
  <2> QED
    BY <2>1, <2>2
<1>6. seen'[i] = seen[i] /\ (i - 1 \in Wanted => seen'[i - 1] = seen[i - 1])
  BY <1>1, <1>3
<1>7. Gap(i, Wanted)' <=> Gap(i, Wanted)
  BY <1>2, <1>3, <1>4, <1>5, <1>6
<1>8. i \in Wanted' <=> i \in Wanted
  OBVIOUS
<1> QED
  BY <1>7, <1>8 DEF Due, Line, Separator

(* A line that is not wanted changes nothing. *)
LEMMA ReferenceSame ==
  ASSUME NEW e, OneMore(e),
         \A i \in 1 .. Len(seen) : i \in Wanted' <=> i \in Wanted,
         Len(seen) + 1 \notin Wanted'
  PROVE  Reference' = Reference
<1> DEFINE n == Len(seen)  p == Pieces  q == Pieces'
<1>1. /\ p \in Seq(Seq(Entry)) /\ q \in Seq(Seq(Entry)) /\ Len(p) = n /\ Len(q) = n + 1
      /\ \A i \in 1 .. n : p[i] = Due(i, Wanted)
      /\ \A i \in 1 .. n + 1 : q[i] = Due(i, Wanted)'
      /\ Reference = FlattenSeq(p) /\ Reference' = FlattenSeq(q)
      /\ Reference \in Seq(Entry)
  BY PiecesMore
<1>2. n \in Nat
  BY MoreFacts
<1>3. \A i \in 1 .. n : Due(i, Wanted)' = Due(i, Wanted)
  <2>1. n \in 0 .. Len(seen)
    BY <1>2
  <2> QED
    BY <2>1, DueKept
<1>4. \A i \in 1 .. n + 1 : i \notin Wanted' => q[i] = <<>>
  <2>1. \A i \in 1 .. n + 1 : i \notin Wanted' => Due(i, Wanted)' = <<>>
    BY DEF Due
  <2> QED
    BY <1>1, <2>1
<1> HIDE DEF n, p, q
<1>5. n + 1 \in 1 .. n + 1 /\ \A i \in 1 .. n : i \in 1 .. n + 1
  BY <1>2
<1>6. q[n + 1] = <<>> /\ \A i \in 1 .. n : q[i] = p[i]
  <2>1. \A i \in 1 .. n : q[i] = p[i]
    BY <1>1, <1>3, <1>5
  <2>2. n + 1 \notin Wanted'
    BY DEF n
  <2> QED
    BY <1>4, <1>5, <2>1, <2>2
<1>7. <<>> \in Seq(Entry) /\ Reference \o <<>> = Reference
  BY <1>1
<1>8. q = Append(p, <<>>)
  BY <1>1, <1>6, <1>7, IsAppended
<1> QED
  BY <1>1, <1>7, <1>8, FlattenAppend

(* The lines behind place a and the new one are wanted now, and were not   *)
(* before: whether a mark is due in front of them, and what is due.        *)
GapAfter(a, e) ==
  /\ opt.A > 0 \/ opt.B > 0
  /\ Wanted # {}
  /\ ~(a \in Wanted /\ seen[a].file = e.file)

DueNow(a, e) ==
  (IF GapAfter(a, e) THEN <<Separator>> ELSE <<>>)
  \o [m \in 1 .. (Len(seen) + 1) - a |-> Line(a + m)]

(* Then the reference grows by them, and the mark if there is a gap.       *)
LEMMA ReferenceMore ==
  ASSUME NEW e, OneMore(e), NEW a \in 0 .. Len(seen),
         \A i \in 1 .. a : i \in Wanted' <=> i \in Wanted,
         \A i \in a + 1 .. Len(seen) : i \notin Wanted,
         \A i \in a + 1 .. Len(seen) + 1 : i \in Wanted' /\ seen'[i].file = e.file
  PROVE  Reference' = Reference \o DueNow(a, e)
<1> DEFINE n == Len(seen)  p == Pieces  q == Pieces'
           u == [m \in 1 .. (n + 1) - a |-> Line(a + m)]
           g == IF GapAfter(a, e) THEN <<Separator>> ELSE <<>>
<1>1. /\ p \in Seq(Seq(Entry)) /\ q \in Seq(Seq(Entry)) /\ Len(p) = n /\ Len(q) = n + 1
      /\ \A i \in 1 .. n : p[i] = Due(i, Wanted)
      /\ \A i \in 1 .. n + 1 : q[i] = Due(i, Wanted)'
      /\ Reference = FlattenSeq(p) /\ Reference' = FlattenSeq(q)
      /\ Reference \in Seq(Entry)
  BY PiecesMore
<1>2. /\ n \in Nat /\ a \in Nat /\ a <= n /\ Wanted \subseteq 1 .. n
      /\ \A i \in 1 .. n : seen'[i] = seen[i]
  BY MoreFacts
<1>3. \A i \in 1 .. a : Due(i, Wanted)' = Due(i, Wanted)
  BY DueKept
<1>4. \A i \in 1 .. n + 1 : Gap(i, Wanted)' <=>
                  /\ opt.A > 0 \/ opt.B > 0
                  /\ \E j \in 1 .. n : j \in Wanted' /\ j < i
                  /\ ~(i - 1 \in Wanted' /\ seen'[i - 1].file = seen'[i].file)
  BY GapMore
<1>5. /\ \A i \in 1 .. a : i \in Wanted' <=> i \in Wanted
      /\ \A i \in a + 1 .. n : i \notin Wanted
      /\ \A i \in a + 1 .. n + 1 : i \in Wanted' /\ seen'[i].file = e.file
  OBVIOUS
<1> HIDE DEF n, p, q, u, g
<1>6. \A i \in a + 2 .. n + 1 : Due(i, Wanted)' = <<Line(i)>>
  <2> SUFFICES ASSUME NEW i \in a + 2 .. n + 1 PROVE Due(i, Wanted)' = <<Line(i)>>
    OBVIOUS
  <2>1. i \in 1 .. n + 1 /\ i \in a + 1 .. n + 1 /\ i - 1 \in a + 1 .. n + 1
    BY <1>2
  <2>2. i \in Wanted' /\ seen'[i].file = e.file /\ i - 1 \in Wanted' /\ seen'[i - 1].file = e.file
    BY <1>5, <2>1
  <2>3. ~Gap(i, Wanted)'
    BY <1>4, <2>1, <2>2
  <2> QED
    BY <2>2, <2>3 DEF Due, Line
<1>7. \A i \in 1 .. n + 1 : i = a + 1 => Due(i, Wanted)' = g \o <<Line(i)>>
  <2> SUFFICES ASSUME NEW i \in 1 .. n + 1, i = a + 1 PROVE Due(i, Wanted)' = g \o <<Line(i)>>
    OBVIOUS
  <2>1. i \in a + 1 .. n + 1 /\ i - 1 = a
    BY <1>2
  <2>2. i \in Wanted' /\ seen'[i].file = e.file
    BY <1>5, <2>1
  <2>3. (\E j \in 1 .. n : j \in Wanted' /\ j < i) <=> Wanted # {}
    <3>1. \A j \in 1 .. n : j < i <=> j \in 1 .. a
      BY <1>2
    <3>2. \A j \in Wanted : j \in 1 .. n /\ j \notin a + 1 .. n
      BY <1>2, <1>5
    <3>3. \A j \in Wanted : j \in 1 .. a
      BY <1>2, <3>2
    <3>4. \A j \in 1 .. a : j \in 1 .. n
      BY <1>2
    <3> QED
      BY <1>5, <3>1, <3>3, <3>4
  <2>4. a \in Wanted' /\ seen'[a].file = e.file <=> a \in Wanted /\ seen[a].file = e.file
    <3>1. CASE a = 0
      <4>1. 0 \notin Wanted /\ 0 \notin Wanted'
        BY <1>2, MoreFacts
      <4> QED
        BY <3>1, <4>1
    <3>2. CASE a # 0
      <4>1. a \in 1 .. a /\ a \in 1 .. n
        BY <1>2, <3>2
      <4> QED
        BY <1>2, <1>5, <4>1
    <3> QED
      BY <3>1, <3>2
  <2>5. Gap(i, Wanted)' <=> GapAfter(a, e)
    BY <1>4, <2>1, <2>2, <2>3, <2>4 DEF GapAfter
  <2>6. Separator' = Separator /\ Line(i)' = Line(i)
    BY DEF Separator, Line
  <2>7. Due(i, Wanted)' = IF GapAfter(a, e) THEN <<Separator, Line(i)>> ELSE <<Line(i)>>
    BY <2>2, <2>5, <2>6 DEF Due
  <2>8. Separator \in Entry /\ Line(i) \in Entry
    BY EntryFacts
  <2>9. \A x, y \in Entry : <<x>> \o <<y>> = <<x, y>> /\ <<>> \o <<y>> = <<y>>
    <3>1. \A x, y \in Entry : <<x>> \in Seq(Entry) /\ <<x, y>> = Append(<<x>>, y)
      OBVIOUS
    <3>2. \A s \in Seq(Entry), y \in Entry : s \o <<y>> = Append(s, y)
      OBVIOUS
    <3>3. \A y \in Entry : <<>> \o <<y>> = <<y>>
      OBVIOUS
    <3>4. \A x, y \in Entry : <<x>> \o <<y>> = <<x, y>>
      BY <3>1, <3>2
    <3> QED
      BY <3>3, <3>4
  <2>10. <<Separator>> \o <<Line(i)>> = <<Separator, Line(i)>> /\ <<>> \o <<Line(i)>> = <<Line(i)>>
    BY <2>8, <2>9, Zenon
  <2> QED
    BY <2>7, <2>10 DEF g
<1>8. /\ u \in Seq(Entry) /\ Len(u) = (n + 1) - a
      /\ \A i \in 1 .. (n + 1) - a : u[i] = Line(a + i)
  <2>1. \A i \in 1 .. (n + 1) - a : Line(a + i) \in Entry
    BY <1>2, EntryFacts
  <2>2. (n + 1) - a \in Nat
    BY <1>2
  <2>3. u \in [1 .. (n + 1) - a -> Entry]
    BY <2>1 DEF u
  <2>4. \A m \in Nat : \A h \in [1 .. m -> Entry] : h \in Seq(Entry) /\ Len(h) = m
    OBVIOUS
  <2> QED
    BY <2>2, <2>3, <2>4 DEF u
<1>9. g \in Seq(Entry)
  <2>1. \A x \in Entry : <<x>> \in Seq(Entry)
    OBVIOUS
  <2>2. <<>> \in Seq(Entry)
    OBVIOUS
  <2> QED
    BY <2>1, <2>2, EntryFacts DEF g
<1>10. Continues(q, a, g, u)
  <2>1. a < Len(q) /\ Len(u) = Len(q) - a
    BY <1>1, <1>2, <1>8
  <2>2. u[1] = Line(a + 1) /\ \A i \in a + 2 .. n + 1 : u[i - a] = Line(i)
    <3>1. 1 \in 1 .. (n + 1) - a
      BY <1>2
    <3>2. \A i \in a + 2 .. n + 1 : i - a \in 1 .. (n + 1) - a /\ a + (i - a) = i
      BY <1>2
    <3> QED
      BY <1>8, <3>1, <3>2
  <2>3. q[a + 1] = g \o <<Line(a + 1)>>
    <3>1. \A i \in 1 .. n + 1 : i = a + 1 => q[i] = g \o <<Line(i)>>
      BY <1>1, <1>7
    <3>2. a + 1 \in 1 .. n + 1
      BY <1>2
    <3> QED
      BY <3>1, <3>2
  <2>4. \A i \in a + 2 .. n + 1 : q[i] = <<Line(i)>>
    <3>1. \A i \in a + 2 .. n + 1 : i \in 1 .. n + 1
      BY <1>2
    <3> QED
      BY <1>1, <1>6, <3>1
  <2> QED
    BY <1>1, <2>1, <2>2, <2>3, <2>4 DEF Continues
<1>11. FlattenSeq(q) = FlattenSeq(SubSeq(q, 1, a)) \o (g \o u)
  <2>1. q \in Seq(Seq(Entry)) /\ a \in Nat /\ g \in Seq(Entry) /\ u \in Seq(Entry)
    BY <1>1, <1>2, <1>8, <1>9
  <2>2. \A d \in Seq(Seq(Entry)), b \in Nat, x, y \in Seq(Entry) :
          Continues(d, b, x, y) => FlattenSeq(d) = FlattenSeq(SubSeq(d, 1, b)) \o (x \o y)
    BY FlattenRun
  <2> QED
    BY <1>10, <2>1, <2>2, ZenonT(60)
<1>12. FlattenSeq(p) = FlattenSeq(SubSeq(p, 1, a))
  <2>1. \A i \in a + 1 .. Len(p) : p[i] = <<>>
    <3>1. \A i \in a + 1 .. n : i \in 1 .. n
      BY <1>2
    <3> QED
      BY <1>1, <1>5, <3>1 DEF Due
  <2> QED
    BY <1>1, <1>2, <2>1, FlattenBlank
<1>13. SubSeq(q, 1, a) = SubSeq(p, 1, a)
  <2>1. \A i \in 1 .. a : i \in 1 .. n /\ i \in 1 .. n + 1
    BY <1>2
  <2>2. \A i \in 1 .. a : q[i] = p[i]
    BY <1>1, <1>3, <2>1
  <2>3. /\ SubSeq(q, 1, a) \in Seq(Seq(Entry)) /\ Len(SubSeq(q, 1, a)) = a
        /\ \A i \in 1 .. a : SubSeq(q, 1, a)[i] = q[i]
    BY <1>1, <1>2, SubSeqProperties
  <2>4. /\ SubSeq(p, 1, a) \in Seq(Seq(Entry)) /\ Len(SubSeq(p, 1, a)) = a
        /\ \A i \in 1 .. a : SubSeq(p, 1, a)[i] = p[i]
    BY <1>1, <1>2, SubSeqProperties
  <2> QED
    BY <2>2, <2>3, <2>4, SeqEqual
<1> QED
  BY <1>1, <1>11, <1>12, <1>13 DEF DueNow, u, g, n

ThisFile == {i \in 1 .. Len(seen) : seen[i].file = k}
AsBinary == binary /\ opt.bin = "BIN"

LinesType ==
  /\ queue \in Seq(Nat) /\ tail \in Nat /\ since_printed \in Nat
  /\ first \in BOOLEAN /\ first_global \in BOOLEAN
  /\ out \in Seq(Entry)

ByFile ==
  /\ \A i \in 1 .. Len(seen) : seen[i].file < k \/ (InFile /\ seen[i].file = k)
  /\ InFile => \A i \in ThisFile : seen[i].hidden <=> seen[i].hit /\ AsBinary
  /\ InFile /\ binary /\ opt.bin = "SKIP" => ThisFile = {}

Shown ==
  /\ LinesOf(out) = Reference
  /\ Prints => (first_global <=> Wanted = {})

Following ==
  InFile /\ Prints =>
    \A d \in Nat \ {0} :
      d <= tail <=> \E j \in Selected : j \in ThisFile /\ Len(seen) + d <= j + opt.A

Waiting ==
  LET n == Len(seen)
      q == Len(queue)
  IN  /\ opt.B = 0 \/ ~InFile \/ ThisFile = {} => queue = <<>>
      /\ InFile /\ Prints /\ ~AsBinary =>
           /\ q <= opt.B /\ q <= n
           /\ \A i \in 1 .. q : queue[i] = (n - q) + i
           /\ \A i \in (n - q) + 1 .. n : i \in ThisFile /\ i \notin Wanted
           /\ \A i \in ThisFile : i > n - opt.B => i > n - q \/ i \in Wanted

Since ==
  LET n == Len(seen)
      s == since_printed
  IN  InFile /\ Prints /\ ~AsBinary =>
        /\ first => tail = 0 /\ \A i \in ThisFile : i \notin Wanted
        /\ ~first =>
             /\ s < n /\ n - s \in ThisFile /\ n - s \in Wanted
             /\ \A i \in (n - s) + 1 .. n : i \notin Wanted
             /\ Len(queue) = IF s <= opt.B THEN s ELSE opt.B
             /\ tail > 0 => s = 0

LinesInv == LinesType /\ ByFile /\ Shown /\ Following /\ Waiting /\ Since

(* procline() is given a line of the file that is open. *)
Given(e) ==
  /\ OneMore(e) /\ e.file = k /\ k \in Nat /\ k' = k /\ binary' = binary
  /\ InFile /\ InFile'
  /\ e.hidden <=> e.hit /\ AsBinary
  /\ ~(binary /\ opt.bin = "SKIP")

(* What a line more means for the file it is of.                           *)
LEMMA GivenFacts ==
  ASSUME NEW e, Given(e)
  PROVE  LET n == Len(seen)
         IN  /\ n \in Nat /\ Len(seen') = n + 1
             /\ opt' = opt /\ opt.A \in Nat /\ opt.B \in Nat
             /\ Prints' <=> Prints
             /\ AsBinary' <=> AsBinary
             /\ ThisFile \subseteq 1 .. n
             /\ \A i : i \in ThisFile' <=> i \in ThisFile \/ i = n + 1
             /\ Wanted \subseteq 1 .. n /\ Wanted' \subseteq 1 .. n + 1
             /\ n + 1 \notin Wanted /\ n + 1 \notin ThisFile
             /\ \A i \in 1 .. n : seen'[i] = seen[i]
             /\ seen'[n + 1] = e
<1> DEFINE n == Len(seen)
<1>1. OneMore(e)
  BY DEF Given
<1>2. /\ n \in Nat /\ Len(seen') = n + 1
      /\ \A i \in 1 .. n : seen'[i] = seen[i]
      /\ seen'[n + 1] = e
      /\ Wanted \subseteq 1 .. n /\ Wanted' \subseteq 1 .. n + 1
  BY <1>1, MoreFacts
<1>3. opt' = opt /\ opt.A \in Nat /\ opt.B \in Nat
  BY <1>1 DEF OneMore
<1>4. (Prints' <=> Prints) /\ (AsBinary' <=> AsBinary)
  BY <1>3 DEF Given, Prints, AsBinary
<1>5. ThisFile \subseteq 1 .. n
  BY DEF ThisFile
<1>6. n + 1 \notin Wanted /\ n + 1 \notin ThisFile
  BY <1>2, <1>5
<1>7. /\ \A i : i \in ThisFile <=> i \in 1 .. n /\ seen[i].file = k
      /\ \A i : i \in ThisFile' <=> i \in 1 .. n + 1 /\ seen'[i].file = k
  BY <1>2 DEF ThisFile, Given
<1>8. e.file = k
  BY DEF Given
<1> HIDE DEF n
<1>9. ASSUME NEW i PROVE i \in ThisFile' <=> i \in ThisFile \/ i = n + 1
  <2>1. CASE i \in 1 .. n
    BY <1>2, <1>7, <2>1
  <2>2. CASE i = n + 1
    BY <1>2, <1>7, <1>8, <2>2
  <2>3. CASE i \notin 1 .. n + 1
    BY <1>2, <1>7, <2>3
  <2> QED
    BY <1>2, <2>1, <2>2, <2>3
<1> QED
  BY <1>2, <1>3, <1>4, <1>5, <1>6, <1>9 DEF n

(* The lines of a file come while it is open, hidden if it is binary.      *)
LEMMA ByFileMore ==
  ASSUME NEW e, Given(e), ByFile
  PROVE  ByFile'
<1> DEFINE n == Len(seen)
<1>1. /\ n \in Nat /\ Len(seen') = n + 1
      /\ AsBinary' <=> AsBinary
      /\ ThisFile \subseteq 1 .. n
      /\ \A i : i \in ThisFile' <=> i \in ThisFile \/ i = n + 1
      /\ \A i \in 1 .. n : seen'[i] = seen[i]
      /\ seen'[n + 1] = e
      /\ opt' = opt
  BY GivenFacts
<1>2. /\ e.file = k /\ k' = k /\ binary' = binary /\ InFile /\ InFile'
      /\ e.hidden <=> e.hit /\ AsBinary
      /\ ~(binary /\ opt.bin = "SKIP")
  BY DEF Given
<1>3. /\ \A i \in 1 .. n : seen[i].file < k \/ seen[i].file = k
      /\ \A i \in ThisFile : seen[i].hidden <=> seen[i].hit /\ AsBinary
  BY <1>2 DEF ByFile
<1> HIDE DEF n
<1>4. \A i \in 1 .. n + 1 : seen'[i].file < k' \/ (InFile' /\ seen'[i].file = k')
  <2> SUFFICES ASSUME NEW i \in 1 .. n + 1
               PROVE  seen'[i].file < k \/ seen'[i].file = k
    BY <1>2
  <2>1. CASE i \in 1 .. n
    BY <1>1, <1>3, <2>1
  <2>2. CASE i = n + 1
    BY <1>1, <1>2, <2>2
  <2> QED
    BY <1>1, <2>1, <2>2
<1>5. \A i \in ThisFile' : seen'[i].hidden <=> seen'[i].hit /\ AsBinary'
  <2> SUFFICES ASSUME NEW i, i \in ThisFile'
               PROVE  seen'[i].hidden <=> seen'[i].hit /\ AsBinary'
    OBVIOUS
  <2>1. CASE i \in ThisFile
    <3>1. i \in 1 .. n /\ seen'[i] = seen[i]
      BY <1>1, <2>1
    <3> QED
      BY <1>1, <1>3, <2>1, <3>1
  <2>2. CASE i = n + 1
    BY <1>1, <1>2, <2>2
  <2> QED
    BY <1>1, <2>1, <2>2
<1>6. ~(binary' /\ opt'.bin = "SKIP")
  BY <1>1, <1>2
<1> QED
  BY <1>1, <1>4, <1>5, <1>6 DEF ByFile

(* What is wanted then. *)
LEMMA WantedThen ==
  ASSUME NEW e, Given(e), Prints, ByFile, Following, tail \in Nat
  PROVE  LET n == Len(seen)
         IN  /\ e.hit /\ ~e.hidden =>
                  \A i \in 1 .. n + 1 :
                    i \in Wanted' <=> i \in Wanted \/ (i \in ThisFile' /\ n + 1 <= i + opt.B)
             /\ ~(e.hit /\ ~e.hidden) =>
                  /\ \A i \in 1 .. n : i \in Wanted' <=> i \in Wanted
                  /\ n + 1 \in Wanted' <=> tail > 0
             /\ AsBinary => tail = 0
<1> DEFINE n == Len(seen)
<1>1. /\ n \in Nat /\ Len(seen') = n + 1 /\ opt.A \in Nat
  BY GivenFacts
<1>2. OneMore(e) /\ e.file = k /\ k' = k /\ InFile
  BY DEF Given
<1>3. /\ e.hit /\ ~e.hidden =>
           \A i \in 1 .. n + 1 : i \in Wanted' <=>
             i \in Wanted \/ (seen'[i].file = e.file /\ n + 1 <= i + opt.B)
      /\ ~(e.hit /\ ~e.hidden) =>
           /\ \A i \in 1 .. n : i \in Wanted' <=> i \in Wanted
           /\ n + 1 \in Wanted' <=>
                \E j \in Selected : seen[j].file = e.file /\ n + 1 <= j + opt.A
  BY <1>2, WantedMore
<1>4. \A i \in 1 .. n + 1 : i \in ThisFile' <=> seen'[i].file = e.file
  BY <1>1, <1>2 DEF ThisFile
<1>5. \A j \in Selected : j \in 1 .. n /\ seen[j].hit /\ ~seen[j].hidden
  BY <1>1, <1>2, MoreFacts DEF Selected
<1>6. \A j \in Selected : seen[j].file = e.file <=> j \in ThisFile
  BY <1>2, <1>5 DEF ThisFile
<1>7. 1 \in Nat \ {0} /\ (1 <= tail <=> \E j \in Selected : j \in ThisFile /\ n + 1 <= j + opt.A)
  BY <1>2 DEF Following
<1>8. (\E j \in Selected : seen[j].file = e.file /\ n + 1 <= j + opt.A) <=> tail > 0
  BY <1>6, <1>7
<1>9. AsBinary => tail = 0
  <2>1. AsBinary => \A j \in Selected : j \notin ThisFile
    BY <1>2, <1>5 DEF ByFile
  <2> QED
    BY <1>7, <2>1
<1> QED
  BY <1>3, <1>4, <1>8, <1>9

(* The tail counts the lines that a match still makes wanted.              *)
LEMMA FollowingMore ==
  ASSUME NEW e, Given(e), ByFile, Following, tail \in Nat, tail' \in Nat,
         Prints => IF e.hit /\ ~e.hidden THEN tail' = opt.A
                   ELSE tail' = IF tail > 0 THEN tail - 1 ELSE 0
  PROVE  Following'
<1> DEFINE n == Len(seen)
<1>1. /\ n \in Nat /\ Len(seen') = n + 1 /\ opt' = opt /\ opt.A \in Nat
      /\ Prints' <=> Prints
      /\ ThisFile \subseteq 1 .. n
      /\ \A i : i \in ThisFile' <=> i \in ThisFile \/ i = n + 1
  BY GivenFacts
<1>2. OneMore(e) /\ e.file = k /\ k' = k /\ InFile
  BY DEF Given
<1>3. \A j \in 1 .. n + 1 : j \in Selected' <=> j \in Selected \/ (j = n + 1 /\ e.hit /\ ~e.hidden)
  BY <1>2, SelectedMore
<1>4. /\ \A j \in Selected : j \in 1 .. n
      /\ \A j \in Selected' : j \in 1 .. n + 1
  BY <1>1, <1>2, MoreFacts DEF Selected
<1> HIDE DEF n
<1> SUFFICES ASSUME Prints, NEW d \in Nat \ {0}
             PROVE  d <= tail' <=> \E j \in Selected' : j \in ThisFile' /\ (n + 1) + d <= j + opt.A
  <2> DEFINE P(d) == d <= tail' <=> \E j \in Selected' : j \in ThisFile' /\ (n + 1) + d <= j + opt.A
  <2>1. Following' <=> (InFile' /\ Prints' => \A d \in Nat \ {0} : P(d))
    BY <1>1 DEF Following
  <2> HIDE DEF P
  <2>2. Prints => \A d \in Nat \ {0} : P(d)
    BY DEF P
  <2> QED
    BY <1>1, <2>1, <2>2
<1>5. \A j \in Selected' : j \in ThisFile' <=> j \in ThisFile \/ j = n + 1
  BY <1>1
<1>6. CASE e.hit /\ ~e.hidden
  <2>1. tail' = opt.A
    BY <1>6
  <2>2. n + 1 \in Selected' /\ n + 1 \in ThisFile'
    <3>1. n + 1 \in 1 .. n + 1
      BY <1>1
    <3> QED
      BY <1>1, <1>3, <1>6, <3>1
  <2>3. ASSUME d <= opt.A PROVE \E j \in Selected' : j \in ThisFile' /\ (n + 1) + d <= j + opt.A
    <3>1. (n + 1) + d <= (n + 1) + opt.A
      BY <1>1, <2>3
    <3> QED
      BY <2>2, <3>1
  <2>4. ASSUME NEW j \in Selected', (n + 1) + d <= j + opt.A PROVE d <= opt.A
    <3>1. j \in 1 .. n + 1
      BY <1>4
    <3> QED
      BY <1>1, <2>4, <3>1
  <2> QED
    BY <2>1, <2>3, <2>4
<1>7. CASE ~(e.hit /\ ~e.hidden)
  <2>1. \A j : j \in Selected' <=> j \in Selected
    <3>1. \A j \in 1 .. n : j \in 1 .. n + 1
      BY <1>1
    <3> QED
      BY <1>3, <1>4, <1>7, <3>1
  <2>2. \A j \in Selected : j \in ThisFile' <=> j \in ThisFile
    BY <1>1, <1>4
  <2>3. \A j \in Selected : (n + 1) + d <= j + opt.A <=> n + (d + 1) <= j + opt.A
    BY <1>1, <1>4
  <2>4. d + 1 \in Nat \ {0}
    OBVIOUS
  <2>5. d + 1 <= tail <=> \E j \in Selected : j \in ThisFile /\ n + (d + 1) <= j + opt.A
    <3>1. \A x \in Nat \ {0} : x <= tail <=> \E j \in Selected : j \in ThisFile /\ n + x <= j + opt.A
      BY <1>2 DEF Following, n
    <3> QED
      BY <2>4, <3>1
  <2>6. d <= tail' <=> d + 1 <= tail
    BY <1>7
  <2>7. (\E j \in Selected' : j \in ThisFile' /\ (n + 1) + d <= j + opt.A)
        <=> \E j \in Selected : j \in ThisFile /\ n + (d + 1) <= j + opt.A
    BY <2>1, <2>2, <2>3
  <2> QED
    BY <2>5, <2>6, <2>7
<1> QED
  BY <1>6, <1>7

AllLines(t) == \A i \in 1 .. Len(t) : IsLineEntry(t[i])
NoLines(t) == \A i \in 1 .. Len(t) : ~IsLineEntry(t[i])

(* Lines that are printed are added to the lines.                          *)
LEMMA LinesOfAll ==
  ASSUME NEW s \in Seq(Entry), NEW t \in Seq(Entry), AllLines(t)
  PROVE  s \o t \in Seq(Entry) /\ LinesOf(s \o t) = LinesOf(s) \o t
<1>1. \A i \in 1 .. Len(t) : IsLineEntry(t[i])
  BY DEF AllLines
<1>2. s \o t \in Seq(Entry)
  OBVIOUS
<1> QED
  BY <1>1, <1>2, LinesOfMore

(* What is not a line changes none of them.                                *)
LEMMA LinesOfNone ==
  ASSUME NEW s \in Seq(Entry), NEW t \in Seq(Entry), NoLines(t)
  PROVE  s \o t \in Seq(Entry) /\ LinesOf(s \o t) = LinesOf(s)
<1>1. \A i \in 1 .. Len(t) : ~IsLineEntry(t[i])
  BY DEF NoLines
<1>2. s \o t \in Seq(Entry)
  OBVIOUS
<1> QED
  BY <1>1, <1>2, LinesOfMore

(* The lines of the queue are printed as lines.                            *)
LEMMA LinesAre ==
  ASSUME NEW s \in Seq(Nat)
  PROVE  /\ Lines(s) \in Seq(Entry) /\ Len(Lines(s)) = Len(s)
         /\ \A i \in 1 .. Len(s) : Lines(s)[i] = Line(s[i]) /\ IsLineEntry(Lines(s)[i])
<1>1. Len(s) \in Nat /\ DOMAIN s = 1 .. Len(s) /\ \A i \in 1 .. Len(s) : s[i] \in Nat
  OBVIOUS
<1>2. \A i \in 1 .. Len(s) : Line(s[i]) \in Entry /\ IsLineEntry(Line(s[i]))
  BY <1>1, EntryFacts
<1>3. Lines(s) = [i \in 1 .. Len(s) |-> Line(s[i])]
  BY <1>1 DEF Lines
<1>4. Lines(s) \in [1 .. Len(s) -> Entry]
  BY <1>2, <1>3
<1>5. \A m \in Nat : \A h \in [1 .. m -> Entry] : h \in Seq(Entry) /\ Len(h) = m
  OBVIOUS
<1>6. Lines(s) \in Seq(Entry) /\ Len(Lines(s)) = Len(s)
  BY <1>1, <1>4, <1>5
<1>7. \A i \in 1 .. Len(s) : Lines(s)[i] = Line(s[i])
  BY <1>3
<1> QED
  BY <1>2, <1>6, <1>7

(* What the match prints is what is due. *)
LEMMA MatchPrints ==
  ASSUME NEW e, Given(e), LinesInv, Prints, e.hit, ~e.hidden, PrintMatch(Len(seen) + 1)
  PROVE  /\ out' \in Seq(Entry) /\ LinesOf(out') = Reference'
         /\ Wanted' # {}
<1> DEFINE n == Len(seen)  q == Len(queue)  a == n - q
<1>1. /\ n \in Nat /\ opt.A \in Nat /\ opt.B \in Nat
      /\ \A i : i \in ThisFile' <=> i \in ThisFile \/ i = n + 1
      /\ ThisFile \subseteq 1 .. n
      /\ Wanted \subseteq 1 .. n /\ n + 1 \notin Wanted /\ n + 1 \notin ThisFile
      /\ Len(seen') = n + 1
      /\ \A i \in 1 .. n : seen'[i] = seen[i]
  BY GivenFacts
<1>2. \A i \in 1 .. n + 1 :
        i \in Wanted' <=> i \in Wanted \/ (i \in ThisFile' /\ n + 1 <= i + opt.B)
  BY WantedThen DEF LinesInv, LinesType
<1>3. InFile /\ ~AsBinary /\ OneMore(e) /\ e.file = k /\ k' = k
  BY DEF Given
<1>4. /\ q <= opt.B /\ q <= n /\ q \in Nat /\ queue \in Seq(Nat)
      /\ \A i \in 1 .. q : queue[i] = a + i
      /\ \A i \in a + 1 .. n : i \in ThisFile /\ i \notin Wanted
      /\ \A i \in ThisFile : i > n - opt.B => i > a \/ i \in Wanted
      /\ opt.B = 0 => queue = <<>>
  BY <1>3 DEF LinesInv, LinesType, Waiting
<1> HIDE DEF n, q, a
<1>5. a \in 0 .. n /\ a = n - q
  BY <1>1, <1>4 DEF a
<1>6. \A i \in 1 .. a : i \in Wanted' <=> i \in Wanted
  <2> SUFFICES ASSUME NEW i \in 1 .. a PROVE i \in Wanted' <=> i \in Wanted
    OBVIOUS
  <2>1. i \in 1 .. n + 1 /\ i <= n /\ ~(i > a)
    BY <1>1, <1>5
  <2>2. i \in ThisFile' /\ n + 1 <= i + opt.B => i \in Wanted
    BY <1>1, <1>4, <2>1
  <2> QED
    BY <1>2, <2>1, <2>2
<1>7. \A i \in a + 1 .. n : i \notin Wanted
  BY <1>4
<1>8. \A i \in a + 1 .. n + 1 : i \in Wanted' /\ i \in ThisFile'
  <2> SUFFICES ASSUME NEW i \in a + 1 .. n + 1 PROVE i \in Wanted' /\ i \in ThisFile'
    OBVIOUS
  <2>1. i \in a + 1 .. n \/ i = n + 1
    BY <1>1, <1>5
  <2>2. i \in ThisFile'
    BY <1>1, <1>4, <2>1
  <2>3. i \in 1 .. n + 1 /\ n + 1 <= i + opt.B
    BY <1>1, <1>4, <1>5
  <2> QED
    BY <1>2, <2>2, <2>3
<1>9. \A i \in a + 1 .. n + 1 : i \in Wanted' /\ seen'[i].file = e.file
  BY <1>3, <1>8 DEF ThisFile
<1>10. Reference' = Reference \o DueNow(a, e)
  <2>1. a \in 0 .. Len(seen)
    BY <1>5 DEF n
  <2> QED
    BY <1>3, <1>6, <1>7, <1>9, <2>1, ReferenceMore DEF n
<1>11. Wanted' # {}
  BY <1>1, <1>5, <1>8
<1>12. GroupEnds <=> GapAfter(a, e)
  <2>1. first_global <=> Wanted = {}
    BY DEF LinesInv, Shown
  <2>2. CASE first
    <3>1. \A i \in ThisFile : i \notin Wanted
      BY <1>3, <2>2 DEF LinesInv, Since
    <3>2. ~(a \in Wanted /\ seen[a].file = e.file)
      <4>1. a \in Wanted /\ seen[a].file = e.file => a \in ThisFile
        BY <1>1, <1>3 DEF ThisFile, n
      <4> QED
        BY <3>1, <4>1
    <3> QED
      BY <2>1, <2>2, <3>2 DEF GroupEnds, GapAfter
  <2>3. CASE ~first
    <3> DEFINE s == since_printed
    <3>1. /\ s \in Nat /\ s < n /\ n - s \in ThisFile /\ n - s \in Wanted
          /\ \A i \in (n - s) + 1 .. n : i \notin Wanted
          /\ q = IF s <= opt.B THEN s ELSE opt.B
      BY <1>3, <2>3 DEF LinesInv, LinesType, Since, n, q
    <3> HIDE DEF s
    <3>2. CASE s <= opt.B
      <4>1. a = n - s
        BY <1>5, <3>1, <3>2
      <4>2. a \in Wanted /\ seen[a].file = e.file
        BY <1>3, <3>1, <4>1 DEF ThisFile
      <4> QED
        BY <1>1, <2>3, <3>1, <3>2, <4>2 DEF GroupEnds, GapAfter, s
    <3>3. CASE s > opt.B
      <4>1. a \in (n - s) + 1 .. n
        BY <1>1, <1>5, <3>1, <3>3
      <4>2. a \notin Wanted
        BY <3>1, <4>1
      <4> QED
        BY <2>1, <2>3, <3>3, <4>2 DEF GroupEnds, GapAfter, s
    <3> QED
      BY <1>1, <3>1, <3>2, <3>3
  <2> QED
    BY <2>2, <2>3
<1> DEFINE g == IF GapAfter(a, e) THEN <<Separator>> ELSE <<>>
           w == IF opt.B > 0 THEN queue ELSE <<>>
           t == Lines(Append(w, n + 1))
<1>13. w = queue
  BY <1>1, <1>4
<1>14. out' = (out \o g) \o t
  BY <1>12 DEF PrintMatch, n
<1>15. Append(w, n + 1) \in Seq(Nat) /\ Len(Append(w, n + 1)) = q + 1
       /\ (\A i \in 1 .. q : Append(w, n + 1)[i] = queue[i]) /\ Append(w, n + 1)[q + 1] = n + 1
  BY <1>1, <1>4, <1>13 DEF q
<1>16. /\ t \in Seq(Entry) /\ Len(t) = q + 1
       /\ \A i \in 1 .. q + 1 : t[i] = Line(Append(w, n + 1)[i]) /\ IsLineEntry(t[i])
  BY <1>15, LinesAre
<1>17. \A i \in 1 .. q + 1 : Append(w, n + 1)[i] = a + i
  <2>1. a + (q + 1) = n + 1
    BY <1>1, <1>4, <1>5
  <2> QED
    BY <1>4, <1>15, <2>1
<1> DEFINE u == [m \in 1 .. (n + 1) - a |-> Line(a + m)]
<1>18. t = u
  <2>1. (n + 1) - a = q + 1 /\ q + 1 \in Nat
    BY <1>1, <1>4, <1>5
  <2>2. u = [m \in 1 .. q + 1 |-> Line(a + m)]
    BY <2>1
  <2> HIDE DEF t, u, w
  <2>3. \A i \in 1 .. q + 1 : t[i] = Line(a + i)
    BY <1>16, <1>17
  <2>4. t = [m \in 1 .. q + 1 |-> t[m]]
    BY <1>16, <2>1
  <2> QED
    BY <2>2, <2>3, <2>4
<1>19. g \in Seq(Entry) /\ \A i \in 1 .. Len(g) : IsLineEntry(g[i])
  <2>1. \A x \in Entry : IsLineEntry(x) => <<x>> \in Seq(Entry) /\ \A i \in 1 .. Len(<<x>>) : IsLineEntry(<<x>>[i])
    OBVIOUS
  <2>2. <<>> \in Seq(Entry) /\ \A i \in 1 .. Len(<<>>) : IsLineEntry(<<>>[i])
    OBVIOUS
  <2> QED
    BY <2>1, <2>2, EntryFacts
<1> HIDE DEF g, t, u, w
<1>20. /\ out \in Seq(Entry) /\ LinesOf(out) = Reference /\ Reference \in Seq(Entry)
  BY <1>3, PiecesMore DEF LinesInv, LinesType, Shown
<1>21. out \o g \in Seq(Entry) /\ LinesOf(out \o g) = Reference \o g
  <2>1. AllLines(g)
    BY <1>19 DEF AllLines
  <2> QED
    BY <1>19, <1>20, <2>1, LinesOfAll
<1>22. AllLines(t)
  BY <1>16 DEF AllLines
<1>23. (out \o g) \o t \in Seq(Entry) /\ LinesOf((out \o g) \o t) = (Reference \o g) \o t
  BY <1>16, <1>21, <1>22, LinesOfAll
<1>24. (Reference \o g) \o t = Reference \o (g \o t)
  BY <1>16, <1>19, <1>20, ConcatAssociative, SMTT(60)
<1>25. DueNow(a, e) = g \o t
  BY <1>18 DEF DueNow, g, u, n
<1> QED
  BY <1>10, <1>11, <1>14, <1>23, <1>24, <1>25

(* A line behind the match. *)
LEMMA TailPrints ==
  ASSUME NEW e, Given(e), LinesInv, Prints, ~e.hit, PrintTail(Len(seen) + 1)
  PROVE  /\ out' \in Seq(Entry) /\ LinesOf(out') = Reference'
         /\ Wanted' # {}
<1> DEFINE n == Len(seen)
<1>1. /\ n \in Nat /\ n \in 0 .. Len(seen)
      /\ \A i : i \in ThisFile' <=> i \in ThisFile \/ i = n + 1
      /\ Wanted \subseteq 1 .. n
      /\ seen'[n + 1] = e
  BY GivenFacts
<1>2. /\ \A i \in 1 .. n : i \in Wanted' <=> i \in Wanted
      /\ n + 1 \in Wanted'
      /\ ~AsBinary
  BY WantedThen DEF LinesInv, LinesType, PrintTail
<1>3. InFile /\ OneMore(e) /\ e.file = k
  BY DEF Given
<1>4. n \in Wanted /\ seen[n].file = e.file
  <2>1. tail > 0 /\ since_printed \in Nat /\ first \in BOOLEAN
    BY DEF PrintTail, LinesInv, LinesType
  <2>2. ~first /\ since_printed = 0
    BY <1>2, <1>3, <2>1 DEF LinesInv, Since
  <2>3. n - 0 \in ThisFile /\ n - 0 \in Wanted
    BY <1>2, <1>3, <2>2 DEF LinesInv, Since
  <2>4. n - 0 = n
    BY <1>1
  <2> QED
    BY <1>3, <2>3, <2>4 DEF ThisFile
<1>5. Reference' = Reference \o DueNow(n, e)
  <2>1. \A i \in n + 1 .. n : i \notin Wanted
    BY <1>1
  <2>2. \A i \in n + 1 .. n + 1 : i \in Wanted' /\ seen'[i].file = e.file
    <3>1. \A i \in n + 1 .. n + 1 : i = n + 1
      BY <1>1
    <3> QED
      BY <1>1, <1>2, <3>1
  <2> QED
    BY <1>1, <1>2, <1>3, <2>1, <2>2, ReferenceMore
<1> HIDE DEF n
<1>6. DueNow(n, e) = <<Line(n + 1)>>
  <2>1. ~GapAfter(n, e)
    BY <1>4 DEF GapAfter
  <2>2. (n + 1) - n = 1
    BY <1>1
  <2>3. [m \in 1 .. 1 |-> Line(n + m)] = <<Line(n + 1)>>
    OBVIOUS
  <2>4. Line(n + 1) \in Entry
    BY <1>1, EntryFacts
  <2>5. \A x \in Entry : <<>> \o <<x>> = <<x>>
    OBVIOUS
  <2>6. DueNow(n, e) = <<>> \o [m \in 1 .. 1 |-> Line(n + m)]
    BY <2>1, <2>2 DEF DueNow, n
  <2> QED
    BY <2>3, <2>4, <2>5, <2>6
<1>7. out' = Append(out, Line(n + 1))
  BY DEF PrintTail, n
<1>8. /\ out \in Seq(Entry) /\ LinesOf(out) = Reference /\ Reference \in Seq(Entry)
  BY <1>3, PiecesMore DEF LinesInv, LinesType, Shown
<1>9. Line(n + 1) \in Entry /\ IsLineEntry(Line(n + 1))
  BY <1>1, EntryFacts
<1>10. out' \in Seq(Entry) /\ LinesOf(out') = Append(Reference, Line(n + 1))
  BY <1>7, <1>8, <1>9, LinesOfAppend
<1>11. Append(Reference, Line(n + 1)) = Reference \o <<Line(n + 1)>>
  BY <1>8, <1>9
<1> QED
  BY <1>2, <1>5, <1>6, <1>10, <1>11

(* A line that is not printed. *)
LEMMA NothingPrinted ==
  ASSUME NEW e, Given(e), LinesInv, out' = out,
         Prints => ~(e.hit /\ ~e.hidden) /\ (AsBinary \/ tail = 0)
  PROVE  /\ LinesOf(out') = Reference'
         /\ Wanted' = Wanted
<1> DEFINE n == Len(seen)
<1>1. /\ n \in Nat /\ Wanted \subseteq 1 .. n /\ Wanted' \subseteq 1 .. n + 1
      /\ Prints' <=> Prints
  BY GivenFacts
<1>2. CASE Prints
  <2>1. /\ \A i \in 1 .. n : i \in Wanted' <=> i \in Wanted
        /\ n + 1 \in Wanted' <=> tail > 0
        /\ AsBinary => tail = 0
    BY <1>2, WantedThen DEF LinesInv, LinesType
  <2>2. n + 1 \notin Wanted'
    BY <1>2, <2>1
  <2>3. Wanted' = Wanted
    <3> HIDE DEF n
    <3>1. \A i : i \in 1 .. n + 1 <=> i \in 1 .. n \/ i = n + 1
      BY <1>1
    <3>2. \A i : i \in Wanted' <=> i \in Wanted
      BY <1>1, <2>1, <2>2, <3>1
    <3> QED
      BY <3>2
  <2>4. Reference' = Reference
    BY <2>1, <2>2, ReferenceSame DEF Given
  <2> QED
    BY <2>3, <2>4 DEF LinesInv, Shown
<1>3. CASE ~Prints
  <2>1. Wanted = {} /\ Wanted' = {}
    BY <1>1, <1>3 DEF Wanted
  <2>2. Reference' = Reference
    BY <2>1, ReferenceSame DEF Given
  <2> QED
    BY <2>1, <2>2 DEF LinesInv, Shown
<1> QED
  BY <1>2, <1>3

(* Every outcome of procline() leaves values of their types.               *)
LEMMA LinesTypeMore ==
  ASSUME NEW i \in Nat, LinesType, opt.A \in Nat,
         \/ PrintMatch(i) /\ out' \in Seq(Entry)
         \/ PrintTail(i) /\ out' \in Seq(Entry)
         \/ Keep(i)
         \/ BinaryMatch
  PROVE  LinesType'
<1>1. /\ queue \in Seq(Nat) /\ tail \in Nat /\ since_printed \in Nat
      /\ first \in BOOLEAN /\ first_global \in BOOLEAN /\ out \in Seq(Entry)
  BY DEF LinesType
<1>2. <<>> \in Seq(Nat)
  OBVIOUS
<1>3. CASE PrintMatch(i) /\ out' \in Seq(Entry)
  BY <1>1, <1>2, <1>3 DEF PrintMatch, Printed, LinesType
<1>4. CASE PrintTail(i) /\ out' \in Seq(Entry)
  <2>1. tail - 1 \in Nat
    BY <1>1, <1>4 DEF PrintTail
  <2> QED
    BY <1>1, <1>4, <2>1 DEF PrintTail, Printed, LinesType
<1>5. CASE Keep(i)
  <2>1. Append(queue, i) \in Seq(Nat) /\ Append(queue, i) # <<>>
    BY <1>1, AppendIsNotEmpty
  <2>2. Tail(Append(queue, i)) \in Seq(Nat)
    BY <2>1
  <2>3. queue' \in Seq(Nat)
    BY <1>1, <1>5, <2>1, <2>2 DEF Keep, Enqueue
  <2>4. since_printed' \in Nat
    BY <1>1, <1>5 DEF Keep
  <2> QED
    BY <1>1, <1>5, <2>3, <2>4 DEF Keep, LinesType
<1>6. CASE BinaryMatch
  BY <1>1, <1>6 DEF BinaryMatch, LinesType
<1> QED
  BY <1>3, <1>4, <1>5, <1>6

(* The queue and the count after a match. *)
LEMMA MatchWaits ==
  ASSUME NEW e, Given(e), LinesInv, Prints, e.hit, ~e.hidden, PrintMatch(Len(seen) + 1)
  PROVE  Waiting' /\ Since'
<1> DEFINE n == Len(seen)
<1>1. /\ n \in Nat /\ Len(seen') = n + 1 /\ opt' = opt /\ opt.B \in Nat /\ opt.A \in Nat
      /\ \A i : i \in ThisFile' <=> i \in ThisFile \/ i = n + 1
      /\ ThisFile \subseteq 1 .. n
  BY GivenFacts
<1>2. \A i \in 1 .. n + 1 :
        i \in Wanted' <=> i \in Wanted \/ (i \in ThisFile' /\ n + 1 <= i + opt.B)
  BY WantedThen DEF LinesInv, LinesType
<1>3. InFile /\ InFile'
  BY DEF Given
<1>4. queue' = <<>> /\ first' = FALSE /\ since_printed' = 0
  <2>1. opt.B = 0 => queue = <<>>
    BY DEF LinesInv, Waiting
  <2> QED
    BY <1>1, <2>1 DEF PrintMatch, Printed
<1> HIDE DEF n
<1>5. Len(queue') = 0
  BY <1>4
<1>6. n + 1 \in 1 .. n + 1 /\ n + 1 \in ThisFile' /\ n + 1 \in Wanted'
  BY <1>1, <1>2
<1>7. ASSUME NEW i \in ThisFile', i > (n + 1) - opt.B PROVE i \in Wanted'
  <2>1. i \in ThisFile \/ i = n + 1
    BY <1>1, <1>7
  <2>2. i \in 1 .. n + 1
    <3>1. \A j \in 1 .. n : j \in 1 .. n + 1
      BY <1>1
    <3>2. i \in ThisFile => i \in 1 .. n
      BY <1>1
    <3> QED
      BY <1>6, <2>1, <3>1, <3>2
  <2>3. n + 1 <= i + opt.B
    BY <1>1, <1>7, <2>2
  <2> QED
    BY <1>2, <1>7, <2>2, <2>3
<1>8. Waiting'
  <2>1. \A i \in 1 .. 0 : queue'[i] = ((n + 1) - 0) + i
    OBVIOUS
  <2>2. \A i \in ((n + 1) - 0) + 1 .. n + 1 : i \in ThisFile' /\ i \notin Wanted'
    BY <1>1
  <2>3. 0 <= opt'.B /\ 0 <= n + 1
    BY <1>1
  <2> QED
    BY <1>1, <1>4, <1>5, <1>7, <2>1, <2>2, <2>3 DEF Waiting
<1>9. Since'
  <2>1. \A i \in ((n + 1) - 0) + 1 .. n + 1 : i \notin Wanted'
    BY <1>1
  <2>2. (n + 1) - 0 = n + 1 /\ 0 < n + 1 /\ 0 <= opt'.B
    BY <1>1
  <2> QED
    BY <1>1, <1>4, <1>5, <1>6, <2>1, <2>2 DEF Since
<1> QED
  BY <1>8, <1>9

(* The queue and the count after a line behind the match. *)
LEMMA TailWaits ==
  ASSUME NEW e, Given(e), LinesInv, Prints, ~e.hit, PrintTail(Len(seen) + 1)
  PROVE  Waiting' /\ Since'
<1> DEFINE n == Len(seen)
<1>1. /\ n \in Nat /\ Len(seen') = n + 1 /\ opt' = opt /\ opt.B \in Nat /\ opt.A \in Nat
      /\ \A i : i \in ThisFile' <=> i \in ThisFile \/ i = n + 1
      /\ ThisFile \subseteq 1 .. n
  BY GivenFacts
<1>2. /\ \A i \in 1 .. n : i \in Wanted' <=> i \in Wanted
      /\ n + 1 \in Wanted'
      /\ ~AsBinary
  BY WantedThen DEF LinesInv, LinesType, PrintTail
<1>3. InFile /\ InFile'
  BY DEF Given
<1>4. first' = FALSE /\ since_printed' = 0 /\ queue' = queue /\ tail > 0
  BY DEF PrintTail, Printed
<1>5. Len(queue) = 0 /\ queue = <<>>
  <2>1. since_printed \in Nat /\ first \in BOOLEAN /\ queue \in Seq(Nat)
    BY DEF LinesInv, LinesType
  <2>2. ~first /\ since_printed = 0
    BY <1>2, <1>3, <1>4, <2>1 DEF LinesInv, Since
  <2>3. Len(queue) = IF 0 <= opt.B THEN 0 ELSE opt.B
    BY <1>2, <1>3, <2>2 DEF LinesInv, Since
  <2> QED
    BY <1>1, <2>1, <2>3
<1>6. \A i \in ThisFile : i > n - opt.B => i > n - 0 \/ i \in Wanted
  BY <1>2, <1>3, <1>5 DEF LinesInv, Waiting
<1> HIDE DEF n
<1>7. n + 1 \in ThisFile'
  BY <1>1
<1>8. ASSUME NEW i \in ThisFile', i > (n + 1) - opt.B PROVE i \in Wanted'
  <2>1. i \in ThisFile \/ i = n + 1
    BY <1>1, <1>8
  <2>2. CASE i \in ThisFile
    <3>1. i \in 1 .. n
      BY <1>1, <2>2
    <3>2. i > n - opt.B /\ ~(i > n - 0)
      BY <1>1, <1>8, <3>1
    <3> QED
      BY <1>2, <1>6, <2>2, <3>1, <3>2
  <2> QED
    BY <1>2, <2>1, <2>2
<1>9. Waiting'
  <2>1. \A i \in 1 .. 0 : queue'[i] = ((n + 1) - 0) + i
    OBVIOUS
  <2>2. \A i \in ((n + 1) - 0) + 1 .. n + 1 : i \in ThisFile' /\ i \notin Wanted'
    BY <1>1
  <2>3. 0 <= opt'.B /\ 0 <= n + 1
    BY <1>1
  <2> QED
    BY <1>1, <1>4, <1>5, <1>8, <2>1, <2>2, <2>3 DEF Waiting
<1>10. Since'
  <2>1. \A i \in ((n + 1) - 0) + 1 .. n + 1 : i \notin Wanted'
    BY <1>1
  <2>2. (n + 1) - 0 = n + 1 /\ 0 < n + 1 /\ 0 <= opt'.B
    BY <1>1
  <2> QED
    BY <1>1, <1>2, <1>4, <1>5, <1>7, <2>1, <2>2 DEF Since
<1> QED
  BY <1>9, <1>10

(* A line joins the queue. *)
LEMMA EnqueueFacts ==
  ASSUME NEW n \in Nat, queue \in Seq(Nat), Len(queue) <= n, Len(queue) <= opt.B,
         opt.B \in Nat, opt.B > 0,
         \A i \in 1 .. Len(queue) : queue[i] = (n - Len(queue)) + i
  PROVE  LET r == Len(Enqueue(n + 1))
         IN  /\ r = IF Len(queue) + 1 <= opt.B THEN Len(queue) + 1 ELSE opt.B
             /\ \A i \in 1 .. r : Enqueue(n + 1)[i] = ((n + 1) - r) + i
<1> DEFINE q == Len(queue)
           s == Append(queue, n + 1)
           r == Len(Enqueue(n + 1))
<1>1. /\ q \in Nat /\ s \in Seq(Nat) /\ Len(s) = q + 1
      /\ \A i \in 1 .. q : s[i] = queue[i]
      /\ s[q + 1] = n + 1
  OBVIOUS
<1>2. \A i \in 1 .. q : queue[i] = (n - q) + i
  OBVIOUS
<1>3. q <= n /\ q <= opt.B
  OBVIOUS
<1>4. Enqueue(n + 1) = IF q + 1 > opt.B THEN Tail(s) ELSE s
  BY DEF Enqueue
<1> HIDE DEF q, s
<1>5. \A i \in 1 .. q + 1 : s[i] = (n - q) + i
  <2> SUFFICES ASSUME NEW i \in 1 .. q + 1 PROVE s[i] = (n - q) + i
    OBVIOUS
  <2>1. CASE i \in 1 .. q
    BY <1>1, <1>2, <2>1
  <2>2. CASE i = q + 1
    BY <1>1, <1>3, <2>2
  <2> QED
    BY <1>1, <2>1, <2>2
<1>6. CASE q + 1 <= opt.B
  <2>1. Enqueue(n + 1) = s
    BY <1>1, <1>4, <1>6
  <2>2. \A i \in 1 .. q + 1 : s[i] = ((n + 1) - (q + 1)) + i
    BY <1>1, <1>5
  <2> QED
    BY <1>1, <1>6, <2>1, <2>2 DEF q
<1>7. CASE ~(q + 1 <= opt.B)
  <2>1. Enqueue(n + 1) = Tail(s) /\ q = opt.B
    <3>1. \A x, y \in Nat : x <= y /\ ~(x + 1 <= y) => x = y /\ x + 1 > y
      OBVIOUS
    <3>2. q = opt.B /\ q + 1 > opt.B
      BY <1>1, <1>3, <1>7, <3>1
    <3> QED
      BY <1>4, <3>2
  <2>2. Len(Tail(s)) = q /\ \A i \in 1 .. q : Tail(s)[i] = s[i + 1]
    <3>1. s # <<>>
      BY <1>1
    <3>2. Len(Tail(s)) = Len(s) - 1 /\ \A i \in 1 .. Len(Tail(s)) : Tail(s)[i] = s[i + 1]
      BY <1>1, <3>1, HeadTailProperties
    <3>3. (q + 1) - 1 = q
      BY <1>1
    <3> QED
      BY <1>1, <3>2, <3>3
  <2>3. \A i \in 1 .. q : Tail(s)[i] = ((n + 1) - q) + i
    <3> SUFFICES ASSUME NEW i \in 1 .. q PROVE Tail(s)[i] = ((n + 1) - q) + i
      OBVIOUS
    <3>1. i + 1 \in 1 .. q + 1
      BY <1>1
    <3>2. s[i + 1] = (n - q) + (i + 1)
      BY <1>5, <3>1
    <3> QED
      BY <1>1, <2>2, <3>2
  <2> QED
    BY <1>1, <1>7, <2>1, <2>2, <2>3 DEF q
<1> QED
  BY <1>6, <1>7

(* The queue and the count after a line that is kept. *)
LEMMA KeepWaits ==
  ASSUME NEW e, Given(e), LinesInv, Prints, ~AsBinary, ~e.hit, tail = 0,
         Keep(Len(seen) + 1)
  PROVE  Waiting' /\ Since'
<1> DEFINE n == Len(seen)  q == Len(queue)  r == Len(queue')
<1>1. /\ n \in Nat /\ Len(seen') = n + 1 /\ opt' = opt /\ opt.B \in Nat /\ opt.A \in Nat
      /\ \A i : i \in ThisFile' <=> i \in ThisFile \/ i = n + 1
      /\ ThisFile \subseteq 1 .. n
  BY GivenFacts
<1>2. /\ \A i \in 1 .. n : i \in Wanted' <=> i \in Wanted
      /\ n + 1 \notin Wanted'
  BY WantedThen DEF LinesInv, LinesType
<1>3. InFile /\ InFile'
  BY DEF Given
<1>4. /\ queue \in Seq(Nat) /\ q \in Nat
      /\ q <= opt.B /\ q <= n
      /\ \A i \in 1 .. q : queue[i] = (n - q) + i
      /\ \A i \in (n - q) + 1 .. n : i \in ThisFile /\ i \notin Wanted
      /\ \A i \in ThisFile : i > n - opt.B => i > n - q \/ i \in Wanted
      /\ opt.B = 0 => queue = <<>>
  BY <1>3 DEF LinesInv, LinesType, Waiting
<1>5. /\ queue' = IF opt.B > 0 THEN Enqueue(n + 1) ELSE queue
      /\ since_printed' = since_printed + 1
      /\ tail' = 0 /\ first' = first
  BY DEF Keep
<1>6. /\ r = IF q + 1 <= opt.B THEN q + 1 ELSE opt.B
      /\ \A i \in 1 .. r : queue'[i] = ((n + 1) - r) + i
      /\ opt.B = 0 => queue' = <<>>
  <2>1. CASE opt.B = 0
    <3>1. queue' = <<>> /\ q = 0 /\ r = 0
      BY <1>4, <1>5, <2>1
    <3>2. \A i \in 1 .. 0 : queue'[i] = ((n + 1) - 0) + i
      OBVIOUS
    <3> QED
      BY <2>1, <3>1, <3>2
  <2>2. CASE opt.B # 0
    <3>1. opt.B > 0 /\ queue' = Enqueue(n + 1)
      BY <1>1, <1>5, <2>2
    <3> QED
      BY <1>1, <1>4, <2>2, <3>1, EnqueueFacts
  <2> QED
    BY <2>1, <2>2
<1> HIDE DEF n, q, r
<1>7. r \in Nat /\ r <= q + 1 /\ r <= opt.B /\ r <= n + 1 /\ (r = q + 1 \/ (r = q /\ q = opt.B))
  BY <1>1, <1>4, <1>6
<1>8. ASSUME NEW i \in ((n + 1) - r) + 1 .. n + 1 PROVE i \in ThisFile' /\ i \notin Wanted'
  <2>1. i \in (n - q) + 1 .. n \/ i = n + 1
    BY <1>1, <1>4, <1>7
  <2>2. CASE i \in (n - q) + 1 .. n
    <3>1. i \in 1 .. n
      BY <1>1, <1>4, <2>2
    <3> QED
      BY <1>1, <1>2, <1>4, <2>2, <3>1
  <2>3. CASE i = n + 1
    BY <1>1, <1>2, <2>3
  <2> QED
    BY <2>1, <2>2, <2>3
<1>9. ASSUME NEW i \in ThisFile', i > (n + 1) - opt.B
      PROVE  i > (n + 1) - r \/ i \in Wanted'
  <2>1. i \in ThisFile \/ i = n + 1
    BY <1>1, <1>9
  <2>2. CASE i \in ThisFile
    <3>1. i \in 1 .. n
      BY <1>1, <2>2
    <3>2. i > n - opt.B
      BY <1>1, <1>9, <3>1
    <3>3. i > n - q \/ i \in Wanted
      BY <1>4, <2>2, <3>2
    <3>4. i > n - q => i > (n + 1) - r
      BY <1>1, <1>4, <1>7, <1>9, <3>1
    <3> QED
      BY <1>2, <3>1, <3>3, <3>4
  <2>3. CASE i = n + 1
    <3>1. opt.B > 0
      BY <1>1, <1>9, <2>3
    <3>2. r > 0
      BY <1>1, <1>4, <1>6, <3>1
    <3> QED
      BY <1>1, <1>7, <2>3, <3>2
  <2> QED
    BY <2>1, <2>2, <2>3
<1>10. n + 1 \in ThisFile'
  BY <1>1
<1>11. Waiting'
  BY <1>1, <1>3, <1>6, <1>7, <1>8, <1>9, <1>10 DEF Waiting, r
<1> DEFINE s == since_printed
<1>12. s \in Nat
  BY DEF LinesInv, LinesType
<1>13. first => \A i \in ThisFile' : i \notin Wanted'
  <2>1. first => \A i \in ThisFile : i \notin Wanted
    BY <1>3 DEF LinesInv, Since
  <2> QED
    BY <1>1, <1>2, <2>1
<1>14. ASSUME ~first
       PROVE  /\ s + 1 < n + 1 /\ (n + 1) - (s + 1) \in ThisFile' /\ (n + 1) - (s + 1) \in Wanted'
              /\ \A i \in ((n + 1) - (s + 1)) + 1 .. n + 1 : i \notin Wanted'
              /\ r = IF s + 1 <= opt.B THEN s + 1 ELSE opt.B
  <2>1. /\ s < n /\ n - s \in ThisFile /\ n - s \in Wanted
        /\ \A i \in (n - s) + 1 .. n : i \notin Wanted
        /\ q = IF s <= opt.B THEN s ELSE opt.B
    BY <1>3, <1>14 DEF LinesInv, Since, n, q
  <2> HIDE DEF s
  <2>2. (n + 1) - (s + 1) = n - s /\ n - s \in 1 .. n
    BY <1>1, <1>12, <2>1
  <2>3. n - s \in ThisFile' /\ n - s \in Wanted'
    BY <1>1, <1>2, <2>1, <2>2
  <2>4. \A i \in (n - s) + 1 .. n + 1 : i \notin Wanted'
    <3>1. \A i \in (n - s) + 1 .. n + 1 : i \in (n - s) + 1 .. n \/ i = n + 1
      BY <1>1, <1>12
    <3>2. \A i \in (n - s) + 1 .. n : i \in 1 .. n
      BY <1>1, <1>12, <2>1
    <3> QED
      BY <1>2, <2>1, <3>1, <3>2
  <2>5. r = IF s + 1 <= opt.B THEN s + 1 ELSE opt.B
    BY <1>1, <1>6, <1>12, <2>1
  <2>6. s + 1 < n + 1
    BY <1>1, <1>12, <2>1
  <2> QED
    BY <2>2, <2>3, <2>4, <2>5, <2>6
<1>15. Since'
  BY <1>1, <1>5, <1>13, <1>14 DEF Since, r
<1> QED
  BY <1>11, <1>15

(* procline() with each of its outcomes. *)
LEMMA GivenKeeps ==
  ASSUME NEW e, Given(e), LinesInv,
         LET i == Len(seen) + 1
         IN  \/ e.hidden /\ BinaryMatch
             \/ ~e.hidden /\ e.hit /\ PrintMatch(i)
             \/ ~e.hidden /\ ~e.hit /\ PrintTail(i)
             \/ ~e.hidden /\ (~Prints \/ (~e.hit /\ tail = 0)) /\ Keep(i)
  PROVE  LinesInv'
<1> DEFINE n == Len(seen)
<1>1. /\ n \in Nat /\ n + 1 \in Nat /\ opt' = opt /\ opt.A \in Nat /\ opt.B \in Nat
      /\ Prints' <=> Prints
      /\ AsBinary' <=> AsBinary
      /\ \A i : i \in ThisFile' <=> i \in ThisFile \/ i = n + 1
  BY GivenFacts
<1>2. /\ e.hidden <=> e.hit /\ AsBinary
      /\ InFile /\ InFile'
  BY DEF Given
<1>3. LinesType /\ ByFile /\ Shown /\ Following /\ Waiting /\ Since /\ tail \in Nat
      /\ first_global \in BOOLEAN
  BY DEF LinesInv, LinesType
<1>4. ByFile'
  BY <1>3, ByFileMore
<1>a. /\ Prints' /\ ~AsBinary' => Waiting' /\ Since'
      /\ opt.B = 0 => queue' = <<>>
      => Waiting' /\ Since'
  <2>1. n + 1 \in ThisFile'
    BY <1>1
  <2>2. ThisFile' # {}
    BY <2>1
  <2> QED
    BY <1>1, <1>2, <2>2 DEF Waiting, Since
<1>b. opt.B = 0 => queue = <<>>
  BY <1>3 DEF Waiting
<1>5. CASE e.hidden /\ BinaryMatch
  <2>1. AsBinary /\ AsBinary' /\ UNCHANGED <<queue, tail, since_printed, first, first_global, out>>
    BY <1>1, <1>2, <1>5 DEF BinaryMatch
  <2>2. Prints => tail = 0
    BY <1>3, <2>1, WantedThen
  <2>3. LinesType'
    BY <1>1, <1>3, <1>5, LinesTypeMore
  <2>4. Following'
    BY <1>3, <1>5, <2>1, <2>2, FollowingMore
  <2>5. LinesOf(out') = Reference' /\ Wanted' = Wanted
    BY <1>5, <2>1, NothingPrinted
  <2>6. Shown'
    BY <1>1, <1>3, <2>1, <2>5 DEF Shown
  <2>7. Waiting' /\ Since'
    BY <1>a, <1>b, <2>1
  <2> QED
    BY <1>4, <2>3, <2>4, <2>6, <2>7 DEF LinesInv
<1>6. CASE ~e.hidden /\ e.hit /\ PrintMatch(n + 1)
  <2>1. Prints /\ tail' = opt.A /\ first_global' = FALSE
    BY <1>6 DEF PrintMatch, Printed
  <2>2. out' \in Seq(Entry) /\ LinesOf(out') = Reference' /\ Wanted' # {}
    BY <1>6, <2>1, MatchPrints
  <2>3. LinesType'
    BY <1>1, <1>3, <1>6, <2>2, LinesTypeMore
  <2>4. Following'
    BY <1>1, <1>3, <1>6, <2>1, FollowingMore
  <2>5. Shown'
    BY <1>1, <2>1, <2>2 DEF Shown
  <2>6. Waiting' /\ Since'
    BY <1>6, <2>1, MatchWaits
  <2> QED
    BY <1>4, <2>3, <2>4, <2>5, <2>6 DEF LinesInv
<1>7. CASE ~e.hidden /\ ~e.hit /\ PrintTail(n + 1)
  <2>1. Prints /\ tail > 0 /\ tail' = tail - 1 /\ first_global' = FALSE
    BY <1>7 DEF PrintTail, Printed
  <2>2. out' \in Seq(Entry) /\ LinesOf(out') = Reference' /\ Wanted' # {}
    BY <1>7, <2>1, TailPrints
  <2>3. LinesType'
    BY <1>1, <1>3, <1>7, <2>2, LinesTypeMore
  <2>a. tail' \in Nat
    BY <2>3 DEF LinesType
  <2>4. Following'
    BY <1>1, <1>3, <1>7, <2>1, <2>a, FollowingMore
  <2>5. Shown'
    BY <1>1, <2>1, <2>2 DEF Shown
  <2>6. Waiting' /\ Since'
    BY <1>7, <2>1, TailWaits
  <2> QED
    BY <1>4, <2>3, <2>4, <2>5, <2>6 DEF LinesInv
<1>8. CASE ~e.hidden /\ (~Prints \/ (~e.hit /\ tail = 0)) /\ Keep(n + 1)
  <2>1. UNCHANGED <<tail, first, first_global, out>>
    BY <1>8 DEF Keep
  <2>2. LinesType'
    BY <1>1, <1>3, <1>8, LinesTypeMore
  <2>3. Prints => ~e.hit /\ tail = 0
    BY <1>8
  <2>4. Following'
    BY <1>3, <2>1, <2>3, FollowingMore
  <2>5. LinesOf(out') = Reference' /\ Wanted' = Wanted
    BY <2>1, <2>3, NothingPrinted
  <2>6. Shown'
    BY <1>1, <1>3, <2>1, <2>5 DEF Shown
  <2>7. Prints' /\ ~AsBinary' => Waiting' /\ Since'
    BY <1>1, <1>8, <2>3, KeepWaits
  <2>8. opt.B = 0 => queue' = <<>>
    BY <1>b, <1>8 DEF Keep
  <2>9. Waiting' /\ Since'
    BY <1>a, <2>7, <2>8
  <2> QED
    BY <1>4, <2>2, <2>4, <2>6, <2>9 DEF LinesInv
<1> QED
  BY <1>5, <1>6, <1>7, <1>8

-----------------------------------------------------------------------------
(* What is wanted depends on the lines seen and the settings alone.        *)
LEMMA SameSeen ==
  ASSUME UNCHANGED <<seen, opt>>
  PROVE  /\ Selected' = Selected /\ Wanted' = Wanted /\ Reference' = Reference
         /\ Prints' <=> Prints
<1>1. Prints' <=> Prints
  BY DEF Prints
<1>2. Selected' = Selected
  BY DEF Selected
<1>3. Wanted' = Wanted
  BY <1>1, <1>2 DEF Wanted
<1>4. \A w, i : Due(i, w)' = Due(i, w)
  BY DEF Due, Gap, Neighbours, Separator, Line
<1>5. Reference' = Reference
  BY <1>3, <1>4 DEF Reference
<1> QED
  BY <1>1, <1>2, <1>3, <1>5

(* A step that leaves the lines alone. *)
LEMMA LinesStay ==
  ASSUME LinesInv, UNCHANGED <<opt, contextVars, k, binary>>, InFile' <=> InFile
  PROVE  LinesInv'
<1>1. UNCHANGED <<opt, seen, queue, tail, since_printed, first, first_global, out, k, binary>>
  BY DEF contextVars
<1>2. /\ Selected' = Selected /\ Wanted' = Wanted /\ Reference' = Reference
      /\ Prints' <=> Prints
  BY <1>1, SameSeen
<1>3. ThisFile' = ThisFile /\ (AsBinary' <=> AsBinary)
  BY <1>1 DEF ThisFile, AsBinary
<1>4. LinesType'
  BY <1>1 DEF LinesInv, LinesType
<1>5. ByFile'
  BY <1>1, <1>3 DEF LinesInv, ByFile
<1>6. Shown'
  BY <1>1, <1>2 DEF LinesInv, Shown
<1>7. Following'
  BY <1>1, <1>2, <1>3 DEF LinesInv, Following
<1>8. Waiting'
  BY <1>1, <1>2, <1>3 DEF LinesInv, Waiting
<1>9. Since'
  BY <1>1, <1>2, <1>3 DEF LinesInv, Since
<1> QED
  BY <1>4, <1>5, <1>6, <1>7, <1>8, <1>9 DEF LinesInv

(* A step that ends outside the files. *)
LEMMA LinesLeft ==
  ASSUME LinesInv, UNCHANGED <<opt, seen, tail, since_printed, first, first_global>>,
         seen \in Seq(SeenLine), k \in Nat, ~InFile', k' = k + 1 \/ (k' = k /\ ~InFile),
         queue' = <<>>, out' \in Seq(Entry), LinesOf(out') = LinesOf(out)
  PROVE  LinesInv'
<1>1. /\ Wanted' = Wanted /\ Reference' = Reference
      /\ Prints' <=> Prints
  BY SameSeen
<1>2. LinesType'
  <2>1. <<>> \in Seq(Nat)
    OBVIOUS
  <2> QED
    BY <2>1 DEF LinesInv, LinesType
<1>3. ByFile'
  <2> SUFFICES ASSUME NEW i \in 1 .. Len(seen) PROVE seen[i].file < k'
    BY DEF ByFile
  <2>1. seen[i].file < k \/ (InFile /\ seen[i].file = k)
    BY DEF LinesInv, ByFile
  <2>2. seen[i] \in SeenLine
    OBVIOUS
  <2>3. seen[i].file \in Nat
    BY <2>2 DEF SeenLine
  <2> QED
    BY <2>1, <2>3
<1>4. Shown'
  BY <1>1 DEF LinesInv, Shown
<1>5. Following' /\ Waiting' /\ Since'
  BY DEF Following, Waiting, Since
<1> QED
  BY <1>2, <1>3, <1>4, <1>5 DEF LinesInv

(* A file is begun. *)
LEMMA LinesBegin ==
  ASSUME LinesInv, ~InFile, StartFile, opt' = opt, k' = k, k \in Nat,
         seen \in Seq(SeenLine), opt.A \in Nat, opt.B \in Nat
  PROVE  LinesInv'
<1>1. /\ UNCHANGED <<opt, seen, queue, since_printed, first_global, out, k>>
      /\ tail' = 0 /\ first' = TRUE
  BY DEF StartFile
<1>2. /\ Selected' = Selected /\ Wanted' = Wanted /\ Reference' = Reference
      /\ Prints' <=> Prints
  BY <1>1, SameSeen
<1>3. Len(seen) \in Nat /\ \A i \in 1 .. Len(seen) : seen[i].file \in Nat /\ seen[i].file < k
  <2>1. \A i \in 1 .. Len(seen) : seen[i] \in SeenLine
    OBVIOUS
  <2>2. \A i \in 1 .. Len(seen) : seen[i].file < k
    BY DEF LinesInv, ByFile
  <2> QED
    BY <2>1, <2>2 DEF SeenLine
<1>4. ThisFile' = {}
  <2>1. \A i \in 1 .. Len(seen) : seen[i].file # k
    BY <1>3
  <2> QED
    BY <1>1, <2>1 DEF ThisFile
<1>5. queue = <<>> /\ Len(queue) = 0
  BY DEF LinesInv, Waiting
<1>6. LinesType'
  BY <1>1 DEF LinesInv, LinesType
<1>7. ByFile'
  BY <1>1, <1>3, <1>4 DEF ByFile
<1>8. Shown'
  BY <1>1, <1>2 DEF LinesInv, Shown
<1>9. Following'
  <2>1. \A d \in Nat \ {0} : ~(d <= 0)
    OBVIOUS
  <2> QED
    BY <1>1, <1>4, <2>1 DEF Following
<1>10. Waiting'
  <2> DEFINE n == Len(seen)
  <2>1. n \in Nat /\ 0 <= opt.B /\ 0 <= n /\ \A i \in (n - 0) + 1 .. n : FALSE
    BY <1>3
  <2> QED
    BY <1>1, <1>4, <1>5, <2>1 DEF Waiting
<1>11. Since'
  BY <1>1, <1>4 DEF Since
<1> QED
  BY <1>6, <1>7, <1>8, <1>9, <1>10, <1>11 DEF LinesInv

PrintingInv == CountingInv /\ opt.A \in Nat /\ opt.B \in Nat /\ LinesInv

(* Nothing is printed, and nothing is due.                                 *)
LEMMA InitPrinting == Init => PrintingInv
<1> SUFFICES ASSUME Init PROVE PrintingInv
  OBVIOUS
<1>1. CountingInv
  BY InitCounting
<1>2. PICK r \in Runs : opt = r.opt
  BY DEF Init
<1>3. opt.A \in Nat /\ opt.B \in Nat
  <2>1. opt \in Setting
    BY <1>2, RunsAssumption, SettingsAssumption
  <2> QED
    BY <2>1 DEF Setting
<1>4. /\ seen = <<>> /\ queue = <<>> /\ tail = 0 /\ since_printed = 0
      /\ first = FALSE /\ first_global = TRUE /\ out = <<>> /\ pc = "main"
  BY DEF Init, ContextInit
<1>5. ~InFile /\ Wanted = {}
  BY <1>4 DEF InFile, Wanted
<1>6. LinesType
  <2>1. <<>> \in Seq(Nat) /\ <<>> \in Seq(Entry)
    OBVIOUS
  <2> QED
    BY <1>4, <2>1 DEF LinesType
<1>7. Shown
  <2>1. Reference = FlattenSeq([i \in DOMAIN seen |-> Due(i, Wanted)])
    BY DEF Reference
  <2>2. [i \in DOMAIN seen |-> Due(i, Wanted)] = <<>>
    BY <1>4
  <2> QED
    BY <1>4, <1>5, <2>1, <2>2, FlattenEmpty, LinesOfEmpty DEF Shown
<1>8. ByFile /\ Following /\ Waiting /\ Since
  <2>1. \A i \in 1 .. Len(seen) : FALSE
    BY <1>4
  <2> QED
    BY <1>4, <1>5, <2>1 DEF ByFile, Following, Waiting, Since
<1> QED
  BY <1>1, <1>3, <1>6, <1>7, <1>8 DEF PrintingInv, LinesInv

(* What is said of the file when it is done. *)
LEMMA WhatIsSaid ==
  ASSUME k \in Nat, NEW a \in BOOLEAN, NEW b \in BOOLEAN, NEW f \in BOOLEAN, NEW g \in BOOLEAN
  PROVE  LET t == ((Said("count", a) \o Said("name", b)) \o Said("name", f)) \o Said("binary", g)
         IN  t \in Seq(Entry) /\ NoLines(t)
<1> DEFINE Good(t) == t \in Seq(Entry) /\ NoLines(t)
<1>1. \A s, t \in Seq(Entry) : NoLines(s) /\ NoLines(t) => s \o t \in Seq(Entry) /\ NoLines(s \o t)
  <2> SUFFICES ASSUME NEW s \in Seq(Entry), NEW t \in Seq(Entry), NoLines(s), NoLines(t)
               PROVE  s \o t \in Seq(Entry) /\ NoLines(s \o t)
    OBVIOUS
  <2>1. /\ s \o t \in Seq(Entry) /\ Len(s \o t) = Len(s) + Len(t)
        /\ Len(s) \in Nat /\ Len(t) \in Nat
        /\ \A i \in 1 .. Len(s) : (s \o t)[i] = s[i]
        /\ \A i \in Len(s) + 1 .. Len(s) + Len(t) : (s \o t)[i] = t[i - Len(s)]
    BY ConcatProperties
  <2>2. ASSUME NEW i \in 1 .. Len(s) + Len(t) PROVE ~IsLineEntry((s \o t)[i])
    <3>1. CASE i \in 1 .. Len(s)
      BY <2>1, <3>1 DEF NoLines
    <3>2. CASE i \in Len(s) + 1 .. Len(s) + Len(t)
      <4>1. i - Len(s) \in 1 .. Len(t)
        BY <2>1, <3>2
      <4> QED
        BY <2>1, <3>2, <4>1 DEF NoLines
    <3> QED
      BY <2>1, <2>2, <3>1, <3>2
  <2> QED
    BY <2>1, <2>2 DEF NoLines
<1>2. ASSUME NEW w \in {"count", "name", "binary"}, NEW x \in BOOLEAN PROVE Good(Said(w, x))
  <2> DEFINE e == [what |-> w, of |-> k]
  <2>1. e \in Entry
    BY DEF Entry
  <2>2. ~IsLineEntry(e)
    BY DEF IsLineEntry
  <2> HIDE DEF e
  <2>3. \A y \in Entry : ~IsLineEntry(y) => <<y>> \in Seq(Entry) /\ NoLines(<<y>>)
    BY DEF NoLines
  <2>4. <<>> \in Seq(Entry) /\ NoLines(<<>>)
    BY DEF NoLines
  <2> QED
    BY <2>1, <2>2, <2>3, <2>4 DEF Said, e
<1>3. \A s, t : Good(s) /\ Good(t) => Good(s \o t)
  BY <1>1
<1> HIDE DEF Good
<1>4. Good(Said("count", a)) /\ Good(Said("name", b)) /\ Good(Said("name", f)) /\ Good(Said("binary", g))
  BY <1>2
<1>5. Good(((Said("count", a) \o Said("name", b)) \o Said("name", f)) \o Said("binary", g))
  BY <1>3, <1>4, Zenon
<1> QED
  BY <1>5 DEF Good

(* Every step of grep keeps the invariant: one case for each action.       *)
LEMMA StepPrinting == ASSUME PrintingInv, [Next]_vars PROVE PrintingInv'
<1>0. /\ CountingInv /\ CountingInv' /\ opt' = opt /\ (k' = k \/ k' = k + 1)
      /\ opt.A \in Nat /\ opt.B \in Nat /\ LinesInv
  BY StepCounting, StepRun DEF RunUnchanged, PrintingInv
<1>a. k \in Nat /\ seen \in Seq(SeenLine)
  BY <1>0 DEF CountingInv, ReadingInv, RunType, Counting
<1>b. /\ ~InFile => queue = <<>>
      /\ out \in Seq(Entry)
      /\ (opt.B = 0 \/ ThisFile = {} => queue = <<>>)
  BY <1>0 DEF LinesInv, LinesType, Waiting
<1>c. SUFFICES LinesInv'
  BY <1>0 DEF PrintingInv
<1>d. ASSUME ~InFile, ~InFile', UNCHANGED contextVars
      PROVE  LinesInv'
  <2>1. UNCHANGED <<seen, queue, tail, since_printed, first, first_global, out>>
    BY <1>d DEF contextVars
  <2> QED
    BY <1>0, <1>a, <1>b, <1>d, <2>1, LinesLeft
<1>1. CASE Pass
  <2>1. pc = "main" /\ pc' = "main" /\ UNCHANGED contextVars
    BY <1>1 DEF Pass, AtName, Considered, Stated, Returns
  <2> QED
    BY <1>d, <2>1 DEF InFile
<1>2. CASE TreeError
  <2>1. pc = "main" /\ pc' = "exit" /\ UNCHANGED contextVars
    BY <1>2 DEF TreeError, AtName, Exit
  <2> QED
    BY <1>d, <2>1 DEF InFile
<1>3. CASE StatFails
  <2>1. pc = "main" /\ pc' \in {"main", "crash"} /\ UNCHANGED contextVars
    BY <1>3 DEF StatFails, AtName, Considered, Stated, Returns
  <2> QED
    BY <1>d, <2>1 DEF InFile
<1>4. CASE OpenFails
  <2>1. pc = "main" /\ pc' = "main" /\ UNCHANGED contextVars
    BY <1>4 DEF OpenFails, AtName, Considered, Stated, Returns
  <2> QED
    BY <1>d, <2>1 DEF InFile
<1>5. CASE OpenName
  <2>1. pc = "main" /\ pc' = "opening" /\ UNCHANGED contextVars
    BY <1>5 DEF OpenName, AtName, Considered, Stated
  <2> QED
    BY <1>d, <2>1 DEF InFile
<1>6. CASE Opening
  <2>1. pc = "opening"
    BY <1>6 DEF Opening
  <2>2. CASE io' = "closed" /\ Returns(0, FALSE) /\ UNCHANGED <<contextVars, c>>
    BY <1>d, <2>1, <2>2 DEF InFile, Returns
  <2>3. CASE StartFile /\ UNCHANGED <<operands, stdin, k, total, mcount, notfound, code>>
    BY <1>0, <1>a, <2>1, <2>3, LinesBegin DEF InFile
  <2> QED
    BY <1>6, <2>2, <2>3 DEF Opening
<1>7. CASE ReadLine
  <2>1. pc = "loop" /\ pc' = "line" /\ UNCHANGED <<opt, contextVars, k, binary>>
    BY <1>7 DEF ReadLine, CallFgetln
  <2> QED
    BY <1>0, <2>1, LinesStay DEF InFile
<1>8. CASE Reading
  <2>1. pc' = pc /\ UNCHANGED <<opt, contextVars, k>>
    BY <1>8 DEF Reading, mainVars
  <2>2. binary' = binary
    BY <1>8 DEF Reading, FillBuffer, TakeLine, StartLine, ContinueLine
  <2> QED
    BY <1>0, <2>1, <2>2, LinesStay DEF InFile
<1>9. CASE EndOfFile
  <2>1. pc \in {"loop", "line"} /\ pc' = "end" /\ UNCHANGED <<opt, contextVars, k, binary>>
    BY <1>9 DEF EndOfFile, HasReturned, inputVars
  <2> QED
    BY <1>0, <2>1, LinesStay DEF InFile
<1>10. CASE SkipBinary
  <2>1. /\ pc = "line" /\ pc' = "main" /\ k' = k + 1
        /\ binary /\ opt.bin = "SKIP" /\ UNCHANGED contextVars
    BY <1>10 DEF SkipBinary, HasReturned, Returns
  <2>2. ThisFile = {}
    BY <1>0, <2>1 DEF LinesInv, ByFile, InFile
  <2>3. UNCHANGED <<seen, queue, tail, since_printed, first, first_global, out>>
    BY <2>1 DEF contextVars
  <2>4. ~InFile'
    BY <2>1 DEF InFile
  <2> QED
    BY <1>0, <1>a, <1>b, <2>1, <2>2, <2>3, <2>4, LinesLeft
<1>11. CASE Selects
  <2> DEFINE hit == IsHit(dat)
             hidden == hit /\ binary /\ opt.bin = "BIN"
             e == [file |-> k, hit |-> hit, hidden |-> hidden]
  <2>1. /\ pc = "line" /\ ~(binary /\ opt.bin = "SKIP") /\ ProcLine(k, hit, binary)
        /\ pc' \in {"loop", "end"} /\ k' = k /\ binary' = binary
    BY <1>11 DEF Selects, HasReturned, Counted, inputVars
  <2>2. hit \in BOOLEAN /\ hidden \in BOOLEAN
    BY DEF IsHit
  <2>3. seen' = Append(seen, e)
    BY <2>1 DEF ProcLine
  <2>4. LET i == Len(seen) + 1
        IN  \/ hidden /\ BinaryMatch
            \/ ~hidden /\ hit /\ PrintMatch(i)
            \/ ~hidden /\ ~hit /\ PrintTail(i)
            \/ ~hidden /\ (~Prints \/ (~hit /\ tail = 0)) /\ Keep(i)
    BY <2>1 DEF ProcLine
  <2>5. hidden <=> hit /\ AsBinary
    BY DEF AsBinary
  <2> HIDE DEF hit, hidden
  <2>6. e \in SeenLine /\ e.file = k /\ e.hit = hit /\ e.hidden = hidden
    BY <1>a, <2>2 DEF SeenLine
  <2> HIDE DEF e
  <2>7. InFile /\ InFile'
    BY <2>1 DEF InFile
  <2>8. OneMore(e)
    BY <1>0, <1>a, <2>3, <2>6 DEF OneMore
  <2>9. Given(e)
    BY <1>a, <2>1, <2>2, <2>5, <2>6, <2>7, <2>8 DEF Given
  <2>10. LET i == Len(seen) + 1
         IN  \/ e.hidden /\ BinaryMatch
             \/ ~e.hidden /\ e.hit /\ PrintMatch(i)
             \/ ~e.hidden /\ ~e.hit /\ PrintTail(i)
             \/ ~e.hidden /\ (~Prints \/ (~e.hit /\ tail = 0)) /\ Keep(i)
    BY <2>4, <2>6
  <2> QED
    BY <1>0, <2>9, <2>10, GivenKeeps
<1>12. CASE FileDone
  <2> DEFINE a == opt.c /\ ~hflag
             b == opt.l /\ ~opt.q /\ c # 0
             f == opt.L /\ ~opt.q /\ c = 0
             g == c # 0 /\ ~opt.c /\ ~opt.l /\ ~opt.L /\ opt.bin = "BIN" /\ binary /\ ~opt.q
             said == ((Said("count", a) \o Said("name", b)) \o Said("name", f)) \o Said("binary", g)
  <2>1. pc = "end" /\ pc' = "main" /\ k' = k + 1 /\ EndFile(said)
    BY <1>12 DEF FileDone, Returns
  <2>2. a \in BOOLEAN /\ b \in BOOLEAN /\ f \in BOOLEAN /\ g \in BOOLEAN
    OBVIOUS
  <2>3. said \in Seq(Entry) /\ NoLines(said)
    <3> HIDE DEF a, b, f, g
    <3> QED
      BY <1>a, <2>2, WhatIsSaid
  <2> HIDE DEF said
  <2>4. out' = out \o said /\ UNCHANGED <<seen, tail, since_printed, first, first_global>>
    BY <2>1 DEF EndFile
  <2>5. out' \in Seq(Entry) /\ LinesOf(out') = LinesOf(out)
    BY <1>b, <2>3, <2>4, LinesOfNone
  <2>6. queue' = <<>>
    <3>1. opt.B > 0 \/ opt.B = 0
      BY <1>0
    <3> QED
      BY <1>b, <2>1, <3>1 DEF EndFile
  <2>7. ~InFile'
    BY <2>1 DEF InFile
  <2> QED
    BY <1>0, <1>a, <2>1, <2>4, <2>5, <2>6, <2>7, LinesLeft
<1>13. CASE Finish
  <2>1. pc = "main" /\ pc' = "exit" /\ UNCHANGED contextVars
    BY <1>13 DEF Finish, Exit
  <2> QED
    BY <1>d, <2>1 DEF InFile
<1>14. CASE UNCHANGED vars
  <2>1. pc' = pc /\ UNCHANGED <<opt, contextVars, k, binary>>
    BY <1>14 DEF vars, inputVars, mainVars
  <2> QED
    BY <1>0, <2>1, LinesStay DEF InFile
<1> QED
  BY <1>1, <1>2, <1>3, <1>4, <1>5, <1>6, <1>7, <1>8, <1>9, <1>10, <1>11, <1>12, <1>13, <1>14
     DEF Next

(* What grep prints is exactly the lines that are selected, with their     *)
(* context, each once and in order, and a mark between groups: for every   *)
(* setting, every operand and any number of files (util.c:336 to 358,      *)
(* queue.c:41).                                                            *)
THEOREM GrepShowsContext == Spec => []OutputExact
<1>1. Init => PrintingInv
  BY InitPrinting
<1>2. PrintingInv /\ [Next]_vars => PrintingInv'
  BY StepPrinting
<1>3. PrintingInv => OutputExact
  BY DEF PrintingInv, LinesInv, Shown, OutputExact
<1> QED
  BY <1>1, <1>2, <1>3, PTL DEF Spec

-----------------------------------------------------------------------------
(***************************************************************************)
(* The search for a literal pattern (GrepSearch), for every pattern and    *)
(* every line of bytes.                                                    *)
(***************************************************************************)
CONSTANTS Char, DOT, MAX_LINE_MATCHES

Quick == INSTANCE GrepSearch

(* A pattern and a line without NUL; behind the line is what ends it, and  *)
(* that is not in the pattern.                                             *)
Readable(pattern, line, behind) ==
  /\ pattern \in Seq(Char \ {NUL}) /\ pattern # <<>>
  /\ line \in Seq(Char \ {NUL})
  /\ behind \in Seq(Char) /\ behind # <<>>
  /\ \A i \in 1 .. Len(pattern) : pattern[i] # behind[1]

(* An occurrence, byte by byte.                                            *)
LEMMA OccursBytes ==
  ASSUME NEW pattern \in Seq(Char), NEW line \in Seq(Char), NEW o \in Nat
  PROVE  Quick!OccursAt(pattern, line, o) <=>
           /\ o + Len(pattern) <= Len(line)
           /\ \A i \in 1 .. Len(pattern) : line[o + i] = pattern[i]
<1>1. PICK m \in Nat : m = Len(pattern) /\ DOMAIN pattern = 1 .. m
  OBVIOUS
<1>2. CASE o + m <= Len(line)
  <2>1. PICK s : s = SubSeq(line, o + 1, o + m)
    OBVIOUS
  <2>2. s \in Seq(Char) /\ Len(s) = m /\ \A i \in 1 .. m : s[i] = line[o + i]
    <3>1. o + 1 \in 1 .. Len(line) + 1 /\ o + m \in 0 .. Len(line)
      BY <1>2
    <3>2. Len(s) = m
      BY <1>1, <2>1, <3>1
    <3>3. \A i \in 1 .. m : s[i] = line[o + i]
      BY <1>1, <2>1, <3>1
    <3>4. PICK a \in Int, b \in Int : a = o + 1 /\ b = o + m
      OBVIOUS
    <3>6. \A i \in a .. b : line[i] \in Char
      BY <1>2, <3>4
    <3>7. SubSeq(line, a, b) \in Seq(Char)
      BY <3>6, SubSeqProperties, Zenon
    <3>5. s \in Seq(Char)
      BY <2>1, <3>4, <3>7, Zenon
    <3> QED
      BY <3>2, <3>3, <3>5
  <2>3. s = pattern <=> \A i \in 1 .. m : s[i] = pattern[i]
    <3>1. ASSUME \A i \in 1 .. m : s[i] = pattern[i] PROVE s = pattern
      <4>1. Len(s) = Len(pattern) /\ \A i \in 1 .. Len(s) : s[i] = pattern[i]
        BY <1>1, <2>2, <3>1
      <4>2. s \in Seq(Char)
        BY <2>2
      <4> QED
        BY <4>1, <4>2, SeqEqual
    <3> QED
      BY <3>1, Zenon
  <2>4. Quick!OccursAt(pattern, line, o) <=> s = pattern
    BY <1>1, <1>2, <2>1 DEF Quick!OccursAt, Quick!Slice
  <2> QED
    BY <1>1, <1>2, <2>2, <2>3, <2>4
<1>3. CASE ~(o + m <= Len(line))
  BY <1>1, <1>3 DEF Quick!OccursAt
<1> QED
  BY <1>2, <1>3

(* The shift for a byte: never past the last place where the pattern has   *)
(* it (but the first), and 0 for NUL alone.                                *)
LEMMA ShiftFacts ==
  ASSUME NEW pattern \in Seq(Char \ {NUL}), pattern # <<>>, NEW byte, NEW shift,
         shift = Quick!Shift(Quick!FgrepComp(pattern), byte)
  PROVE  /\ shift \in 0 .. Len(pattern)
         /\ byte # NUL => /\ shift > 0
                          /\ \A i \in 1 .. Len(pattern) - 1 :
                               i > Len(pattern) - shift => pattern[i + 1] # byte
<1>1. PICK m \in Nat : m = Len(pattern) /\ m > 0 /\ DOMAIN pattern = 1 .. m
  OBVIOUS
<1> DEFINE last == Quick!LastBut(pattern, byte)
           table == Quick!ToSet(pattern) \cup {NUL}
           qsBc == [b \in table |->
                      IF Quick!LastBut(pattern, b) = {} THEN Len(pattern)
                      ELSE Len(pattern) - CHOOSE i \in Quick!LastBut(pattern, b) :
                                            \A j \in Quick!LastBut(pattern, b) : j <= i]
<1>2. last = {i \in 1 .. m : IF i = m THEN byte = NUL ELSE pattern[i + 1] = byte}
  BY <1>1 DEF Quick!LastBut, Quick!At
<1>3. shift = IF byte \in table THEN qsBc[byte] ELSE m
  <2>1. PICK fg : fg = Quick!FgrepComp(pattern)
    OBVIOUS
  <2>2. fg.pattern = pattern /\ fg.wild = FALSE /\ fg.qsBc = qsBc
    BY <2>1 DEF Quick!FgrepComp
  <2>3. shift = IF byte \in DOMAIN fg.qsBc THEN fg.qsBc[byte] ELSE Len(pattern)
    BY <2>1, <2>2 DEF Quick!Shift
  <2> HIDE DEF qsBc
  <2>4. DOMAIN qsBc = table
    BY DEF qsBc
  <2> QED
    BY <1>1, <2>2, <2>3, <2>4
<1> HIDE DEF last
<1>4. byte \in table =>
        qsBc[byte] = IF last = {} THEN m
                     ELSE m - CHOOSE i \in last : \A j \in last : j <= i
  BY <1>1 DEF last
<1>5. Quick!ToSet(pattern) = {pattern[i] : i \in 1 .. m}
  BY <1>1 DEF Quick!ToSet
<1>6. CASE byte \notin table \/ last = {}
  <2>1. shift = m
    BY <1>3, <1>4, <1>6
  <2>2. byte = NUL => FALSE
    BY <1>1, <1>2, <1>6
  <2>3. \A i \in 1 .. m - 1 : pattern[i + 1] # byte
    <3>1. CASE byte \notin table
      <4>1. \A i \in 1 .. m - 1 : i + 1 \in 1 .. m
        BY <1>1
      <4>2. byte \notin {pattern[i] : i \in 1 .. m}
        BY <1>5, <3>1
      <4> QED
        BY <4>1, <4>2
    <3>2. CASE last = {}
      <4> TAKE i \in 1 .. m - 1
      <4>1. i \in 1 .. m /\ i # m /\ i \notin last
        BY <1>1, <3>2
      <4> QED
        BY <1>2, <4>1
    <3> QED
      BY <1>6, <3>1, <3>2
  <2> QED
    BY <1>1, <2>1, <2>2, <2>3
<1>7. CASE byte \in table /\ last # {}
  <2>1. last \in SUBSET (1 .. m)
    BY <1>2
  <2>2. \E i \in last : \A j \in last : j <= i
    BY <1>1, <1>7, <2>1, GreatestElement
  <2>3. PICK i \in last : (\A j \in last : j <= i) /\ shift = m - i
    BY <1>3, <1>4, <1>7, <2>2
  <2>4. i \in 1 .. m
    BY <2>1
  <2>5. byte # NUL => i # m
    BY <1>2, <2>3
  <2>6. ASSUME byte # NUL, NEW j \in 1 .. m - 1, j > m - shift PROVE pattern[j + 1] # byte
    <3>1. j \notin last
      BY <1>1, <2>3, <2>4, <2>6
    <3> QED
      BY <1>1, <1>2, <2>6, <3>1
  <2> QED
    BY <1>1, <2>3, <2>4, <2>5, <2>6
<1> QED
  BY <1>6, <1>7
(* The line and what is behind it.                                         *)
Whole(pattern, line, behind, data) ==
  /\ data \in Seq(Char) /\ Len(data) >= Len(line) + 1
  /\ \A i \in 1 .. Len(line) : data[i] = line[i] /\ data[i] # NUL
  /\ data[Len(line) + 1] = behind[1]
  /\ pattern \in Seq(Char) /\ line \in Seq(Char) /\ Len(pattern) > 0

LEMMA DataFacts ==
  ASSUME NEW pattern, NEW line, NEW behind, Readable(pattern, line, behind)
  PROVE  Whole(pattern, line, behind, line \o behind)
<1>0. PICK data : data = line \o behind
  OBVIOUS
<1>1. /\ pattern \in Seq(Char \ {NUL}) /\ pattern # <<>>
      /\ line \in Seq(Char \ {NUL}) /\ behind \in Seq(Char) /\ behind # <<>>
  BY DEF Readable
<1>2. line \in Seq(Char) /\ pattern \in Seq(Char) /\ Len(pattern) > 0 /\ Len(behind) > 0
  BY <1>1
<1>3. data \in Seq(Char) /\ Len(data) = Len(line) + Len(behind)
  BY <1>0, <1>1, <1>2
<1>4. \A i \in 1 .. Len(line) : data[i] = line[i] /\ line[i] \in Char \ {NUL}
  BY <1>0, <1>1
<1>5. data[Len(line) + 1] = behind[1]
  BY <1>0, <1>1, <1>2
<1> QED
  BY <1>0, <1>2, <1>3, <1>4, <1>5 DEF Whole

(* The comparison at an offset in the line, which nothing stops at the     *)
(* line's end, finds an occurrence in the line or nothing.                 *)
LEMMA MatchIsOccurrence ==
  ASSUME NEW pattern, NEW line, NEW behind, Readable(pattern, line, behind),
         NEW j \in 0 .. Len(line), j < Len(line)
  PROVE  Quick!Matches(Quick!FgrepComp(pattern), line \o behind, j) <=>
           Quick!OccursAt(pattern, line, j)
<1>1. PICK data : data = line \o behind
  OBVIOUS
<1>2. /\ data \in Seq(Char) /\ Len(data) >= Len(line) + 1
      /\ \A i \in 1 .. Len(line) : data[i] = line[i] /\ data[i] # NUL
      /\ data[Len(line) + 1] = behind[1]
      /\ pattern \in Seq(Char) /\ line \in Seq(Char) /\ Len(pattern) > 0
  BY <1>1, DataFacts DEF Whole
<1>3. PICK m \in Nat, n \in Nat : m = Len(pattern) /\ n = Len(line) /\ m > 0
  <2>1. line \in Seq(Char) /\ pattern \in Seq(Char) /\ Len(pattern) > 0
    BY <1>2
  <2>2. Len(line) \in Nat /\ Len(pattern) \in Nat
    BY <2>1
  <2> QED
    BY <2>1, <2>2
<1>4. Quick!Matches(Quick!FgrepComp(pattern), data, j) <=>
        \A i \in 0 .. m - 1 : data[j + i + 1] = pattern[i + 1]
  <2>1. PICK fg : fg = Quick!FgrepComp(pattern)
    OBVIOUS
  <2>2. fg.pattern = pattern /\ fg.wild = FALSE
    BY <2>1 DEF Quick!FgrepComp
  <2> QED
    BY <1>3, <2>1, <2>2 DEF Quick!Matches, Quick!At
<1>5. (\A i \in 0 .. m - 1 : data[j + i + 1] = pattern[i + 1]) <=>
        \A i \in 1 .. m : data[j + i] = pattern[i]
  <2>1. ASSUME \A i \in 0 .. m - 1 : data[j + i + 1] = pattern[i + 1], NEW i \in 1 .. m
        PROVE  data[j + i] = pattern[i]
    <3>1. i - 1 \in 0 .. m - 1 /\ j + (i - 1) + 1 = j + i /\ (i - 1) + 1 = i
      BY <1>3
    <3> QED
      BY <2>1, <3>1
  <2>2. ASSUME \A i \in 1 .. m : data[j + i] = pattern[i], NEW i \in 0 .. m - 1
        PROVE  data[j + i + 1] = pattern[i + 1]
    <3>1. i + 1 \in 1 .. m /\ j + (i + 1) = j + i + 1
      BY <1>3
    <3> QED
      BY <2>2, <3>1
  <2> QED
    BY <2>1, <2>2
<1>6. Quick!OccursAt(pattern, line, j) <=>
        j + m <= n /\ \A i \in 1 .. m : line[j + i] = pattern[i]
  <2>1. j \in Nat
    BY <1>3
  <2> QED
    BY <1>2, <1>3, <2>1, OccursBytes
<1>7. CASE j + m <= n
  <2>1. \A i \in 1 .. m : data[j + i] = line[j + i]
    BY <1>2, <1>3, <1>7
  <2>2. (\A i \in 1 .. m : data[j + i] = pattern[i])
          <=> \A i \in 1 .. m : line[j + i] = pattern[i]
    BY <2>1
  <2> QED
    BY <1>1, <1>4, <1>5, <1>6, <1>7, <2>2, Zenon
<1>8. CASE j + m > n
  <2>1. n + 1 - j \in 1 .. m /\ j + (n + 1 - j) = n + 1
    BY <1>3, <1>8
  <2>2. pattern[n + 1 - j] # behind[1]
    BY <1>3, <2>1 DEF Readable
  <2>3. ~(\A i \in 1 .. m : data[j + i] = pattern[i])
    BY <1>2, <1>3, <2>1, <2>2
  <2>4. ~Quick!Matches(Quick!FgrepComp(pattern), data, j)
    BY <1>4, <1>5, <2>3, Zenon
  <2>5. ~(j + m <= n)
    BY <1>3, <1>8
  <2> QED
    BY <1>1, <1>6, <2>4, <2>5, Zenon
<1> QED
  BY <1>3, <1>7, <1>8

(* No occurrence begins where the window jumps over: it would have the     *)
(* byte behind the window, and have it nearer to its end than the pattern. *)
LEMMA ShiftSkipsNone ==
  ASSUME NEW pattern, NEW line, NEW behind, Readable(pattern, line, behind),
         NEW j \in 0 .. Len(line), ~Quick!OccursAt(pattern, line, j),
         j + Len(pattern) < Len(line), NEW shift,
         shift = Quick!Shift(Quick!FgrepComp(pattern),
                             Quick!At(line \o behind, j + Len(pattern)))
  PROVE  /\ shift \in 1 .. Len(pattern)
         /\ \A p \in j .. j + shift - 1 : ~Quick!OccursAt(pattern, line, p)
<1>1. PICK data : data = line \o behind
  OBVIOUS
<1>2. /\ data \in Seq(Char) /\ Len(data) >= Len(line) + 1
      /\ \A i \in 1 .. Len(line) : data[i] = line[i] /\ data[i] # NUL
      /\ pattern \in Seq(Char) /\ line \in Seq(Char) /\ Len(pattern) > 0
  BY <1>1, DataFacts DEF Whole
<1>3. PICK m \in Nat, n \in Nat : m = Len(pattern) /\ n = Len(line) /\ m > 0
  <2>1. line \in Seq(Char) /\ pattern \in Seq(Char) /\ Len(pattern) > 0
    BY <1>2
  <2>2. Len(line) \in Nat /\ Len(pattern) \in Nat
    BY <2>1
  <2> QED
    BY <2>1, <2>2
<1>4. PICK byte : byte = Quick!At(data, j + m)
  OBVIOUS
<1>5. byte = line[j + m + 1] /\ byte # NUL
  <2>1. j + m + 1 \in 1 .. n
    BY <1>3
  <2> QED
    BY <1>2, <1>3, <1>4, <2>1 DEF Quick!At
<1>6. pattern \in Seq(Char \ {NUL}) /\ pattern # <<>>
  BY DEF Readable
<1>7. shift = Quick!Shift(Quick!FgrepComp(pattern), byte)
  BY <1>1, <1>3, <1>4
<1>8. /\ shift \in 0 .. m /\ shift > 0
      /\ \A i \in 1 .. m - 1 : i > m - shift => pattern[i + 1] # byte
  BY <1>3, <1>5, <1>6, <1>7, ShiftFacts
<1>9. ASSUME NEW p \in j .. j + shift - 1, Quick!OccursAt(pattern, line, p) PROVE FALSE
  <2>1. p \in Nat /\ p # j
    BY <1>9
  <2>2. \A i \in 1 .. m : line[p + i] = pattern[i]
    BY <1>2, <1>3, <1>9, <2>1, OccursBytes
  <2>3. PICK i \in Int : i = j + m - p
    BY <1>3, <2>1
  <2>4. i \in 1 .. m - 1 /\ i > m - shift /\ i + 1 \in 1 .. m /\ p + (i + 1) = j + m + 1
    BY <1>3, <1>8, <1>9, <2>1, <2>3
  <2>5. line[p + (i + 1)] = pattern[i + 1]
    BY <2>2, <2>4
  <2> QED
    BY <1>5, <1>8, <2>4, <2>5
<1> QED
  BY <1>3, <1>8, <1>9

-----------------------------------------------------------------------------
(* What grep_search() should say from the offset j on: no occurrence from  *)
(* there, or the first.                                                    *)
FirstFrom(pattern, line, j, r) ==
  \/ r = Quick!NOMATCH /\ \A p \in j .. Len(line) : ~Quick!OccursAt(pattern, line, p)
  \/ \E o \in j .. Len(line) :
       /\ r = [so |-> o, eo |-> o + Len(pattern)]
       /\ Quick!OccursAt(pattern, line, o)
       /\ \A p \in j .. o - 1 : ~Quick!OccursAt(pattern, line, p)

LEMMA FirstExists ==
  ASSUME NEW pattern, NEW line, NEW n \in Nat, n = Len(line), NEW j \in 0 .. n
  PROVE  \E r : FirstFrom(pattern, line, j, r)
<1> DEFINE T == {p \in j .. n : Quick!OccursAt(pattern, line, p)}
<1>1. CASE T = {}
  <2>1. FirstFrom(pattern, line, j, Quick!NOMATCH)
    BY <1>1 DEF FirstFrom
  <2> QED
    BY <2>1
<1>2. CASE T # {}
  <2>1. T \subseteq Nat
    OBVIOUS
  <2>2. PICK o \in T : \A p \in T : o <= p
    BY <1>2, <2>1, LeastElement
  <2>3. \A p \in j .. o - 1 : ~Quick!OccursAt(pattern, line, p)
    BY <2>2
  <2>4. FirstFrom(pattern, line, j, [so |-> o, eo |-> o + Len(pattern)])
    BY <2>2, <2>3 DEF FirstFrom
  <2> QED
    BY <2>4
<1> QED
  BY <1>1, <1>2

LEMMA FirstUnique ==
  ASSUME NEW pattern, NEW line, NEW n \in Nat, n = Len(line), NEW j \in 0 .. n,
         NEW r, NEW s, FirstFrom(pattern, line, j, r), FirstFrom(pattern, line, j, s)
  PROVE  r = s
<1> DEFINE At(o) == /\ Quick!OccursAt(pattern, line, o)
                    /\ \A p \in j .. o - 1 : ~Quick!OccursAt(pattern, line, p)
           None == \A p \in j .. n : ~Quick!OccursAt(pattern, line, p)
<1>1. (r = Quick!NOMATCH /\ None)
      \/ \E o \in j .. n : r = [so |-> o, eo |-> o + Len(pattern)] /\ At(o)
  BY DEF FirstFrom
<1>2. (s = Quick!NOMATCH /\ None)
      \/ \E o \in j .. n : s = [so |-> o, eo |-> o + Len(pattern)] /\ At(o)
  BY DEF FirstFrom
<1>3. ~(None /\ \E o \in j .. n : At(o))
  OBVIOUS
<1>4. ASSUME NEW o \in j .. n, NEW p \in j .. n, At(o), At(p) PROVE o = p
  <2>1. ~(o < p) /\ ~(p < o)
    BY <1>4
  <2> QED
    BY <2>1
<1> HIDE DEF At, None
<1>5. CASE None
  BY <1>1, <1>2, <1>3, <1>5
<1>6. CASE ~None
  BY <1>1, <1>2, <1>4, <1>6
<1> QED
  BY <1>5, <1>6

(* One turn of the loop of grep_search() at the offset j, where f is what  *)
(* it says from later offsets.                                             *)
Turn(fg, data, n, f, j) ==
  IF Quick!Matches(fg, data, j) THEN [so |-> j, eo |-> j + Len(fg.pattern)]
  ELSE IF j + Len(fg.pattern) = n THEN Quick!NOMATCH
  ELSE LET shift == Quick!Shift(fg, Quick!At(data, j + Len(fg.pattern)))
       IN  IF j + shift > n - Len(fg.pattern) THEN Quick!NOMATCH
           ELSE IF shift = 0 THEN Quick!FOREVER ELSE f[j + shift]

(* Where the window ends behind the line there is no second turn.          *)
LEMMA LastTurn ==
  ASSUME NEW pattern, NEW line, NEW behind, Readable(pattern, line, behind),
         NEW n \in Nat, n = Len(line), NEW j \in Nat, j + Len(pattern) > n,
         NEW f
  PROVE  Turn(Quick!FgrepComp(pattern), line \o behind, n, f, j) =
           IF Quick!Matches(Quick!FgrepComp(pattern), line \o behind, j)
           THEN [so |-> j, eo |-> j + Len(pattern)] ELSE Quick!NOMATCH
<1>1. PICK fg, data : fg = Quick!FgrepComp(pattern) /\ data = line \o behind
  OBVIOUS
<1>2. fg.pattern = pattern
  BY <1>1 DEF Quick!FgrepComp
<1>3. PICK m \in Nat : m = Len(pattern)
  BY DEF Readable
<1>4. PICK shift : shift = Quick!Shift(fg, Quick!At(data, j + m))
  OBVIOUS
<1>5. shift \in 0 .. m
  BY <1>1, <1>3, <1>4, ShiftFacts DEF Readable
<1>6. j + shift > n - m /\ j + m # n
  BY <1>3, <1>5
<1> QED
  BY <1>1, <1>2, <1>3, <1>4, <1>6 DEF Turn

(* A turn is right if the later ones are.                                  *)
LEMMA TurnRight ==
  ASSUME NEW pattern, NEW line, NEW behind, Readable(pattern, line, behind),
         NEW n \in Nat, n = Len(line), NEW j \in Nat, j < n, NEW f,
         \A i \in 0 .. n - 1 : i > j => FirstFrom(pattern, line, i, f[i])
  PROVE  FirstFrom(pattern, line, j, Turn(Quick!FgrepComp(pattern), line \o behind, n, f, j))
<1>1. PICK fg, data : fg = Quick!FgrepComp(pattern) /\ data = line \o behind
  OBVIOUS
<1>2. fg.pattern = pattern
  BY <1>1 DEF Quick!FgrepComp
<1>3. PICK m \in Nat : m = Len(pattern) /\ m > 0
  BY DEF Readable
<1>4. Quick!Matches(fg, data, j) <=> Quick!OccursAt(pattern, line, j)
  BY <1>1, MatchIsOccurrence
<1>5. \A p \in Nat : Quick!OccursAt(pattern, line, p) => p + m <= n
  BY <1>3 DEF Quick!OccursAt
<1>6. PICK r : r = Turn(fg, data, n, f, j)
  OBVIOUS
<1>7. CASE Quick!OccursAt(pattern, line, j)
  <2>1. r = [so |-> j, eo |-> j + m]
    BY <1>2, <1>3, <1>4, <1>6, <1>7 DEF Turn
  <2>2. j \in j .. n /\ \A p \in j .. j - 1 : FALSE
    OBVIOUS
  <2> QED
    BY <1>1, <1>3, <1>6, <1>7, <2>1, <2>2 DEF FirstFrom
<1>8. CASE ~Quick!OccursAt(pattern, line, j)
  <2>1. CASE j + m >= n
    <3>1. \A p \in j .. n : p # j => ~(p + m <= n)
      BY <1>3, <2>1
    <3>2. \A p \in j .. n : ~Quick!OccursAt(pattern, line, p)
      BY <1>5, <1>8, <3>1
    <3>3. r = Quick!NOMATCH
      <4>1. CASE j + m = n
        BY <1>2, <1>3, <1>4, <1>6, <1>8, <4>1 DEF Turn
      <4>2. CASE j + m > n
        BY <1>1, <1>3, <1>4, <1>6, <1>8, <4>2, LastTurn
      <4>3. PICK e \in Nat : e = j + m
        BY <1>3
      <4>4. e >= n
        BY <2>1, <4>3
      <4>5. e = n \/ e > n
        BY <4>4
      <4> QED
        BY <4>1, <4>2, <4>3, <4>5, Zenon
    <3> QED
      BY <1>1, <1>6, <3>2, <3>3 DEF FirstFrom
  <2>2. CASE j + m < n
    <3>1. PICK shift : shift = Quick!Shift(fg, Quick!At(data, j + m))
      OBVIOUS
    <3>2. /\ shift \in 1 .. m
          /\ \A p \in j .. j + shift - 1 : ~Quick!OccursAt(pattern, line, p)
      BY <1>1, <1>3, <1>8, <2>2, <3>1, ShiftSkipsNone
    <3>3. r = IF j + shift > n - m THEN Quick!NOMATCH ELSE f[j + shift]
      BY <1>2, <1>3, <1>4, <1>6, <1>8, <2>2, <3>1, <3>2 DEF Turn
    <3>4. CASE j + shift > n - m
      <4>1. \A p \in j .. n : ~Quick!OccursAt(pattern, line, p)
        <5> TAKE p \in j .. n
        <5>1. p \in j .. j + shift - 1 \/ ~(p + m <= n)
          BY <1>3, <3>2, <3>4
        <5> QED
          BY <1>5, <3>2, <5>1
      <4> QED
        BY <1>1, <1>6, <3>3, <3>4, <4>1 DEF FirstFrom
    <3>5. CASE ~(j + shift > n - m)
      <4>1. PICK i \in 0 .. n - 1 : i = j + shift /\ i > j
        BY <1>3, <3>2, <3>5
      <4>2. FirstFrom(pattern, line, i, r)
        BY <3>3, <3>5, <4>1
      <4>3. CASE r = Quick!NOMATCH /\ \A p \in i .. n : ~Quick!OccursAt(pattern, line, p)
        <5>1. \A p \in j .. n : p \in j .. j + shift - 1 \/ p \in i .. n
          BY <1>3, <3>2, <4>1
        <5>2. \A p \in j .. n : ~Quick!OccursAt(pattern, line, p)
          BY <3>2, <4>3, <5>1
        <5> QED
          BY <1>1, <1>6, <4>3, <5>2 DEF FirstFrom
      <4>4. ASSUME NEW o \in i .. n, r = [so |-> o, eo |-> o + Len(pattern)],
                   Quick!OccursAt(pattern, line, o),
                   \A p \in i .. o - 1 : ~Quick!OccursAt(pattern, line, p)
            PROVE  FirstFrom(pattern, line, j, r)
        <5>1. o \in j .. n
          BY <4>1
        <5>2. \A p \in j .. o - 1 : p \in j .. j + shift - 1 \/ p \in i .. o - 1
          BY <1>3, <3>2, <4>1
        <5>3. \A p \in j .. o - 1 : ~Quick!OccursAt(pattern, line, p)
          BY <3>2, <4>4, <5>2
        <5> QED
          BY <4>4, <5>1, <5>3 DEF FirstFrom
      <4> QED
        BY <1>1, <1>6, <4>2, <4>3, <4>4 DEF FirstFrom
    <3> QED
      BY <1>3, <3>2, <3>4, <3>5
  <2> QED
    BY <1>3, <2>1, <2>2
<1> QED
  BY <1>7, <1>8

IsSearch(fg, data, n, from) ==
  from = CHOOSE h : h = [j \in 0 .. Len(data) |-> Turn(fg, data, n, h, j)]

(* The search is well defined, and right from every offset in the line.    *)
LEMMA SearchRight ==
  ASSUME NEW pattern, NEW line, NEW behind, Readable(pattern, line, behind),
         NEW n \in Nat, n = Len(line), NEW fg, fg = Quick!FgrepComp(pattern),
         NEW data, data = line \o behind, NEW from, IsSearch(fg, data, n, from)
  PROVE  \A j \in 0 .. n - 1 : FirstFrom(pattern, line, j, from[j])
<1>1. Len(data) \in Nat /\ Len(data) > n
  BY DataFacts DEF Whole, Readable
<1>2. PICK m \in Nat : m = Len(pattern) /\ m > 0
  BY DEF Readable
<1> DEFINE D == 0 .. Len(data)
<1> DEFINE Late(j) == IF Quick!Matches(fg, data, j)
                      THEN [so |-> j, eo |-> j + m] ELSE Quick!NOMATCH
           g == [j \in D |-> IF j < n THEN CHOOSE r : FirstFrom(pattern, line, j, r)
                             ELSE Late(j)]
<1>3. \A j \in 0 .. n - 1 : FirstFrom(pattern, line, j, g[j])
  <2> TAKE j \in 0 .. n - 1
  <2>1. g[j] = CHOOSE r : FirstFrom(pattern, line, j, r)
    BY <1>1
  <2>2. \E r : FirstFrom(pattern, line, j, r)
    <3>1. j \in 0 .. n
      OBVIOUS
    <3> HIDE DEF g
    <3> QED
      BY <3>1, FirstExists
  <2> HIDE DEF g
  <2> QED
    BY <2>1, <2>2, Zenon
<1>11. \A j \in D : ~(j < n) => g[j] = Late(j)
  OBVIOUS
<1>12. g = [j \in D |-> g[j]]
  OBVIOUS
<1> HIDE DEF g
<1>4. \A j \in D : g[j] = Turn(fg, data, n, g, j)
  <2> TAKE j \in D
  <2>1. CASE j < n
    <3>0. j \in Nat /\ j \in 0 .. n /\ j \in 0 .. n - 1
      BY <1>1, <2>1
    <3>1. FirstFrom(pattern, line, j, g[j])
      BY <1>3, <3>0
    <3>2. FirstFrom(pattern, line, j, Turn(fg, data, n, g, j))
      BY <1>3, <2>1, <3>0, TurnRight
    <3> QED
      BY <3>0, <3>1, <3>2, FirstUnique
  <2>2. CASE ~(j < n)
    <3>3. g[j] = Late(j)
      BY <1>11, <2>2
    <3>4. j \in Nat /\ j >= n
      BY <1>1, <2>2
    <3>1. g[j] = Late(j) /\ j \in Nat /\ j + m > n
      BY <1>2, <3>3, <3>4
    <3>2. Turn(fg, data, n, g, j) = Late(j)
      BY <1>2, <3>1, LastTurn
    <3> QED
      BY <3>1, <3>2
  <2> QED
    BY <2>1, <2>2
<1>5. g = [j \in D |-> Turn(fg, data, n, g, j)]
  BY <1>4, <1>12
<1>6. from = [j \in D |-> Turn(fg, data, n, from, j)]
  <2> DEFINE Is(h) == h = [j \in D |-> Turn(fg, data, n, h, j)]
  <2>1. from = CHOOSE h : Is(h)
    BY DEF IsSearch
  <2>2. Is(g)
    BY <1>5
  <2> HIDE DEF Is
  <2>3. Is(from)
    BY <2>1, <2>2, Zenon
  <2> QED
    BY <2>3 DEF Is
<1>7. \A j \in 0 .. n - 1 : from[j] = Turn(fg, data, n, from, j)
  <2>1. \A j \in D : from[j] = Turn(fg, data, n, from, j)
    BY <1>6
  <2>2. 0 .. n - 1 \subseteq D
    BY <1>1
  <2> HIDE DEF D
  <2> QED
    BY <2>1, <2>2
<1> DEFINE T == {i \in Nat : \A j \in 0 .. n - 1 : j >= n - i =>
                              FirstFrom(pattern, line, j, from[j])}
<1>8. 0 \in T
  OBVIOUS
<1>9. ASSUME NEW i \in Nat, i \in T PROVE i + 1 \in T
  <2>1. SUFFICES ASSUME NEW j \in 0 .. n - 1, j >= n - (i + 1)
                 PROVE  FirstFrom(pattern, line, j, from[j])
    OBVIOUS
  <2>2. \A k1 \in 0 .. n - 1 : k1 > j => FirstFrom(pattern, line, k1, from[k1])
    BY <1>9, <2>1
  <2>3. FirstFrom(pattern, line, j, Turn(fg, data, n, from, j))
    BY <2>2, TurnRight
  <2> QED
    BY <1>7, <2>3
<1>10. n \in T
  BY <1>8, <1>9, NatInd
<1> QED
  BY <1>10

(* A search for a literal pattern ends, and finds the first occurrence     *)
(* from the offset it is given, or nothing if there is none: the table     *)
(* jumps over no occurrence, and what is behind the line is never part of  *)
(* one (fastgrep.c:29, 151, 220 to 234).  For every pattern and line       *)
(* without NUL, whatever their length; the pattern is not empty and has    *)
(* not the byte that ends the line.                                        *)
THEOREM SearchFindsFirst ==
  ASSUME NEW pattern, NEW line, NEW behind, Readable(pattern, line, behind),
         NEW rm_so \in 0 .. Len(line)
  PROVE  FirstFrom(pattern, line, rm_so,
                   Quick!Search(Quick!FgrepComp(pattern), line \o behind, Len(line), rm_so))
<1>1. PICK fg, data : fg = Quick!FgrepComp(pattern) /\ data = line \o behind
  OBVIOUS
<1>2. PICK n \in Nat, m \in Nat : n = Len(line) /\ m = Len(pattern) /\ m > 0 /\ rm_so \in 0 .. n
  BY DEF Readable
<1>3. fg.pattern = pattern
  BY <1>1 DEF Quick!FgrepComp
<1>4. PICK from : IsSearch(fg, data, n, from)
  BY DEF IsSearch
<1>5. Quick!Search(fg, data, n, rm_so) =
        IF rm_so = n \/ n < m THEN Quick!NOMATCH ELSE from[rm_so]
  BY <1>2, <1>3, <1>4 DEF Quick!Search, IsSearch, Turn
<1>6. CASE rm_so = n \/ n < m
  <2>1. \A p \in rm_so .. n : ~(p + m <= n)
    BY <1>2, <1>6
  <2>2. \A p \in rm_so .. n : ~Quick!OccursAt(pattern, line, p)
    BY <1>2, <2>1 DEF Quick!OccursAt
  <2> QED
    BY <1>1, <1>2, <1>5, <1>6, <2>2 DEF FirstFrom
<1>7. CASE ~(rm_so = n \/ n < m)
  <2>1. \A j \in 0 .. n - 1 : FirstFrom(pattern, line, j, from[j])
    BY <1>1, <1>2, <1>4, SearchRight
  <2>2. rm_so \in 0 .. n - 1
    BY <1>2, <1>7
  <2> QED
    BY <1>1, <1>2, <1>5, <1>7, <2>1, <2>2
<1> QED
  BY <1>6, <1>7
=============================================================================
