-------------------------- MODULE RingBufferProofs ---------------------------
(***************************************************************************)
(* Proofs about RingBuffer, for every Size and every length of transfer:   *)
(* its type invariant, and that the array with its two positions           *)
(* implements the queue of BoundedFifo.                                    *)
(***************************************************************************)
EXTENDS RingBuffer, FifoOpsProofs

LEMMA SizeType == Size \in Nat \ {0}
BY SizeAssumption

-----------------------------------------------------------------------------
(* Masking.                                                                *)

\* What masking does to a position that is off by at most one lap.
LEMMA MaskedValue ==
  ASSUME NEW x \in Int, -Size <= x, x < 2 * Size
  PROVE  /\ Masked(x) = IF x < 0 THEN x + Size ELSE IF x < Size THEN x ELSE x - Size
         /\ Masked(x) \in Index
<1> USE SizeType
<1>1. CASE x < 0
  <2>1. x % Size = x + Size
    BY <1>1
  <2> QED  BY <1>1, <2>1 DEF Masked, Index
<1>2. CASE 0 <= x /\ x < Size
  <2>1. x % Size = x
    BY <1>2
  <2> QED  BY <1>2, <2>1 DEF Masked, Index
<1>3. CASE Size <= x
  <2>1. x % Size = x - Size
    BY <1>3
  <2> QED  BY <1>3, <2>1 DEF Masked, Index
<1> QED  BY <1>1, <1>2, <1>3

\* How many bytes two positions delimit.
LEMMA Distance ==
  ASSUME NEW w \in Index, NEW r \in Index
  PROVE  /\ Masked(w - r) = IF w < r THEN w - r + Size ELSE w - r
         /\ Masked(w - r) \in Index
<1> DEFINE x == w - r
<1>1. w \in Int /\ r \in Int /\ x \in Int /\ -Size <= x /\ x < 2 * Size /\ Size \in Nat
  BY SizeType DEF Index
<1>2. x < Size
  BY SizeType DEF Index
<1>3. /\ Masked(x) = IF x < 0 THEN x + Size ELSE IF x < Size THEN x ELSE x - Size
      /\ Masked(x) \in Index
  <2> HIDE DEF x
  <2> QED  BY <1>1, MaskedValue
<1> QED  BY <1>1, <1>2, <1>3

LEMMA ReadAvailableValue ==
  ASSUME TypeOK
  PROVE  /\ ReadAvailable = IF WritePos < ReadPos THEN WritePos - ReadPos + Size
                                                  ELSE WritePos - ReadPos
         /\ ReadAvailable \in Index
         /\ WriteAvailable \in Index
         /\ WriteAvailable = Size - 1 - ReadAvailable
<1>1. WritePos \in Index /\ ReadPos \in Index /\ Size \in Nat \ {0}
  BY SizeType DEF TypeOK
<1>2. /\ ReadAvailable = IF WritePos < ReadPos THEN WritePos - ReadPos + Size
                                               ELSE WritePos - ReadPos
      /\ ReadAvailable \in Index
  BY <1>1, Distance DEF ReadAvailable
<1> QED  BY <1>1, <1>2 DEF WriteAvailable, Index

\* The queue: its type, its length and its elements.
LEMMA ContentsProperties ==
  ASSUME TypeOK
  PROVE  /\ Contents \in Seq(Byte)
         /\ Len(Contents) = ReadAvailable
         /\ \A i \in 1..ReadAvailable :
              /\ ReadPos + i - 1 \in Int /\ -Size <= ReadPos + i - 1
              /\ ReadPos + i - 1 < 2 * Size
              /\ Contents[i] = Buffer[Masked(ReadPos + i - 1)]
<1>1. /\ ReadPos \in Index /\ ReadAvailable \in Index /\ Size \in Nat \ {0}
      /\ Buffer \in [Index -> Byte]
  BY ReadAvailableValue, SizeType DEF TypeOK
<1>2. ReadAvailable \in Nat
  BY <1>1 DEF Index
<1>3. ASSUME NEW i \in 1..ReadAvailable
      PROVE  /\ ReadPos + i - 1 \in Int /\ -Size <= ReadPos + i - 1
             /\ ReadPos + i - 1 < 2 * Size
  BY <1>1 DEF Index
<1>4. \A i \in 1..ReadAvailable : Masked(ReadPos + i - 1) \in Index
  BY <1>3, MaskedValue
<1>5. Contents \in [1..ReadAvailable -> Byte]
  BY <1>1, <1>4 DEF Contents
<1>6. Contents \in Seq(Byte) /\ Len(Contents) = ReadAvailable
  BY <1>2, <1>5
<1> QED  BY <1>3, <1>6 DEF Contents

-----------------------------------------------------------------------------
(* Type correctness.                                                       *)

LEMMA TypeInit == Init => TypeOK
<1>1. <<>> \in Seq(Byte)
  BY EmptySeq
<1> QED  BY <1>1, SizeType, ByteAssumption DEF Init, TypeOK, Index

\* The data a caller passes is a sequence of bytes.
LEMMA DataType ==
  ASSUME NEW len \in 1..MaxLen, NEW data \in [1..len -> Byte]
  PROVE  data \in Seq(Byte) /\ Len(data) = len /\ len \in Nat \ {0}
BY LenAssumption

\* How much a write copies, and in which two pieces.
LEMMA WriteSizes ==
  ASSUME TypeOK, NEW len \in Nat \ {0},
         NEW tw, tw = Lesser(len, WriteAvailable),
         NEW fc, fc = Lesser(tw, Size - WritePos)
  PROVE  /\ tw \in Nat /\ tw <= len /\ tw <= Size - 1 - ReadAvailable
         /\ fc \in Nat /\ fc <= tw /\ WritePos + fc <= Size
         /\ fc < tw => fc = Size - WritePos
<1>1. /\ WritePos \in Index /\ WriteAvailable \in Index /\ Size \in Nat \ {0}
      /\ WriteAvailable = Size - 1 - ReadAvailable
  BY ReadAvailableValue, SizeType DEF TypeOK
<1>2. tw \in Nat /\ tw <= len /\ tw <= WriteAvailable
  BY <1>1 DEF Lesser, Index
<1>3. fc \in Nat /\ fc <= tw /\ WritePos + fc <= Size /\ (fc < tw => fc = Size - WritePos)
  BY <1>1, <1>2 DEF Lesser, Index
<1> QED  BY <1>1, <1>2, <1>3

LEMMA TypeWrite ==
  ASSUME TypeOK, NEW len \in 1..MaxLen, NEW data \in [1..len -> Byte], Write(data)
  PROVE  TypeOK'
<1> DEFINE tw == Lesser(Len(data), WriteAvailable)
           fc == Lesser(tw, Size - WritePos)
<1>1. data \in Seq(Byte) /\ Len(data) = len /\ len \in Nat \ {0}
  BY DataType
<1>2. /\ tw \in Nat /\ tw <= len /\ tw <= Size - 1 - ReadAvailable
      /\ fc \in Nat /\ fc <= tw /\ WritePos + fc <= Size
      /\ fc < tw => fc = Size - WritePos
  BY <1>1, WriteSizes
<1>3. /\ Buffer' = [k \in Index |->
           IF k \in WritePos..(WritePos + fc - 1) THEN data[k - WritePos + 1]
           ELSE IF k < tw - fc THEN data[fc + k + 1]
           ELSE Buffer[k]]
      /\ WritePos' = Masked(WritePos + tw)
      /\ moved' = SubSeq(data, 1, tw)
      /\ ReadPos' = ReadPos
  BY DEF Write
<1>4. /\ WritePos \in Index /\ ReadAvailable \in Index /\ Size \in Nat \ {0}
      /\ Buffer \in [Index -> Byte]
  BY ReadAvailableValue, SizeType DEF TypeOK
<1> HIDE DEF tw, fc
<1>5. Buffer' \in [Index -> Byte]
  <2> SUFFICES ASSUME NEW k \in Index
               PROVE  (IF k \in WritePos..(WritePos + fc - 1) THEN data[k - WritePos + 1]
                       ELSE IF k < tw - fc THEN data[fc + k + 1]
                       ELSE Buffer[k]) \in Byte
    BY <1>3
  <2>1. CASE k \in WritePos..(WritePos + fc - 1)
    <3>1. k - WritePos + 1 \in 1..len
      BY <1>1, <1>2, <1>4, <2>1 DEF Index
    <3> QED  BY <2>1, <3>1
  <2>2. CASE k \notin WritePos..(WritePos + fc - 1) /\ k < tw - fc
    <3>1. fc + k + 1 \in 1..len
      BY <1>1, <1>2, <1>4, <2>2 DEF Index
    <3> QED  BY <2>2, <3>1
  <2>3. CASE k \notin WritePos..(WritePos + fc - 1) /\ ~(k < tw - fc)
    BY <1>4, <2>3
  <2> QED  BY <2>1, <2>2, <2>3
<1>6. WritePos' \in Index
  <2>1. WritePos + tw \in Int /\ -Size <= WritePos + tw /\ WritePos + tw < 2 * Size
    BY <1>2, <1>4 DEF Index
  <2> QED  BY <1>3, <2>1, MaskedValue
<1>7. moved' \in Seq(Byte)
  <2>1. \A i \in 1..tw : data[i] \in Byte
    BY <1>1, <1>2
  <2> QED  BY <1>2, <1>3, <2>1, SubSeqProperties
<1> QED  BY <1>3, <1>5, <1>6, <1>7 DEF TypeOK

\* How much a read copies, and in which two pieces.
LEMMA ReadSizes ==
  ASSUME TypeOK, NEW n \in Nat,
         NEW tr, tr = Lesser(n, ReadAvailable),
         NEW fc, fc = Lesser(tr, Size - ReadPos)
  PROVE  /\ tr \in Nat /\ tr <= ReadAvailable
         /\ fc \in Nat /\ fc <= tr /\ ReadPos + fc <= Size
         /\ fc < tr => fc = Size - ReadPos
<1>1. ReadPos \in Index /\ ReadAvailable \in Index /\ Size \in Nat \ {0}
  BY ReadAvailableValue, SizeType DEF TypeOK
<1>2. tr \in Nat /\ tr <= ReadAvailable
  BY <1>1 DEF Lesser, Index
<1>3. fc \in Nat /\ fc <= tr /\ ReadPos + fc <= Size /\ (fc < tr => fc = Size - ReadPos)
  BY <1>1, <1>2 DEF Lesser, Index
<1> QED  BY <1>2, <1>3

\* Either piece of a read copies what the queue has at that place.
LEMMA ReadCopies ==
  ASSUME TypeOK, NEW n \in Nat, Read(n)
  PROVE  /\ moved' = [i \in 1..Lesser(n, ReadAvailable) |-> Contents[i]]
         /\ ReadPos' = Masked(ReadPos + Lesser(n, ReadAvailable))
         /\ Buffer' = Buffer /\ WritePos' = WritePos
<1> DEFINE tr == Lesser(n, ReadAvailable)
           fc == Lesser(tr, Size - ReadPos)
<1>1. /\ tr \in Nat /\ tr <= ReadAvailable
      /\ fc \in Nat /\ fc <= tr /\ ReadPos + fc <= Size
      /\ fc < tr => fc = Size - ReadPos
  BY ReadSizes
<1>2. /\ moved' = [i \in 1..tr |-> IF i <= fc THEN Buffer[ReadPos + i - 1]
                                              ELSE Buffer[i - fc - 1]]
      /\ ReadPos' = Masked(ReadPos + tr)
      /\ Buffer' = Buffer /\ WritePos' = WritePos
  BY DEF Read
<1>3. ReadPos \in Index /\ ReadAvailable \in Index /\ Size \in Nat \ {0}
  BY ReadAvailableValue, SizeType DEF TypeOK
<1> HIDE DEF tr, fc
<1>4. ASSUME NEW i \in 1..tr
      PROVE  (IF i <= fc THEN Buffer[ReadPos + i - 1] ELSE Buffer[i - fc - 1]) = Contents[i]
  <2>1. i \in 1..ReadAvailable
    BY <1>1, <1>3 DEF Index
  <2> DEFINE x == ReadPos + i - 1
  <2>2. x \in Int /\ -Size <= x /\ x < 2 * Size /\ Contents[i] = Buffer[Masked(x)]
    BY <2>1, ContentsProperties
  <2>3. Masked(x) = IF x < 0 THEN x + Size ELSE IF x < Size THEN x ELSE x - Size
    <3> HIDE DEF x
    <3> QED  BY <2>2, MaskedValue
  <2>4. CASE i <= fc
    <3>1. Masked(x) = ReadPos + i - 1
      BY <1>1, <1>3, <2>3, <2>4 DEF Index
    <3> QED  BY <2>2, <2>4, <3>1
  <2>5. CASE ~(i <= fc)
    <3>1. Masked(x) = i - fc - 1
      BY <1>1, <1>3, <2>3, <2>5 DEF Index
    <3> QED  BY <2>2, <2>5, <3>1
  <2> QED  BY <2>4, <2>5
<1>5. moved' = [i \in 1..tr |-> Contents[i]]
  BY <1>2, <1>4
<1> QED  BY <1>2, <1>5 DEF tr

LEMMA TypeRead ==
  ASSUME TypeOK, NEW n \in Nat, Read(n)
  PROVE  TypeOK'
<1> DEFINE tr == Lesser(n, ReadAvailable)
<1>1. /\ moved' = [i \in 1..tr |-> Contents[i]] /\ ReadPos' = Masked(ReadPos + tr)
      /\ Buffer' = Buffer /\ WritePos' = WritePos
  BY ReadCopies
<1>2. ReadPos \in Index /\ ReadAvailable \in Index /\ Size \in Nat \ {0}
  BY ReadAvailableValue, SizeType DEF TypeOK
<1>3. tr \in Nat /\ tr <= ReadAvailable
  BY <1>2 DEF Lesser, Index
<1> HIDE DEF tr
<1>4. ReadPos' \in Index
  <2>1. ReadPos + tr \in Int /\ -Size <= ReadPos + tr /\ ReadPos + tr < 2 * Size
    BY <1>2, <1>3 DEF Index
  <2> QED  BY <1>1, <2>1, MaskedValue
<1>5. moved' \in Seq(Byte)
  <2>1. \A i \in 1..tr : Contents[i] \in Byte
    BY <1>2, <1>3, ContentsProperties, ElementOfSeq DEF Index
  <2>2. moved' \in [1..tr -> Byte]
    BY <1>1, <2>1
  <2> QED  BY <1>3, <2>2
<1> QED  BY <1>1, <1>4, <1>5 DEF TypeOK

LEMMA TypeStep == TypeOK /\ [Next]_vars => TypeOK'
<1> SUFFICES ASSUME TypeOK, [Next]_vars PROVE TypeOK'
  OBVIOUS
<1>1. ASSUME NEW len \in 1..MaxLen, NEW data \in [1..len -> Byte], Write(data)
      PROVE  TypeOK'
  BY <1>1, TypeWrite
<1>2. ASSUME NEW n \in 1..MaxLen, Read(n)
      PROVE  TypeOK'
  <2>1. n \in Nat
    BY LenAssumption
  <2> QED  BY <1>2, <2>1, TypeRead
<1>3. CASE Flush
  <2>1. <<>> \in Seq(Byte)
    BY EmptySeq
  <2> QED  BY <1>3, <2>1 DEF Flush, TypeOK
<1>4. CASE UNCHANGED vars
  BY <1>4 DEF vars, TypeOK
<1> QED  BY <1>1, <1>2, <1>3, <1>4 DEF Next

\* Both positions stay below Size and the array holds bytes, however the
\* calls are mixed (the Mask of every position update in ringbuf.h).
THEOREM TypeCorrect == Spec => []TypeOK
BY TypeInit, TypeStep, PTL DEF Spec

-----------------------------------------------------------------------------
(* The array implements the queue.                                         *)

\* Putting the positions of two states together: what is delimited after the
\* write position has moved on by tw, or the read position by tr.
LEMMA AvailableAfterWrite ==
  ASSUME TypeOK, TypeOK', NEW tw \in Nat, tw <= Size - 1 - ReadAvailable,
         WritePos' = Masked(WritePos + tw), ReadPos' = ReadPos
  PROVE  ReadAvailable' = ReadAvailable + tw
<1> DEFINE x == WritePos + tw
<1>1. /\ WritePos \in Index /\ ReadPos \in Index /\ Size \in Nat \ {0}
      /\ ReadAvailable = IF WritePos < ReadPos THEN WritePos - ReadPos + Size
                                               ELSE WritePos - ReadPos
  BY ReadAvailableValue, SizeType DEF TypeOK
<1>2. ReadAvailable' = IF WritePos' < ReadPos' THEN WritePos' - ReadPos' + Size
                                               ELSE WritePos' - ReadPos'
  BY Distance DEF ReadAvailable, TypeOK
<1>3. x \in Int /\ -Size <= x /\ x < 2 * Size
  BY <1>1 DEF Index
<1>4. WritePos' = IF x < 0 THEN x + Size ELSE IF x < Size THEN x ELSE x - Size
  <2> HIDE DEF x
  <2>1. Masked(x) = IF x < 0 THEN x + Size ELSE IF x < Size THEN x ELSE x - Size
    BY <1>3, MaskedValue
  <2> QED  BY <2>1 DEF x
<1> QED  BY <1>1, <1>2, <1>4 DEF Index

LEMMA AvailableAfterRead ==
  ASSUME TypeOK, TypeOK', NEW tr \in Nat, tr <= ReadAvailable,
         ReadPos' = Masked(ReadPos + tr), WritePos' = WritePos
  PROVE  /\ ReadAvailable' = ReadAvailable - tr
         /\ ReadPos' = IF ReadPos + tr < Size THEN ReadPos + tr ELSE ReadPos + tr - Size
<1> DEFINE x == ReadPos + tr
<1>1. /\ WritePos \in Index /\ ReadPos \in Index /\ Size \in Nat \ {0}
      /\ ReadAvailable = IF WritePos < ReadPos THEN WritePos - ReadPos + Size
                                               ELSE WritePos - ReadPos
  BY ReadAvailableValue, SizeType DEF TypeOK
<1>2. ReadAvailable' = IF WritePos' < ReadPos' THEN WritePos' - ReadPos' + Size
                                               ELSE WritePos' - ReadPos'
  BY Distance DEF ReadAvailable, TypeOK
<1>3. x \in Int /\ -Size <= x /\ x < 2 * Size
  BY <1>1 DEF Index
<1>4. ReadPos' = IF x < 0 THEN x + Size ELSE IF x < Size THEN x ELSE x - Size
  <2> HIDE DEF x
  <2>1. Masked(x) = IF x < 0 THEN x + Size ELSE IF x < Size THEN x ELSE x - Size
    BY <1>3, MaskedValue
  <2> QED  BY <2>1 DEF x
<1> QED  BY <1>1, <1>2, <1>4 DEF Index

\* The queue that an array, a read position and a length make up.
LEMMA QueueOf ==
  ASSUME NEW b \in [Index -> Byte], NEW r \in Index, NEW m \in Index
  PROVE  /\ [i \in 1..m |-> b[Masked(r + i - 1)]] \in Seq(Byte)
         /\ Len([i \in 1..m |-> b[Masked(r + i - 1)]]) = m
<1> DEFINE q == [i \in 1..m |-> b[Masked(r + i - 1)]]
<1>1. m \in Nat /\ r \in Nat /\ r < Size /\ m < Size /\ Size \in Nat
  BY SizeType DEF Index
<1>2. ASSUME NEW i \in 1..m
      PROVE  Masked(r + i - 1) \in Index
  <2> DEFINE x == r + i - 1
  <2>1. x \in Int /\ -Size <= x /\ x < 2 * Size
    BY <1>1
  <2> HIDE DEF x
  <2>2. Masked(x) \in Index
    BY <2>1, MaskedValue
  <2> QED  BY <2>2 DEF x
<1>3. q \in [1..m -> Byte]
  BY <1>2
<1> HIDE DEF q
<1>4. q \in Seq(Byte) /\ Len(q) = m
  BY <1>1, <1>3
<1> QED  BY <1>4 DEF q

LEMMA NextContents ==
  ASSUME TypeOK'
  PROVE  /\ Contents' = [i \in 1..ReadAvailable' |-> Buffer'[Masked(ReadPos' + i - 1)]]
         /\ Contents' \in Seq(Byte)
         /\ Len(Contents') = ReadAvailable'
<1>1. ReadAvailable' \in Index
  BY Distance DEF ReadAvailable, TypeOK
<1>2. Contents' = [i \in 1..ReadAvailable' |-> Buffer'[Masked(ReadPos' + i - 1)]]
  BY DEF Contents
<1>3. Buffer' \in [Index -> Byte] /\ ReadPos' \in Index
  BY DEF TypeOK
<1>4. /\ [i \in 1..ReadAvailable' |-> Buffer'[Masked(ReadPos' + i - 1)]] \in Seq(Byte)
      /\ Len([i \in 1..ReadAvailable' |-> Buffer'[Masked(ReadPos' + i - 1)]]) = ReadAvailable'
  BY <1>1, <1>3, QueueOf
<1> QED  BY <1>2, <1>4

\* A write leaves what is queued and puts the data behind it, whichever way
\* it wraps.
LEMMA WriteCopies ==
  ASSUME TypeOK, NEW len \in 1..MaxLen, NEW data \in [1..len -> Byte], Write(data),
         NEW tw, tw = Lesser(len, WriteAvailable),
         NEW i \in 1..(ReadAvailable + tw)
  PROVE  Buffer'[Masked(ReadPos + i - 1)] =
           IF i <= ReadAvailable THEN Contents[i] ELSE data[i - ReadAvailable]
<1> DEFINE fc == Lesser(tw, Size - WritePos)
           x == ReadPos + i - 1
           k == Masked(x)
<1>1. data \in Seq(Byte) /\ Len(data) = len /\ len \in Nat \ {0}
  BY DataType
<1>2. /\ tw \in Nat /\ tw <= len /\ tw <= Size - 1 - ReadAvailable
      /\ fc \in Nat /\ fc <= tw /\ WritePos + fc <= Size
      /\ fc < tw => fc = Size - WritePos
  BY <1>1, WriteSizes
<1>3. Buffer' = [j \in Index |->
           IF j \in WritePos..(WritePos + fc - 1) THEN data[j - WritePos + 1]
           ELSE IF j < tw - fc THEN data[fc + j + 1]
           ELSE Buffer[j]]
  BY <1>1 DEF Write
<1>4. /\ WritePos \in Index /\ ReadPos \in Index /\ Size \in Nat \ {0}
      /\ ReadAvailable = IF WritePos < ReadPos THEN WritePos - ReadPos + Size
                                               ELSE WritePos - ReadPos
      /\ ReadAvailable \in Index
  BY ReadAvailableValue, SizeType DEF TypeOK
<1> HIDE DEF fc
<1>5. x \in Int /\ -Size <= x /\ x < 2 * Size
  BY <1>2, <1>4 DEF Index
<1>6. /\ k = IF x < 0 THEN x + Size ELSE IF x < Size THEN x ELSE x - Size
      /\ k \in Index
  <2> HIDE DEF x
  <2> QED  BY <1>5, MaskedValue
<1>7. i \in Int /\ 1 <= i /\ i <= ReadAvailable + tw
  BY <1>2, <1>4 DEF Index
<1> HIDE DEF k
<1>8. CASE i <= ReadAvailable
  <2>1. k \notin WritePos..(WritePos + fc - 1) /\ ~(k < tw - fc)
    BY <1>2, <1>4, <1>6, <1>7, <1>8 DEF Index
  <2>2. Buffer'[k] = Buffer[k]
    BY <1>3, <1>6, <2>1
  <2>3. Contents[i] = Buffer[k]
    <3>1. i \in 1..ReadAvailable
      BY <1>4, <1>7, <1>8 DEF Index
    <3> QED  BY <3>1, ContentsProperties DEF k
  <2> QED  BY <1>8, <2>2, <2>3 DEF k
<1>9. CASE ~(i <= ReadAvailable) /\ i - ReadAvailable <= fc
  <2>1. k \in WritePos..(WritePos + fc - 1) /\ k - WritePos + 1 = i - ReadAvailable
    BY <1>2, <1>4, <1>6, <1>7, <1>9 DEF Index
  <2>2. Buffer'[k] = data[i - ReadAvailable]
    BY <1>3, <1>6, <2>1
  <2> QED  BY <1>9, <2>2 DEF k
<1>10. CASE ~(i <= ReadAvailable) /\ ~(i - ReadAvailable <= fc)
  <2>1. /\ k \notin WritePos..(WritePos + fc - 1) /\ k < tw - fc
        /\ fc + k + 1 = i - ReadAvailable
    BY <1>2, <1>4, <1>6, <1>7, <1>10 DEF Index
  <2>2. Buffer'[k] = data[i - ReadAvailable]
    BY <1>3, <1>6, <2>1
  <2> QED  BY <1>10, <2>2 DEF k
<1> QED  BY <1>8, <1>9, <1>10

LEMMA WriteImplementsPut ==
  ASSUME TypeOK, TypeOK', NEW len \in 1..MaxLen, NEW data \in [1..len -> Byte], Write(data)
  PROVE  Fifo!Put(data)
<1> DEFINE tw == Lesser(len, WriteAvailable)
           accepted == SubSeq(data, 1, tw)
<1>1. data \in Seq(Byte) /\ Len(data) = len /\ len \in Nat \ {0}
  BY DataType
<1>2. tw \in Nat /\ tw <= len /\ tw <= Size - 1 - ReadAvailable
  BY <1>1, WriteSizes
<1>3. ReadAvailable \in Nat /\ WriteAvailable = Size - 1 - ReadAvailable /\ Size \in Nat
  BY ReadAvailableValue, SizeType DEF Index
<1>4. Contents \in Seq(Byte) /\ Len(Contents) = ReadAvailable
  BY ContentsProperties
<1>5. moved' = accepted /\ WritePos' = Masked(WritePos + tw) /\ ReadPos' = ReadPos
  BY <1>1 DEF Write
<1>6. Fifo!Take(data, Size - 1 - Len(Contents)) = accepted
  <2>1. Fifo!Lesser(Size - 1 - Len(Contents), Len(data)) = tw
    BY <1>1, <1>3, <1>4 DEF Fifo!Lesser, Lesser
  <2> QED  BY <2>1 DEF Fifo!Take
<1>7. /\ accepted \in Seq(Byte) /\ Len(accepted) = tw
      /\ \A i \in 1..tw : accepted[i] = data[i]
  <2>1. \A i \in 1..tw : data[i] \in Byte
    BY <1>1, <1>2
  <2> HIDE DEF tw
  <2>2. /\ accepted \in Seq(Byte) /\ Len(accepted) = IF 1 <= tw THEN tw - 1 + 1 ELSE 0
        /\ \A i \in 1..(tw - 1 + 1) : accepted[i] = data[1 + i - 1]
    BY <1>2, <2>1, SubSeqProperties
  <2>3. Len(accepted) = tw
    BY <1>2, <2>2
  <2>4. \A i \in 1..tw : accepted[i] = data[i]
    BY <1>2, <2>2
  <2> QED  BY <2>2, <2>3, <2>4
<1>8. ReadAvailable' = ReadAvailable + tw
  BY <1>2, <1>5, AvailableAfterWrite
<1>9. /\ Contents' = [i \in 1..ReadAvailable' |-> Buffer'[Masked(ReadPos' + i - 1)]]
      /\ Contents' \in Seq(Byte) /\ Len(Contents') = ReadAvailable'
  BY NextContents
<1>10. /\ Contents \o accepted \in Seq(Byte)
       /\ Len(Contents \o accepted) = ReadAvailable + tw
       /\ \A i \in 1..(ReadAvailable + tw) : (Contents \o accepted)[i] =
            IF i <= ReadAvailable THEN Contents[i] ELSE accepted[i - ReadAvailable]
  <2> HIDE DEF accepted
  <2>1. Contents \in Seq(Byte) /\ accepted \in Seq(Byte)
    BY <1>4, <1>7
  <2>2. /\ Contents \o accepted \in Seq(Byte)
        /\ Len(Contents \o accepted) = Len(Contents) + Len(accepted)
        /\ \A i \in 1..(Len(Contents) + Len(accepted)) : (Contents \o accepted)[i] =
             IF i <= Len(Contents) THEN Contents[i] ELSE accepted[i - Len(Contents)]
    BY <2>1, ConcatProperties
  <2>3. Len(Contents) = ReadAvailable /\ Len(accepted) = tw
    BY <1>4, <1>7
  <2> QED  BY <2>2, <2>3
<1>11. \A i \in 1..(ReadAvailable + tw) : Buffer'[Masked(ReadPos + i - 1)] =
         IF i <= ReadAvailable THEN Contents[i] ELSE data[i - ReadAvailable]
  BY WriteCopies
<1> HIDE DEF tw, accepted
<1>12. ASSUME NEW i \in 1..(ReadAvailable + tw)
       PROVE  Contents'[i] = (Contents \o accepted)[i]
  <2>1. Contents'[i] = Buffer'[Masked(ReadPos + i - 1)]
    BY <1>5, <1>8, <1>9
  <2>2. CASE i <= ReadAvailable
    BY <1>10, <1>11, <2>1, <2>2
  <2>3. CASE ~(i <= ReadAvailable)
    <3>1. i - ReadAvailable \in 1..tw
      BY <1>2, <1>3, <2>3
    <3> QED  BY <1>7, <1>10, <1>11, <2>1, <2>3, <3>1
  <2> QED  BY <2>2, <2>3
<1>13. Contents' = Contents \o accepted
  <2> DEFINE a == Contents'
             b == Contents \o accepted
  <2>1. a \in Seq(Byte) /\ b \in Seq(Byte) /\ Len(a) = Len(b)
    BY <1>8, <1>9, <1>10
  <2>2. \A i \in 1..Len(a) : a[i] = b[i]
    BY <1>8, <1>9, <1>12
  <2> HIDE DEF a, b
  <2>3. a = b
    BY <2>1, <2>2, SeqEqual
  <2> QED  BY <2>3 DEF a, b
<1> QED  BY <1>5, <1>6, <1>13 DEF Fifo!Put

LEMMA ReadImplementsGet ==
  ASSUME TypeOK, TypeOK', NEW n \in Nat, Read(n)
  PROVE  Fifo!Get(n)
<1> DEFINE tr == Lesser(n, ReadAvailable)
<1>1. /\ moved' = [i \in 1..tr |-> Contents[i]] /\ ReadPos' = Masked(ReadPos + tr)
      /\ Buffer' = Buffer /\ WritePos' = WritePos
  BY ReadCopies
<1>2. ReadPos \in Index /\ ReadAvailable \in Index /\ Size \in Nat \ {0} /\ ReadAvailable \in Nat
  BY ReadAvailableValue, SizeType DEF TypeOK, Index
<1>3. tr \in Nat /\ tr <= ReadAvailable
  BY <1>2 DEF Lesser, Index
<1>4. Contents \in Seq(Byte) /\ Len(Contents) = ReadAvailable
  BY ContentsProperties
<1>5. Fifo!Take(Contents, n) = Take(Contents, n) /\ Fifo!Drop(Contents, n) = Drop(Contents, n)
  BY DEF Fifo!Take, Fifo!Drop, Fifo!Lesser, Take, Drop, Lesser
<1>6. /\ Take(Contents, n) \in Seq(Byte) /\ Len(Take(Contents, n)) = tr
      /\ \A i \in 1..tr : Take(Contents, n)[i] = Contents[i]
  BY <1>4, TakeProperties
<1>7. /\ Drop(Contents, n) \in Seq(Byte) /\ Len(Drop(Contents, n)) = ReadAvailable - tr
      /\ \A i \in 1..(ReadAvailable - tr) : Drop(Contents, n)[i] = Contents[tr + i]
  BY <1>4, DropProperties
<1>8. /\ ReadAvailable' = ReadAvailable - tr
      /\ ReadPos' = IF ReadPos + tr < Size THEN ReadPos + tr ELSE ReadPos + tr - Size
  BY <1>1, <1>3, AvailableAfterRead
<1>9. /\ Contents' = [i \in 1..ReadAvailable' |-> Buffer'[Masked(ReadPos' + i - 1)]]
      /\ Contents' \in Seq(Byte) /\ Len(Contents') = ReadAvailable'
  BY NextContents
<1> HIDE DEF tr
<1>10. moved' = Take(Contents, n)
  <2> DEFINE b == Take(Contents, n)
  <2>1. moved' \in Seq(Byte) /\ moved' = [i \in 1..tr |-> Contents[i]]
    BY <1>1 DEF TypeOK
  <2>2. Len(moved') = tr
    BY <1>3, <2>1
  <2> HIDE DEF b
  <2>3. moved' = b
    BY <1>6, <2>1, <2>2, SeqEqual DEF b
  <2> QED  BY <2>3 DEF b
<1>11. ASSUME NEW i \in 1..(ReadAvailable - tr)
       PROVE  Contents'[i] = Contents[tr + i]
  <2> DEFINE x == ReadPos' + i - 1
             y == ReadPos + (tr + i) - 1
  <2>1. tr + i \in 1..ReadAvailable
    BY <1>2, <1>3
  <2>2. /\ x \in Int /\ -Size <= x /\ x < 2 * Size
        /\ y \in Int /\ -Size <= y /\ y < 2 * Size
        /\ (y = x /\ x < Size) \/ (y = x + Size /\ 0 <= x /\ x < Size) \/ (x = y /\ Size <= x)
    BY <1>2, <1>3, <1>8 DEF Index
  <2>3. Contents'[i] = Buffer[Masked(x)]
    BY <1>1, <1>8, <1>9
  <2>4. Contents[tr + i] = Buffer[Masked(y)]
    BY <2>1, ContentsProperties
  <2> HIDE DEF x, y
  <2>5. Masked(x) = Masked(y)
    <3>1. Masked(x) = IF x < 0 THEN x + Size ELSE IF x < Size THEN x ELSE x - Size
      BY <2>2, MaskedValue
    <3>2. Masked(y) = IF y < 0 THEN y + Size ELSE IF y < Size THEN y ELSE y - Size
      BY <2>2, MaskedValue
    <3> QED  BY <1>2, <2>2, <3>1, <3>2
  <2> QED  BY <2>3, <2>4, <2>5
<1>12. Contents' = Drop(Contents, n)
  <2> DEFINE a == Contents'
             b == Drop(Contents, n)
  <2>1. a \in Seq(Byte) /\ b \in Seq(Byte) /\ Len(a) = Len(b) /\ Len(a) = ReadAvailable - tr
    BY <1>7, <1>8, <1>9
  <2>2. \A i \in 1..Len(a) : a[i] = b[i]
    BY <1>7, <1>11, <2>1
  <2> HIDE DEF a, b
  <2>3. a = b
    BY <2>1, <2>2, SeqEqual
  <2> QED  BY <2>3 DEF a, b
<1> QED  BY <1>5, <1>10, <1>12 DEF Fifo!Get

\* Equal positions delimit nothing.
LEMMA NothingQueued ==
  ASSUME WritePos = ReadPos, WritePos \in Index, Buffer \in [Index -> Byte]
  PROVE  Contents = <<>>
<1>1. ReadAvailable = 0 /\ 0 \in Index
  <2>1. ReadAvailable = Masked(0) /\ Size \in Nat \ {0}
    BY SizeType DEF ReadAvailable, Index
  <2> QED  BY <2>1, MaskedValue DEF Index
<1>2. Contents \in Seq(Byte) /\ Len(Contents) = 0
  BY <1>1, QueueOf DEF Contents
<1> QED  BY <1>2, EmptySeq

LEMMA FlushImplementsDiscard ==
  ASSUME TypeOK, TypeOK', Flush
  PROVE  Fifo!Discard
<1>1. WritePos' = ReadPos' /\ moved' = <<>>
  BY DEF Flush
<1>2. ReadAvailable' = 0
  BY <1>1, Distance DEF ReadAvailable, TypeOK, Index
<1>3. Contents' \in Seq(Byte) /\ Len(Contents') = 0
  BY <1>2, NextContents
<1>4. Contents' = <<>>
  BY <1>3, EmptySeq
<1> QED  BY <1>1, <1>4 DEF Fifo!Discard

\* Whatever the positions and however a transfer wraps, the array behaves as
\* a queue of Size - 1 bytes, for every Size, every set of bytes and every
\* length of transfer (GcomRingWrite, GcomRingRead, GcomRingFlush).
THEOREM ArrayIsAQueue == Spec => ImplementsFifo
<1>1. Init => Fifo!Init
  <2> SUFFICES ASSUME Init PROVE Fifo!Init
    OBVIOUS
  <2>1. TypeOK /\ WritePos = ReadPos /\ moved = <<>>
    BY TypeInit DEF Init
  <2>2. Contents = <<>>
    BY <2>1, NothingQueued DEF TypeOK
  <2> QED  BY <2>1, <2>2 DEF Fifo!Init
<1>2. TypeOK /\ TypeOK' /\ [Next]_vars => [Fifo!Next]_(Fifo!vars)
  <2> SUFFICES ASSUME TypeOK, TypeOK', [Next]_vars PROVE [Fifo!Next]_(Fifo!vars)
    OBVIOUS
  <2>1. ASSUME NEW len \in 1..MaxLen, NEW data \in [1..len -> Byte], Write(data)
        PROVE  Fifo!Next
    BY <2>1, WriteImplementsPut DEF Fifo!Next
  <2>2. ASSUME NEW n \in 1..MaxLen, Read(n)
        PROVE  Fifo!Next
    <3>1. n \in Nat
      BY LenAssumption
    <3> QED  BY <2>2, <3>1, ReadImplementsGet DEF Fifo!Next
  <2>3. CASE Flush
    BY <2>3, FlushImplementsDiscard DEF Fifo!Next
  <2>4. CASE UNCHANGED vars
    BY <2>4 DEF vars, Fifo!vars, Contents, ReadAvailable
  <2> QED  BY <2>1, <2>2, <2>3, <2>4 DEF Next
<1> QED  BY <1>1, <1>2, TypeCorrect, PTL DEF Spec, ImplementsFifo, Fifo!Spec

=============================================================================
