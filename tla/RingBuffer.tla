----------------------------- MODULE RingBuffer ------------------------------
(***************************************************************************)
(* The circular buffer of driver/src/ringbuf.h: an array of Size bytes, a  *)
(* write position and a read position, both kept below Size by masking.    *)
(* Every call runs under the port pair's DataLock, so a call is one step.  *)
(* One slot stays unused so that equal positions mean empty.               *)
(***************************************************************************)
EXTENDS FifoOps

CONSTANTS
  Byte,    (* the bytes that travel; memory starts zeroed                  *)
  Size,    (* GCOM_RING_BUFFER.Size                                        *)
  MaxLen   (* longest transfer a caller asks for; bounds the model         *)

\* GcomRingInit refuses a Size that is not a power of two.
ASSUME SizeAssumption == /\ Size \in Nat \ {0}
                         /\ \E k \in 0..Size : 2^k = Size
ASSUME ByteAssumption == 0 \in Byte /\ Byte \subseteq Nat
ASSUME LenAssumption == MaxLen \in Nat \ {0}

VARIABLES
  Buffer,    (* the storage, indexed from 0 as in C                        *)
  WritePos,
  ReadPos,
  moved      (* the bytes the last call copied in or out                   *)

vars == <<Buffer, WritePos, ReadPos, moved>>

Index == 0..(Size - 1)

\* x & Mask, where Mask = Size - 1 and Size is a power of two; and a position
\* that is left to grow.
Unmasked(x) == x
Masked(x) == x % Size

ReadAvailable == Masked(WritePos - ReadPos)

\* Bytes of free space, with and without the slot that stays unused.
WriteAvailableAll == Size - ReadAvailable
WriteAvailable == Size - 1 - ReadAvailable

Init ==
  /\ Buffer = [k \in Index |-> 0]
  /\ WritePos = 0
  /\ ReadPos = 0
  /\ moved = <<>>

\* GcomRingWrite: two copies, the second one only when the data wraps.
Write(data) ==
  LET toWrite == Lesser(Len(data), WriteAvailable)
      firstChunk == Lesser(toWrite, Size - WritePos)
  IN  /\ Buffer' = [k \in Index |->
           IF k \in WritePos..(WritePos + firstChunk - 1)
             THEN data[k - WritePos + 1]
           ELSE IF k < toWrite - firstChunk
             THEN data[firstChunk + k + 1]
           ELSE Buffer[k]]
      /\ WritePos' = Masked(WritePos + toWrite)
      /\ moved' = SubSeq(data, 1, toWrite)
      /\ UNCHANGED ReadPos

\* GcomRingRead: likewise two copies out.
Read(n) ==
  LET toRead == Lesser(n, ReadAvailable)
      firstChunk == Lesser(toRead, Size - ReadPos)
  IN  /\ moved' = [i \in 1..toRead |->
           IF i <= firstChunk THEN Buffer[ReadPos + i - 1]
                              ELSE Buffer[i - firstChunk - 1]]
      /\ ReadPos' = Masked(ReadPos + toRead)
      /\ UNCHANGED <<Buffer, WritePos>>

Flush ==
  /\ ReadPos' = WritePos
  /\ moved' = <<>>
  /\ UNCHANGED <<Buffer, WritePos>>

Next ==
  \/ \E len \in 1..MaxLen : \E data \in [1..len -> Byte] : Write(data)
  \/ \E n \in 1..MaxLen : Read(n)
  \/ Flush

Spec == Init /\ [][Next]_vars

-----------------------------------------------------------------------------
TypeOK ==
  /\ Buffer \in [Index -> Byte]
  /\ WritePos \in Index
  /\ ReadPos \in Index
  /\ moved \in Seq(Byte)

\* The queue the two positions delimit.
Contents == [i \in 1..ReadAvailable |-> Buffer[Masked(ReadPos + i - 1)]]

Fifo == INSTANCE BoundedFifo WITH
          content <- Contents, Capacity <- Size - 1

\* Whatever the positions and however a transfer wraps, the array behaves as
\* a queue of Size - 1 bytes: a write appends exactly the prefix that fits, a
\* read returns the oldest bytes in order, and no byte is overwritten before
\* it is read (GcomRingWrite, GcomRingRead and GcomRingFlush in ringbuf.h).
ImplementsFifo == Fifo!Spec

=============================================================================
