--------------------------- MODULE DataPathProofs ---------------------------
(***************************************************************************)
(* Proofs about DataPath, for every capacity, every set of lengths and     *)
(* every bound: its type invariant, and who may be waiting in the queues.  *)
(***************************************************************************)
EXTENDS DataPath, FifoOpsProofs

USE CapacityAssumption, LensAssumption, BoundsAssumption, PurgeAssumption

-----------------------------------------------------------------------------
(* What the two ring calls preserve.                                       *)

\* Letting bytes in keeps the ring within its capacity.
LEMMA EnterType ==
  ASSUME TypeOK, NEW d \in Dir, NEW data \in Seq(Stamp), Enter(d, data)
  PROVE  /\ ring' \in [Dir -> Seq(Stamp)]
         /\ \A e \in Dir : Len(ring'[e]) <= Capacity
         /\ sent' \in [Dir -> Seq(Stamp)]
         /\ Len(ring'[d]) = Len(ring[d]) + Lesser(Room(d), Len(data))
<1> DEFINE t == Take(data, Room(d))
<1>1. /\ ring[d] \in Seq(Stamp) /\ sent[d] \in Seq(Stamp)
      /\ Len(ring[d]) \in Nat /\ Len(data) \in Nat
  BY LenProperties DEF TypeOK
<1>2. Room(d) \in Nat
  BY <1>1 DEF TypeOK, Room
<1>3. t \in Seq(Stamp) /\ Len(t) = Lesser(Room(d), Len(data))
  BY <1>2, TakeProperties
<1>4. /\ ring[d] \o t \in Seq(Stamp)
      /\ Len(ring[d] \o t) = Len(ring[d]) + Len(t)
      /\ sent[d] \o t \in Seq(Stamp)
  BY <1>1, <1>3, ConcatProperties
<1>6. /\ ring' = [ring EXCEPT ![d] = ring[d] \o t]
      /\ sent' = [sent EXCEPT ![d] = sent[d] \o t]
  BY DEF Enter
<1> HIDE DEF t
<1>5. Len(ring[d] \o t) <= Capacity
  <2>1. Lesser(Room(d), Len(data)) <= Room(d)
    BY <1>1, <1>2 DEF Lesser
  <2>2. Len(t) \in Nat /\ Len(t) <= Capacity - Len(ring[d])
    BY <1>1, <1>2, <1>3, <2>1, LenProperties DEF Room
  <2> QED  BY <1>1, <1>4, <2>2
<1> QED  BY <1>3, <1>4, <1>5, <1>6 DEF TypeOK

\* Taking bytes out keeps the types; no ring grows.
LEMMA LeaveType ==
  ASSUME TypeOK, NEW d \in Dir, NEW n \in Nat, Leave(d, n)
  PROVE  /\ ring' \in [Dir -> Seq(Stamp)]
         /\ \A e \in Dir : Len(ring'[e]) <= Capacity
         /\ received' \in [Dir -> Seq(Stamp)]
<1> DEFINE t == Take(ring[d], n)
           r == Drop(ring[d], n)
<1>1. /\ ring[d] \in Seq(Stamp) /\ received[d] \in Seq(Stamp)
      /\ Len(ring[d]) \in Nat /\ Len(ring[d]) <= Capacity
  BY LenProperties DEF TypeOK
<1>2. t \in Seq(Stamp)
  BY <1>1, TakeProperties
<1>3. r \in Seq(Stamp) /\ Len(r) <= Capacity
  BY <1>1, DropProperties DEF Lesser
<1>4. received[d] \o t \in Seq(Stamp)
  BY <1>1, <1>2, ConcatProperties
<1>5. /\ ring' = [ring EXCEPT ![d] = r]
      /\ received' = [received EXCEPT ![d] = received[d] \o t]
  BY DEF Leave
<1> HIDE DEF t, r
<1> QED  BY <1>3, <1>4, <1>5 DEF TypeOK

\* The bytes a write offers are a non-empty sequence of stamps.
LEMMA OfferedType ==
  ASSUME TypeOK, NEW d \in Dir, NEW n \in Nat \ {0}
  PROVE  /\ Offered(d, n) \in Seq(Stamp)
         /\ Len(Offered(d, n)) = n
         /\ Offered(d, n) # <<>>
<1>1. issued[d] \in Nat
  BY DEF TypeOK
<1>2. Offered(d, n) \in [1..n -> Stamp]
  BY <1>1 DEF Offered, Stamp
<1>3. Offered(d, n) \in Seq(Stamp) /\ Len(Offered(d, n)) = n
  BY <1>2
<1> QED  BY <1>3, EmptySeq

\* Removing a cancelled request keeps its queue's type.
LEMMA RemoveAtType ==
  ASSUME NEW S, NEW s \in Seq(S), NEW i \in 1..Len(s)
  PROVE  /\ RemoveAt(s, i) \in Seq(S)
         /\ \A k \in 1..Len(RemoveAt(s, i)) :
              \E m \in 1..Len(s) : RemoveAt(s, i)[k] = s[m]
<1>1. Len(s) \in Nat
  BY LenProperties
<1>2. /\ RemoveAt(s, i) \in Seq(S)
      /\ Len(RemoveAt(s, i)) = Len(s) - 1
      /\ \A k \in 1..Len(RemoveAt(s, i)) :
           RemoveAt(s, i)[k] = IF k < i THEN s[k] ELSE s[k + 1]
  BY RemoveProperties DEF RemoveAt
<1>3. ASSUME NEW k \in 1..Len(RemoveAt(s, i))
      PROVE  \E m \in 1..Len(s) : RemoveAt(s, i)[k] = s[m]
  <2>1. k \in 1..Len(s) /\ k + 1 \in 1..Len(s)
    BY <1>1, <1>2
  <2> QED  BY <1>2, <2>1
<1> QED  BY <1>2, <1>3

-----------------------------------------------------------------------------
(* Type correctness.                                                       *)

LEMMA TypeInit == Init => TypeOK
<1>1. <<>> \in Seq(Stamp) /\ <<>> \in Seq(Nat \ {0}) /\ <<>> \in Seq(Seq(Stamp))
      /\ Len(<<>>) = 0
  BY EmptySeq
<1> QED  BY <1>1 DEF Init, TypeOK, Holders, Free

LEMMA TypeEvtWrite ==
  ASSUME TypeOK, NEW d \in Dir, NEW n \in WriteLens, EvtWrite(d, n)
  PROVE  TypeOK'
<1>1. n \in Nat \ {0}
  OBVIOUS
<1>2. /\ Offered(d, n) \in Seq(Stamp)
      /\ Offered(d, n) # <<>>
  BY <1>1, OfferedType
<1>3. issued' \in [Dir -> Nat]
  BY <1>1 DEF EvtWrite, TypeOK
<1>4. CASE Enter(d, Offered(d, n)) /\ lock' = AfterEnter(d) /\ UNCHANGED queues
  <2>1. /\ ring' \in [Dir -> Seq(Stamp)]
        /\ \A e \in Dir : Len(ring'[e]) <= Capacity
        /\ sent' \in [Dir -> Seq(Stamp)]
    BY <1>2, <1>4, EnterType
  <2>2. lock' \in Holders
    BY <1>4 DEF AfterEnter, Holders
  <2> QED  BY <1>3, <1>4, <2>1, <2>2 DEF EvtWrite, TypeOK, queues, control
<1>5. CASE /\ writeQ' = [writeQ EXCEPT ![d] = Append(@, Offered(d, n))]
           /\ UNCHANGED <<ring, readQ, lock, sent>>
  <2> DEFINE q == Append(writeQ[d], Offered(d, n))
  <2>1. writeQ[d] \in Seq(Seq(Stamp))
    BY DEF TypeOK
  <2>2. /\ q \in Seq(Seq(Stamp))
        /\ Len(q) = Len(writeQ[d]) + 1
        /\ \A i \in 1..Len(writeQ[d]) : q[i] = writeQ[d][i]
        /\ q[Len(writeQ[d]) + 1] = Offered(d, n)
        /\ Len(writeQ[d]) \in Nat
    BY <1>2, <2>1, AppendProperties, LenProperties
  <2>4. writeQ' = [writeQ EXCEPT ![d] = q]
    BY <1>5
  <2> HIDE DEF q
  <2>3. ASSUME NEW i \in 1..Len(q) PROVE q[i] # <<>>
    <3>1. CASE i = Len(writeQ[d]) + 1
      BY <1>2, <2>2, <3>1
    <3>2. CASE i # Len(writeQ[d]) + 1
      <4>1. i \in 1..Len(writeQ[d])
        BY <2>2, <3>2
      <4> QED  BY <2>2, <4>1 DEF TypeOK
    <3> QED  BY <3>1, <3>2
  <2>5. /\ writeQ' \in [Dir -> Seq(Seq(Stamp))]
        /\ \A e \in Dir : \A i \in 1..Len(writeQ'[e]) : writeQ'[e][i] # <<>>
    BY <2>2, <2>3, <2>4 DEF TypeOK
  <2> QED  BY <1>3, <1>5, <2>5 DEF EvtWrite, TypeOK, control
<1>6. CASE UNCHANGED <<ring, queues, lock, sent>>
  BY <1>3, <1>6 DEF EvtWrite, TypeOK, queues, control
<1> QED  BY <1>4, <1>5, <1>6 DEF EvtWrite

LEMMA TypeRead ==
  ASSUME TypeOK, NEW d \in Dir, NEW n \in ReadLens, ReadNow(d, n) \/ PendRead(d, n)
  PROVE  TypeOK'
<1>1. n \in Nat \ {0}
  OBVIOUS
<1>2. CASE ReadNow(d, n)
  <2>1. /\ ring' \in [Dir -> Seq(Stamp)]
        /\ \A e \in Dir : Len(ring'[e]) <= Capacity
        /\ received' \in [Dir -> Seq(Stamp)]
    BY <1>1, <1>2, LeaveType DEF ReadNow
  <2>2. lock' \in Holders
    BY <1>2 DEF ReadNow, AfterLeave, Holders
  <2> QED  BY <1>2, <2>1, <2>2 DEF ReadNow, TypeOK, queues, control
<1>3. CASE PendRead(d, n)
  <2>1. Append(readQ[d], n) \in Seq(Nat \ {0})
    BY <1>1, AppendProperties DEF TypeOK
  <2>2. readQ' \in [Dir -> Seq(Nat \ {0})]
    BY <1>3, <2>1 DEF PendRead, TypeOK
  <2> QED  BY <1>3, <2>2 DEF PendRead, TypeOK, control, streams
<1> QED  BY <1>2, <1>3

LEMMA TypeImmediateChar ==
  ASSUME TypeOK, ImmediateChar
  PROVE  TypeOK'
<1> DEFINE d == "ComToCompanion"
<1>1. d \in Dir
  BY DEF Dir
<1>2. Offered(d, 1) \in Seq(Stamp)
  BY <1>1, OfferedType
<1>3. /\ ring' \in [Dir -> Seq(Stamp)]
      /\ \A e \in Dir : Len(ring'[e]) <= Capacity
      /\ sent' \in [Dir -> Seq(Stamp)]
  BY <1>1, <1>2, EnterType DEF ImmediateChar
<1>4. lock' \in Holders
  BY <1>1 DEF ImmediateChar, AfterEnter, Holders
<1>5. issued' \in [Dir -> Nat]
  BY <1>1 DEF ImmediateChar, TypeOK
<1> QED  BY <1>3, <1>4, <1>5 DEF ImmediateChar, TypeOK, queues, control

LEMMA TypeLoops ==
  ASSUME TypeOK, NEW d \in Dir, Loops(d)
  PROVE  TypeOK'
<1>1. CASE DrainReads(d)
  <2>1. readQ[d] \in Seq(Nat \ {0}) /\ readQ[d] # <<>>
    BY <1>1 DEF DrainReads, TypeOK
  <2>2. Head(readQ[d]) \in Nat /\ Tail(readQ[d]) \in Seq(Nat \ {0})
    BY <2>1, HeadTailProperties
  <2>3. /\ ring' \in [Dir -> Seq(Stamp)]
        /\ \A e \in Dir : Len(ring'[e]) <= Capacity
        /\ received' \in [Dir -> Seq(Stamp)]
    BY <1>1, <2>2, LeaveType DEF DrainReads
  <2>4. readQ' \in [Dir -> Seq(Nat \ {0})]
    BY <1>1, <2>2 DEF DrainReads, TypeOK
  <2> QED  BY <1>1, <2>3, <2>4 DEF DrainReads, TypeOK, control
<1>2. CASE DrainReadsEnd(d)
  <2>1. lock' \in Holders
    BY <1>2 DEF DrainReadsEnd, Holders
  <2> QED  BY <1>2, <2>1 DEF DrainReadsEnd, TypeOK, queues, control, streams
<1>3. CASE DrainWrites(d)
  <2>1. writeQ[d] \in Seq(Seq(Stamp)) /\ writeQ[d] # <<>>
    BY <1>3 DEF DrainWrites, TypeOK
  <2>2. /\ Head(writeQ[d]) \in Seq(Stamp)
        /\ Tail(writeQ[d]) \in Seq(Seq(Stamp))
        /\ Len(Tail(writeQ[d])) = Len(writeQ[d]) - 1
        /\ \A i \in 1..Len(Tail(writeQ[d])) : Tail(writeQ[d])[i] = writeQ[d][i + 1]
        /\ Len(writeQ[d]) \in Nat
    BY <2>1, HeadTailProperties, LenProperties
  <2>3. /\ ring' \in [Dir -> Seq(Stamp)]
        /\ \A e \in Dir : Len(ring'[e]) <= Capacity
        /\ sent' \in [Dir -> Seq(Stamp)]
    BY <1>3, <2>2, EnterType DEF DrainWrites
  <2>4. \A i \in 1..Len(Tail(writeQ[d])) : Tail(writeQ[d])[i] # <<>>
    BY <2>2 DEF TypeOK
  <2>5. writeQ' = [writeQ EXCEPT ![d] = Tail(writeQ[d])]
    BY <1>3 DEF DrainWrites
  <2>6. /\ writeQ' \in [Dir -> Seq(Seq(Stamp))]
        /\ \A e \in Dir : \A i \in 1..Len(writeQ'[e]) : writeQ'[e][i] # <<>>
    BY <2>2, <2>4, <2>5 DEF TypeOK
  <2>7. lock' \in Holders
    BY <1>3 DEF DrainWrites, Holders
  <2> QED  BY <1>3, <2>3, <2>6, <2>7 DEF DrainWrites, TypeOK, control
<1>4. CASE DrainWritesEnd(d)
  BY <1>4 DEF DrainWritesEnd, TypeOK, Holders, Free, queues, control, streams
<1> QED  BY <1>1, <1>2, <1>3, <1>4 DEF Loops

LEMMA TypeCancel ==
  ASSUME TypeOK, NEW d \in Dir, CancelRead(d) \/ CancelWrite(d)
  PROVE  TypeOK'
<1>1. CASE CancelRead(d)
  <2>1. PICK i \in 1..Len(readQ[d]) : readQ' = [readQ EXCEPT ![d] = RemoveAt(@, i)]
    BY <1>1 DEF CancelRead
  <2>2. RemoveAt(readQ[d], i) \in Seq(Nat \ {0})
    BY RemoveAtType DEF TypeOK
  <2>3. readQ' \in [Dir -> Seq(Nat \ {0})]
    BY <2>1, <2>2 DEF TypeOK
  <2> QED  BY <1>1, <2>3 DEF CancelRead, TypeOK, control, streams
<1>2. CASE CancelWrite(d)
  <2>1. PICK i \in 1..Len(writeQ[d]) : writeQ' = [writeQ EXCEPT ![d] = RemoveAt(@, i)]
    BY <1>2 DEF CancelWrite
  <2> DEFINE q == RemoveAt(writeQ[d], i)
  <2>2. /\ q \in Seq(Seq(Stamp))
        /\ \A k \in 1..Len(q) : \E m \in 1..Len(writeQ[d]) : q[k] = writeQ[d][m]
    BY RemoveAtType DEF TypeOK
  <2>3. writeQ' = [writeQ EXCEPT ![d] = q]
    BY <2>1
  <2>4. \A k \in 1..Len(q) : q[k] # <<>>
    BY <2>2 DEF TypeOK
  <2> HIDE DEF q
  <2>5. /\ writeQ' \in [Dir -> Seq(Seq(Stamp))]
        /\ \A e \in Dir : \A k \in 1..Len(writeQ'[e]) : writeQ'[e][k] # <<>>
    BY <2>2, <2>3, <2>4 DEF TypeOK
  <2> QED  BY <1>2, <2>5 DEF CancelWrite, TypeOK, control, streams
<1> QED  BY <1>1, <1>2

LEMMA TypePurge ==
  ASSUME TypeOK, Purge
  PROVE  TypeOK'
<1>0. /\ <<>> \in Seq(Stamp) /\ Len(<<>>) = 0
      /\ <<>> \in Seq(Seq(Stamp)) /\ <<>> \in Seq(Nat \ {0})
      /\ {"ComToCompanion", "CompanionToCom"} \subseteq Dir
  BY EmptySeq DEF Dir
<1>1. CASE PurgeBegin
  BY <1>1 DEF PurgeBegin, TypeOK, queues, streams
<1>2. CASE PurgeTxAbort
  <2>1. /\ writeQ' \in [Dir -> Seq(Seq(Stamp))]
        /\ \A e \in Dir : \A k \in 1..Len(writeQ'[e]) : writeQ'[e][k] # <<>>
    BY <1>0, <1>2 DEF PurgeTxAbort, TypeOK
  <2> QED  BY <1>0, <1>2, <2>1 DEF PurgeTxAbort, TypeOK, streams
<1>3. CASE PurgeRxAbort
  <2>1. readQ' \in [Dir -> Seq(Nat \ {0})]
    BY <1>0, <1>3 DEF PurgeRxAbort, TypeOK
  <2> QED  BY <1>0, <1>3, <2>1 DEF PurgeRxAbort, TypeOK, streams
<1>4. CASE PurgeClear
  <2>1. /\ ring' \in [Dir -> Seq(Stamp)]
        /\ \A e \in Dir : Len(ring'[e]) <= Capacity
    BY <1>0, <1>4 DEF PurgeClear, TypeOK
  <2> QED  BY <1>4, <2>1 DEF PurgeClear, TypeOK, queues, streams
<1>5. CASE QueueRestart
  BY <1>5 DEF QueueRestart, TypeOK, queues, streams
<1> QED  BY <1>1, <1>2, <1>3, <1>4, <1>5 DEF Purge

LEMMA TypeStep == TypeOK /\ [Next]_vars => TypeOK'
<1> SUFFICES ASSUME TypeOK, [Next]_vars PROVE TypeOK'
  OBVIOUS
<1>0. "ComToCompanion" \in Dir /\ "CompanionToCom" \in Dir
  BY DEF Dir
<1>1. CASE Handlers
  BY <1>0, <1>1, TypeEvtWrite, TypeRead, TypeImmediateChar
     DEF Handlers, ComEvtWrite, CompEvtWrite, ComEvtRead, CompEvtRead
<1>2. ASSUME NEW d \in Dir, Loops(d) \/ CancelRead(d) \/ CancelWrite(d)
      PROVE  TypeOK'
  BY <1>2, TypeLoops, TypeCancel
<1>3. CASE Purge
  BY <1>3, TypePurge
<1>4. CASE SetTimeouts
  BY <1>4 DEF SetTimeouts, TypeOK, queues, streams
<1>5. CASE UNCHANGED vars
  BY <1>5 DEF vars, TypeOK, queues, control, streams
<1> QED  BY <1>1, <1>2, <1>3, <1>4, <1>5 DEF Next

\* Every variable keeps its type and no ring holds more than Capacity bytes,
\* whatever the programs ask for (GcomRingWrite's min with the room left).
THEOREM TypeCorrect == Spec => []TypeOK
BY TypeInit, TypeStep, PTL DEF Spec

-----------------------------------------------------------------------------
(* Who waits.                                                              *)

LEMMA ReadersInit == Init => ReadersInv
BY DEF Init, ReadersInv, Free

LEMMA ReadersStep == TypeOK /\ ReadersInv /\ [Next]_vars => ReadersInv'
<1> SUFFICES ASSUME TypeOK, ReadersInv, [Next]_vars PROVE ReadersInv'
  OBVIOUS
<1> USE DEF ReadersInv
<1>0. "ComToCompanion" \in Dir /\ "CompanionToCom" \in Dir
  BY DEF Dir
<1>1. ASSUME NEW d \in Dir, NEW n \in WriteLens, EvtWrite(d, n)
      PROVE  ReadersInv'
  <2>1. CASE Enter(d, Offered(d, n)) /\ lock' = AfterEnter(d) /\ UNCHANGED queues
    <3>1. lock = Free
      BY <1>1 DEF EvtWrite
    <3>2. \A e \in Dir : e # d => ring'[e] = ring[e]
      BY <2>1 DEF Enter, TypeOK
    <3> QED  BY <2>1, <3>1, <3>2 DEF AfterEnter, queues, Free
  <2>2. CASE UNCHANGED <<ring, readQ, lock>>
    BY <2>2
  <2> QED  BY <1>1, <2>1, <2>2 DEF EvtWrite, queues
<1>2. ASSUME NEW d \in Dir, NEW n \in ReadLens, ReadNow(d, n)
      PROVE  ReadersInv'
  <2>1. lock = Free /\ ring[d] # <<>> /\ lock' = <<"drainWrites", d>> /\ readQ' = readQ
    BY <1>2 DEF ReadNow, AfterLeave, queues
  <2>2. \A e \in Dir : e # d => ring'[e] = ring[e]
    BY <1>2 DEF ReadNow, Leave, TypeOK
  <2>3. readQ[d] = <<>>
    BY <2>1 DEF Free
  <2> QED  BY <2>1, <2>2, <2>3 DEF Free
<1>3. ASSUME NEW d \in Dir, NEW n \in ReadLens, PendRead(d, n)
      PROVE  ReadersInv'
  <2>1. /\ lock = Free /\ ring[d] = <<>>
        /\ lock' = lock /\ ring' = ring
        /\ \A e \in Dir : e # d => readQ'[e] = readQ[e]
    BY <1>3 DEF PendRead, TypeOK
  <2> QED  BY <2>1 DEF Free
<1>4. CASE ImmediateChar
  <2> DEFINE d == "ComToCompanion"
  <2>1. lock = Free /\ lock' = <<"drainReads", d>> /\ readQ' = readQ
    BY <1>4 DEF ImmediateChar, AfterEnter, queues
  <2>2. \A e \in Dir : e # d => ring'[e] = ring[e]
    BY <1>4 DEF ImmediateChar, Enter, TypeOK
  <2> QED  BY <2>1, <2>2 DEF Free
<1>5. ASSUME NEW d \in Dir, DrainReads(d)
      PROVE  ReadersInv'
  <2>1. /\ lock \in {<<"drainReads", d>>, <<"drainAdmitted", d>>}
        /\ lock' = lock /\ readQ[d] # <<>>
        /\ \A e \in Dir : e # d => ring'[e] = ring[e] /\ readQ'[e] = readQ[e]
    BY <1>5 DEF DrainReads, Leave, TypeOK
  <2>2. lock = <<"drainReads", d>>
    BY <2>1
  <2> QED  BY <2>1, <2>2
<1>6. ASSUME NEW d \in Dir, DrainReadsEnd(d)
      PROVE  ReadersInv'
  BY <1>6 DEF DrainReadsEnd, queues, Free
<1>7. ASSUME NEW d \in Dir, DrainWrites(d)
      PROVE  ReadersInv'
  <2>1. /\ lock = <<"drainWrites", d>> /\ lock' = <<"drainAdmitted", d>>
        /\ readQ' = readQ
        /\ \A e \in Dir : e # d => ring'[e] = ring[e]
    BY <1>7 DEF DrainWrites, Enter, TypeOK
  <2> QED  BY <2>1
<1>8. ASSUME NEW d \in Dir, DrainWritesEnd(d)
      PROVE  ReadersInv'
  BY <1>8 DEF DrainWritesEnd, queues, Free
<1>9. ASSUME NEW d \in Dir, CancelRead(d)
      PROVE  ReadersInv'
  <2>1. readQ[d] # <<>>
    BY <1>9 DEF CancelRead
  <2>2. lock' = lock /\ ring' = ring /\ \A e \in Dir : e # d => readQ'[e] = readQ[e]
    BY <1>9 DEF CancelRead, TypeOK
  <2> QED  BY <2>1, <2>2
<1>10. ASSUME NEW d \in Dir, CancelWrite(d)
       PROVE  ReadersInv'
  BY <1>10 DEF CancelWrite
<1>11. CASE Purge
  <2>1. CASE PurgeBegin
    BY <2>1 DEF PurgeBegin, queues
  <2>2. CASE PurgeTxAbort
    BY <2>2 DEF PurgeTxAbort
  <2>3. CASE PurgeRxAbort
    BY <2>3, <1>0 DEF PurgeRxAbort, TypeOK
  <2>4. CASE PurgeClear
    BY <2>4, <1>0 DEF PurgeClear, TypeOK, queues
  <2>5. CASE QueueRestart
    BY <2>5 DEF QueueRestart, queues
  <2> QED  BY <1>11, <2>1, <2>2, <2>3, <2>4, <2>5 DEF Purge
<1>12. CASE SetTimeouts
  BY <1>12 DEF SetTimeouts, queues
<1>13. CASE UNCHANGED vars
  BY <1>13 DEF vars, queues
<1>14. CASE Handlers
  BY <1>0, <1>1, <1>2, <1>3, <1>4, <1>14
     DEF Handlers, ComEvtWrite, CompEvtWrite, ComEvtRead, CompEvtRead
<1>15. ASSUME NEW d \in Dir, Loops(d)
       PROVE  ReadersInv'
  BY <1>5, <1>6, <1>7, <1>8, <1>15 DEF Loops
<1> QED  BY <1>9, <1>10, <1>11, <1>12, <1>13, <1>14, <1>15 DEF Next

LEMMA ReadersInvariant == Spec => []ReadersInv
BY TypeCorrect, ReadersInit, ReadersStep, PTL DEF Spec

\* No read is left waiting for bytes that have arrived, for every capacity
\* and every purge, clears included (the drains of both write handlers).
THEOREM ReadersNeverStarve == Spec => []ReadersWaitOnlyWhenEmpty
<1>1. ReadersInv => ReadersWaitOnlyWhenEmpty
  BY DEF ReadersInv, ReadersWaitOnlyWhenEmpty, Free
<1> QED  BY <1>1, ReadersInvariant, PTL

\* The peer drain inside GcomDrainWritesToRing is never needed.
THEOREM PeerDrainIdle == Spec => []AdmittedDrainFindsNoReader
<1>1. ReadersInv => AdmittedDrainFindsNoReader
  BY DEF ReadersInv, AdmittedDrainFindsNoReader
<1> QED  BY <1>1, ReadersInvariant, PTL

LEMMA WritersInit == Init => WritersInv
BY DEF Init, WritersInv, Free

\* A write that finds no room leaves the ring as it is.
LEMMA EnterFullRing ==
  ASSUME TypeOK, NEW d \in Dir, NEW data \in Seq(Stamp), Enter(d, data), Room(d) = 0
  PROVE  Len(ring'[d]) = Len(ring[d])
<1>1. Len(data) \in Nat /\ Len(ring[d]) \in Nat
  BY LenProperties DEF TypeOK
<1>2. Len(ring'[d]) = Len(ring[d]) + Lesser(Room(d), Len(data))
  BY EnterType
<1> QED  BY <1>1, <1>2 DEF Lesser

LEMMA WritersStep ==
  ASSUME NoClear
  PROVE  TypeOK /\ ReadersInv /\ WritersInv /\ [Next]_vars => WritersInv'
<1> SUFFICES ASSUME TypeOK, ReadersInv, WritersInv, [Next]_vars PROVE WritersInv'
  OBVIOUS
<1> USE DEF WritersInv, Room
<1>0. "ComToCompanion" \in Dir /\ "CompanionToCom" \in Dir
  BY DEF Dir
<1>1. ASSUME NEW d \in Dir, NEW n \in WriteLens, EvtWrite(d, n)
      PROVE  WritersInv'
  <2>1. CASE Room(d) > 0 /\ Enter(d, Offered(d, n)) /\ lock' = AfterEnter(d) /\ UNCHANGED queues
    <3>1. lock = Free /\ purge' = purge
      BY <1>1 DEF EvtWrite, control
    <3>2. \A e \in Dir : e # d => ring'[e] = ring[e]
      BY <2>1 DEF Enter, TypeOK
    <3>3. writeQ[d] = <<>>
      BY <2>1, <3>1 DEF Free
    <3> QED  BY <2>1, <3>1, <3>2, <3>3 DEF AfterEnter, queues, Free
  <2>2. CASE /\ Room(d) = 0 /\ UNCHANGED <<ring, readQ, lock>>
             /\ writeQ' = [writeQ EXCEPT ![d] = Append(@, Offered(d, n))]
    <3>1. lock = Free /\ purge' = purge
      BY <1>1 DEF EvtWrite, control
    <3>2. \A e \in Dir : e # d => writeQ'[e] = writeQ[e]
      BY <2>2 DEF TypeOK
    <3> QED  BY <2>2, <3>1, <3>2 DEF Free
  <2>3. CASE UNCHANGED <<ring, queues, lock>>
    BY <1>1, <2>3 DEF EvtWrite, queues, control
  <2> QED  BY <1>1, <2>1, <2>2, <2>3 DEF EvtWrite
<1>2. ASSUME NEW d \in Dir, NEW n \in ReadLens, ReadNow(d, n)
      PROVE  WritersInv'
  <2>1. /\ lock = Free /\ lock' = <<"drainWrites", d>> /\ writeQ' = writeQ
        /\ purge' = purge
        /\ \A e \in Dir : e # d => ring'[e] = ring[e]
    BY <1>2 DEF ReadNow, AfterLeave, Leave, TypeOK, queues, control
  <2> QED  BY <2>1 DEF Free
<1>3. ASSUME NEW d \in Dir, NEW n \in ReadLens, PendRead(d, n)
      PROVE  WritersInv'
  BY <1>3 DEF PendRead, control, Free
<1>4. CASE ImmediateChar
  <2> DEFINE d == "ComToCompanion"
  <2>1. /\ lock = Free /\ lock' = <<"drainReads", d>>
        /\ readQ' = readQ /\ writeQ' = writeQ /\ purge' = purge
    BY <1>4 DEF ImmediateChar, AfterEnter, queues, control
  <2>2. \A e \in Dir : e # d => ring'[e] = ring[e]
    BY <1>4 DEF ImmediateChar, Enter, TypeOK
  <2>3. writeQ[d] = <<>> \/ readQ[d] = <<>>
    <3>1. CASE Room(d) = 0
      <4>1. ring[d] # <<>>
        BY <1>0, <3>1, EmptySeq
      <4> QED  BY <1>0, <2>1, <4>1 DEF ReadersInv, Free
    <3>2. CASE Room(d) # 0
      BY <1>0, <2>1, <3>2 DEF Free
    <3> QED  BY <3>1, <3>2
  <2>4. writeQ[d] = <<>> \/ Capacity - Len(ring'[d]) = 0
    <3>1. CASE Room(d) = 0
      <4>1. Offered(d, 1) \in Seq(Stamp)
        BY <1>0, OfferedType
      <4>2. Len(ring'[d]) = Len(ring[d])
        BY <1>0, <1>4, <3>1, <4>1, EnterFullRing DEF ImmediateChar
      <4> QED  BY <3>1, <4>2
    <3>2. CASE Room(d) # 0
      BY <1>0, <2>1, <3>2 DEF Free
    <3> QED  BY <3>1, <3>2
  <2> QED  BY <2>1, <2>2, <2>3, <2>4 DEF Free
<1>5. ASSUME NEW d \in Dir, DrainReads(d)
      PROVE  WritersInv'
  <2>1. /\ lock' = lock /\ readQ[d] # <<>> /\ writeQ' = writeQ /\ purge' = purge
        /\ lock \in {<<"drainReads", d>>, <<"drainAdmitted", d>>}
        /\ \A e \in Dir : e # d => ring'[e] = ring[e] /\ readQ'[e] = readQ[e]
    BY <1>5 DEF DrainReads, Leave, TypeOK, control
  <2> QED  BY <2>1
<1>6. ASSUME NEW d \in Dir, DrainReadsEnd(d)
      PROVE  WritersInv'
  BY <1>6 DEF DrainReadsEnd, queues, control, Free
<1>7. ASSUME NEW d \in Dir, DrainWrites(d)
      PROVE  WritersInv'
  <2>1. /\ lock = <<"drainWrites", d>> /\ lock' = <<"drainAdmitted", d>>
        /\ readQ' = readQ /\ purge' = purge
        /\ \A e \in Dir : e # d => ring'[e] = ring[e] /\ writeQ'[e] = writeQ[e]
    BY <1>7 DEF DrainWrites, Enter, TypeOK, control
  <2> QED  BY <2>1
<1>8. ASSUME NEW d \in Dir, DrainWritesEnd(d)
      PROVE  WritersInv'
  BY <1>8 DEF DrainWritesEnd, queues, control, Free
<1>9. ASSUME NEW d \in Dir, CancelRead(d)
      PROVE  WritersInv'
  <2>1. readQ[d] # <<>>
    BY <1>9 DEF CancelRead
  <2>2. /\ lock' = lock /\ ring' = ring /\ writeQ' = writeQ /\ purge' = purge
        /\ \A e \in Dir : e # d => readQ'[e] = readQ[e]
    BY <1>9 DEF CancelRead, TypeOK, control
  <2> QED  BY <2>1, <2>2
<1>10. ASSUME NEW d \in Dir, CancelWrite(d)
       PROVE  WritersInv'
  <2>1. writeQ[d] # <<>>
    BY <1>10 DEF CancelWrite
  <2>2. /\ lock' = lock /\ ring' = ring /\ readQ' = readQ /\ purge' = purge
        /\ \A e \in Dir : e # d => writeQ'[e] = writeQ[e]
    BY <1>10 DEF CancelWrite, TypeOK, control
  <2> QED  BY <2>1, <2>2
<1>11. CASE Purge
  <2>1. CASE PurgeBegin
    BY <2>1 DEF PurgeBegin, queues, NoClear
  <2>2. CASE PurgeTxAbort
    BY <2>2, <1>0 DEF PurgeTxAbort, TypeOK
  <2>3. CASE PurgeRxAbort
    BY <2>3, <1>0 DEF PurgeRxAbort, TypeOK
  <2>4. CASE PurgeClear
    BY <2>4 DEF PurgeClear
  <2>5. CASE QueueRestart
    BY <2>5 DEF QueueRestart, queues
  <2> QED  BY <1>11, <2>1, <2>2, <2>3, <2>4, <2>5 DEF Purge
<1>12. CASE SetTimeouts
  BY <1>12 DEF SetTimeouts, queues
<1>13. CASE UNCHANGED vars
  BY <1>13 DEF vars, queues, control
<1>14. CASE Handlers
  BY <1>0, <1>1, <1>2, <1>3, <1>4, <1>14
     DEF Handlers, ComEvtWrite, CompEvtWrite, ComEvtRead, CompEvtRead
<1>15. ASSUME NEW d \in Dir, Loops(d)
       PROVE  WritersInv'
  BY <1>5, <1>6, <1>7, <1>8, <1>15 DEF Loops
<1> QED  BY <1>9, <1>10, <1>11, <1>12, <1>13, <1>14, <1>15 DEF Next

\* When the application clears no buffer, a write is pended only while its
\* ring is full: "pending writes (when ring full)" of driver.h, for every
\* capacity and every mix of reads, cancellations and aborts.
THEOREM WritersWaitForRoom ==
  ASSUME NoClear
  PROVE  Spec => []WritersWaitOnlyWhenFull
<1>1. WritersInv => WritersWaitOnlyWhenFull
  BY DEF WritersInv, WritersWaitOnlyWhenFull, Free
<1>2. TypeOK /\ ReadersInv /\ WritersInv /\ [Next]_vars => WritersInv'
  BY WritersStep
<1> QED  BY <1>1, <1>2, WritersInit, TypeCorrect, ReadersInvariant, PTL DEF Spec

-----------------------------------------------------------------------------
(* Sequences of stamps: how they relate, and what pieces of them keep.     *)

\* All stamps of s are at most top; come before those of t; are not in t.
UpTo(s, top) == \A a \in 1..Len(s) : s[a] <= top
Before(s, t) == \A a \in 1..Len(s), b \in 1..Len(t) : s[a] < t[b]
Apart(s, t) == \A a \in 1..Len(s), b \in 1..Len(t) : s[a] # t[b]

\* The stamps of s rise; no stamp is twice in s.
Rising(s) == \A a, b \in 1..Len(s) : a < b => s[a] < s[b]
Distinct(s) == \A a, b \in 1..Len(s) : a # b => s[a] # s[b]

\* What two sequences have, their concatenation has, and the first of two
\* has what the concatenation has.
LEMMA ConcatRelations ==
  ASSUME NEW s \in Seq(Stamp), NEW t \in Seq(Stamp), NEW u \in Seq(Stamp), NEW top \in Nat
  PROVE  /\ UpTo(s, top) /\ UpTo(t, top) => UpTo(s \o t, top)
         /\ Before(s, u) /\ Before(t, u) => Before(s \o t, u)
         /\ Apart(s, u) /\ Apart(t, u) => Apart(s \o t, u)
         /\ Distinct(s) /\ Distinct(t) /\ Apart(s, t) => Distinct(s \o t)
         /\ UpTo(s \o t, top) => UpTo(s, top)
         /\ Apart(s \o t, u) => Apart(s, u)
         /\ Distinct(s \o t) => Distinct(s)
<1> DEFINE c == s \o t
<1>1. /\ Len(s) \in Nat /\ Len(t) \in Nat
      /\ Len(c) = Len(s) + Len(t)
      /\ \A i \in 1..(Len(s) + Len(t)) : c[i] = IF i <= Len(s) THEN s[i] ELSE t[i - Len(s)]
  BY LenProperties, ConcatProperties
<1> HIDE DEF c
<1>2. ASSUME NEW a \in 1..Len(c)
      PROVE  \/ a \in 1..Len(s) /\ c[a] = s[a]
             \/ /\ a - Len(s) \in 1..Len(t) /\ c[a] = t[a - Len(s)]
                /\ a > Len(s)
  BY <1>1
<1>3. ASSUME NEW a \in 1..Len(s)
      PROVE  a \in 1..Len(c) /\ c[a] = s[a]
  BY <1>1
<1>4. UpTo(s, top) /\ UpTo(t, top) => UpTo(c, top)
  BY <1>2 DEF UpTo
<1>5. Before(s, u) /\ Before(t, u) => Before(c, u)
  BY <1>2 DEF Before
<1>6. Apart(s, u) /\ Apart(t, u) => Apart(c, u)
  BY <1>2 DEF Apart
<1>7. ASSUME Distinct(s), Distinct(t), Apart(s, t)
      PROVE  Distinct(c)
  <2> SUFFICES ASSUME NEW a \in 1..Len(c), NEW b \in 1..Len(c), a # b
               PROVE  c[a] # c[b]
    BY DEF Distinct
  <2>1. CASE a \in 1..Len(s) /\ c[a] = s[a] /\ b \in 1..Len(s) /\ c[b] = s[b]
    BY <1>7, <2>1 DEF Distinct
  <2>2. CASE /\ a - Len(s) \in 1..Len(t) /\ c[a] = t[a - Len(s)]
             /\ b - Len(s) \in 1..Len(t) /\ c[b] = t[b - Len(s)]
    <3>1. a - Len(s) # b - Len(s)
      BY <1>1
    <3> QED  BY <1>7, <2>2, <3>1 DEF Distinct
  <2>3. CASE /\ a \in 1..Len(s) /\ c[a] = s[a]
             /\ b - Len(s) \in 1..Len(t) /\ c[b] = t[b - Len(s)]
    BY <1>7, <2>3 DEF Apart
  <2>4. CASE /\ b \in 1..Len(s) /\ c[b] = s[b]
             /\ a - Len(s) \in 1..Len(t) /\ c[a] = t[a - Len(s)]
    BY <1>7, <2>4 DEF Apart
  <2> QED  BY <1>2, <2>1, <2>2, <2>3, <2>4
<1>8. UpTo(c, top) => UpTo(s, top)
  BY <1>3 DEF UpTo
<1>9. Apart(c, u) => Apart(s, u)
  BY <1>3 DEF Apart
<1>10. Distinct(c) => Distinct(s)
  BY <1>3 DEF Distinct
<1> QED  BY <1>4, <1>5, <1>6, <1>7, <1>8, <1>9, <1>10 DEF c

\* A prefix keeps what its sequence has.
LEMMA TakeRelations ==
  ASSUME NEW s \in Seq(Stamp), NEW u \in Seq(Stamp), NEW n \in Nat, NEW top \in Nat
  PROVE  /\ UpTo(s, top) => UpTo(Take(s, n), top)
         /\ Before(s, u) => Before(Take(s, n), u)
         /\ Apart(u, s) => Apart(u, Take(s, n))
         /\ Apart(s, u) => Apart(Take(s, n), u)
         /\ Rising(s) => Distinct(Take(s, n))
<1> DEFINE t == Take(s, n)
<1>1. /\ Len(s) \in Nat /\ Len(t) = Lesser(n, Len(s))
      /\ \A i \in 1..Len(t) : t[i] = s[i]
  BY TakeProperties, LenProperties
<1> HIDE DEF t
<1>2. ASSUME NEW a \in 1..Len(t)
      PROVE  a \in 1..Len(s) /\ t[a] = s[a] /\ s[a] \in Nat
  <2>1. a \in 1..Len(s)
    BY <1>1 DEF Lesser
  <2> QED  BY <1>1, <2>1, ElementOfSeq DEF Stamp
<1>3. Rising(s) => Distinct(t)
  <2> SUFFICES ASSUME Rising(s), NEW a \in 1..Len(t), NEW b \in 1..Len(t), a # b
               PROVE  t[a] # t[b]
    BY DEF Distinct
  <2>1. a < b \/ b < a
    BY <1>1 DEF Lesser
  <2> QED  BY <1>2, <2>1 DEF Rising
<1>4. UpTo(s, top) => UpTo(t, top)
  BY <1>2 DEF UpTo
<1>5. Before(s, u) => Before(t, u)
  BY <1>2 DEF Before
<1>6. (Apart(u, s) => Apart(u, t)) /\ (Apart(s, u) => Apart(t, u))
  BY <1>2 DEF Apart
<1> QED  BY <1>3, <1>4, <1>5, <1>6 DEF t

\* What comes before something is apart from it, on either side.
LEMMA BeforeIsApart ==
  ASSUME NEW s \in Seq(Stamp), NEW t \in Seq(Stamp), Before(s, t)
  PROVE  Apart(s, t) /\ Apart(t, s)
<1>1. \A a \in 1..Len(s) : s[a] \in Nat
  BY ElementOfSeq DEF Stamp
<1>2. \A b \in 1..Len(t) : t[b] \in Nat
  BY ElementOfSeq DEF Stamp
<1> QED  BY <1>1, <1>2 DEF Apart, Before

\* The bytes a write offers rise, and come after all offered earlier.
LEMMA OfferedRelations ==
  ASSUME TypeOK, NEW d \in Dir, NEW n \in Nat \ {0}
  PROVE  /\ Rising(Offered(d, n))
         /\ UpTo(Offered(d, n), issued[d] + n)
         /\ \A s \in Seq(Stamp) : UpTo(s, issued[d]) =>
              UpTo(s, issued[d] + n) /\ Before(s, Offered(d, n))
<1>1. issued[d] \in Nat
  BY DEF TypeOK
<1>2. Len(Offered(d, n)) = n
  BY OfferedType
<1>3. \A i \in 1..n : Offered(d, n)[i] = issued[d] + i
  BY DEF Offered
<1>4. ASSUME NEW s \in Seq(Stamp), UpTo(s, issued[d])
      PROVE  UpTo(s, issued[d] + n) /\ Before(s, Offered(d, n))
  <2>1. \A a \in 1..Len(s) : s[a] \in Nat
    BY ElementOfSeq DEF Stamp
  <2> QED  BY <1>1, <1>2, <1>3, <1>4, <2>1 DEF UpTo, Before
<1>5. Rising(Offered(d, n)) /\ UpTo(Offered(d, n), issued[d] + n)
  BY <1>1, <1>2, <1>3 DEF Rising, UpTo
<1> QED  BY <1>4, <1>5

-----------------------------------------------------------------------------
(* Queues of pended writes.                                                *)

\* The pended writes of q are in the order they were offered, and so are the
\* stamps within each; all stamps are at most top.
InOrder(q, top) ==
  /\ \A i \in 1..Len(q) : UpTo(q[i], top) /\ Rising(q[i])
  /\ \A i, k \in 1..Len(q) : i < k => Before(q[i], q[k])

\* r is q with some of its requests gone.
Thins(q, r) ==
  \E f \in [1..Len(r) -> 1..Len(q)] :
    /\ \A i, k \in 1..Len(r) : i < k => f[i] < f[k]
    /\ \A i \in 1..Len(r) : r[i] = q[f[i]]

\* A request that leaves its queue, from the front, by cancellation or with
\* all others, leaves the rest in order.
LEMMA QueuesThin ==
  ASSUME NEW q \in Seq(Seq(Stamp))
  PROVE  /\ Thins(q, q)
         /\ Thins(q, <<>>)
         /\ q # <<>> => Thins(q, Tail(q))
         /\ \A i \in 1..Len(q) : Thins(q, RemoveAt(q, i))
<1>1. Len(q) \in Nat
  BY LenProperties
<1>2. Thins(q, q)
  <2> DEFINE f == [i \in 1..Len(q) |-> i]
  <2>1. f \in [1..Len(q) -> 1..Len(q)]
    OBVIOUS
  <2>2. /\ \A i, k \in 1..Len(q) : i < k => f[i] < f[k]
        /\ \A i \in 1..Len(q) : q[i] = q[f[i]]
    OBVIOUS
  <2> HIDE DEF f
  <2> QED  BY <2>1, <2>2 DEF Thins
<1>3. Thins(q, <<>>)
  <2> DEFINE f == [i \in 1..0 |-> i]
  <2>1. Len(<<>>) = 0
    BY EmptySeq
  <2>2. 1..0 = {}
    OBVIOUS
  <2>3. f \in [1..0 -> 1..Len(q)]
    BY <2>2
  <2> HIDE DEF f
  <2> QED  BY <2>1, <2>2, <2>3 DEF Thins
<1>4. ASSUME q # <<>>
      PROVE  Thins(q, Tail(q))
  <2> DEFINE r == Tail(q)
             f == [i \in 1..Len(r) |-> i + 1]
  <2>1. /\ Len(r) = Len(q) - 1
        /\ \A i \in 1..Len(r) : r[i] = q[i + 1]
    BY <1>4, HeadTailProperties
  <2> HIDE DEF r
  <2>2. f \in [1..Len(r) -> 1..Len(q)]
    BY <1>1, <2>1
  <2>3. /\ \A i, k \in 1..Len(r) : i < k => f[i] < f[k]
        /\ \A i \in 1..Len(r) : r[i] = q[f[i]]
    BY <1>1, <2>1
  <2> HIDE DEF f
  <2>4. Thins(q, r)
    BY <2>2, <2>3 DEF Thins
  <2> QED  BY <2>4 DEF r
<1>5. ASSUME NEW j \in 1..Len(q)
      PROVE  Thins(q, RemoveAt(q, j))
  <2> DEFINE r == RemoveAt(q, j)
             f == [i \in 1..Len(r) |-> IF i < j THEN i ELSE i + 1]
  <2>1. /\ Len(r) = Len(q) - 1
        /\ \A i \in 1..Len(r) : r[i] = IF i < j THEN q[i] ELSE q[i + 1]
    BY RemoveProperties DEF RemoveAt
  <2> HIDE DEF r
  <2>2. f \in [1..Len(r) -> 1..Len(q)]
    BY <1>1, <2>1
  <2>3. /\ \A i, k \in 1..Len(r) : i < k => f[i] < f[k]
        /\ \A i \in 1..Len(r) : r[i] = q[f[i]]
    BY <1>1, <2>1
  <2> HIDE DEF f
  <2>4. Thins(q, r)
    BY <2>2, <2>3 DEF Thins
  <2> QED  BY <2>4 DEF r
<1> QED  BY <1>2, <1>3, <1>4, <1>5

\* What holds of every request of a queue, and of their order, holds of the
\* thinned queue.
LEMMA ThinnedQueue ==
  ASSUME NEW q \in Seq(Seq(Stamp)), NEW r \in Seq(Seq(Stamp)), Thins(q, r),
         NEW s \in Seq(Stamp), NEW top \in Nat
  PROVE  /\ InOrder(q, top) => InOrder(r, top)
         /\ (\A i \in 1..Len(q) : Before(s, q[i])) => \A i \in 1..Len(r) : Before(s, r[i])
         /\ (\A i \in 1..Len(q) : Apart(s, q[i])) => \A i \in 1..Len(r) : Apart(s, r[i])
<1>1. PICK f \in [1..Len(r) -> 1..Len(q)] :
        /\ \A i, k \in 1..Len(r) : i < k => f[i] < f[k]
        /\ \A i \in 1..Len(r) : r[i] = q[f[i]]
  BY DEF Thins
<1>2. \A i \in 1..Len(r) : f[i] \in 1..Len(q)
  OBVIOUS
<1> QED  BY <1>1, <1>2 DEF InOrder

\* A larger bound will do.
LEMMA LargerBound ==
  ASSUME NEW m \in Nat, NEW n \in Nat, m <= n
  PROVE  /\ \A s \in Seq(Stamp) : UpTo(s, m) => UpTo(s, n)
         /\ \A q \in Seq(Seq(Stamp)) : InOrder(q, m) => InOrder(q, n)
<1>1. ASSUME NEW s \in Seq(Stamp), UpTo(s, m)
      PROVE  UpTo(s, n)
  <2>1. \A a \in 1..Len(s) : s[a] \in Nat
    BY ElementOfSeq DEF Stamp
  <2> QED  BY <1>1, <2>1 DEF UpTo
<1>2. ASSUME NEW q \in Seq(Seq(Stamp)), InOrder(q, m)
      PROVE  InOrder(q, n)
  <2>1. \A i \in 1..Len(q) : q[i] \in Seq(Stamp)
    BY ElementOfSeq
  <2> QED  BY <1>1, <1>2, <2>1 DEF InOrder
<1> QED  BY <1>1, <1>2

-----------------------------------------------------------------------------
(* What a step does to one direction.                                      *)

\* The six things: requests leave the write queue or nothing happens; bytes
\* go to a reader; a purge clears the ring; a write is pended; a write, or
\* the first of the pended writes, goes into the ring as far as it fits.
Unmoved(d) == sent'[d] = sent[d] /\ ring'[d] = ring[d] /\ received'[d] = received[d]

Stays(d) ==
  /\ Unmoved(d)
  /\ issued'[d] \in Nat /\ issued'[d] >= issued[d]
  /\ Thins(writeQ[d], writeQ'[d])

Hands(d) ==
  /\ \E n \in Nat : /\ ring'[d] = Drop(ring[d], n)
                    /\ received'[d] = received[d] \o Take(ring[d], n)
  /\ sent'[d] = sent[d] /\ writeQ'[d] = writeQ[d] /\ issued'[d] = issued[d]

Clears(d) ==
  /\ purge \cap {"TXCLEAR", "RXCLEAR"} # {}
  /\ ring'[d] = <<>>
  /\ received'[d] = received[d]
  /\ sent'[d] = sent[d] /\ writeQ'[d] = writeQ[d] /\ issued'[d] = issued[d]

Pends(d) ==
  /\ Unmoved(d)
  /\ \E n \in Nat \ {0} : /\ writeQ'[d] = Append(writeQ[d], Offered(d, n))
                          /\ issued'[d] = issued[d] + n

Gains(d, data) ==
  /\ sent'[d] = sent[d] \o Take(data, Room(d))
  /\ ring'[d] = ring[d] \o Take(data, Room(d))
  /\ received'[d] = received[d]

Accepts(d) ==
  /\ lock = Free
  /\ \E n \in Nat \ {0} : /\ Gains(d, Offered(d, n))
                          /\ issued'[d] = issued[d] + n
  /\ writeQ'[d] = writeQ[d]

Admits(d) ==
  /\ writeQ[d] # <<>>
  /\ Gains(d, Head(writeQ[d]))
  /\ writeQ'[d] = Tail(writeQ[d])
  /\ issued'[d] = issued[d]

Effect(d) == Stays(d) \/ Hands(d) \/ Clears(d) \/ Pends(d) \/ Accepts(d) \/ Admits(d)

\* A direction a step does not touch stays.
LEMMA Untouched ==
  ASSUME TypeOK, NEW d \in Dir, Unmoved(d), writeQ'[d] = writeQ[d],
         issued'[d] \in Nat, issued'[d] >= issued[d]
  PROVE  Stays(d)
<1>1. writeQ[d] \in Seq(Seq(Stamp))
  BY DEF TypeOK
<1> QED  BY <1>1, QueuesThin DEF Stays

LEMMA EffectEvtWrite ==
  ASSUME TypeOK, NEW e \in Dir, NEW n \in WriteLens, EvtWrite(e, n), NEW d \in Dir
  PROVE  Effect(d)
<1>1. n \in Nat \ {0} /\ issued[d] \in Nat /\ issued[e] \in Nat
  BY DEF TypeOK
<1>2. /\ received' = received /\ issued' = [issued EXCEPT ![e] = issued[e] + n]
      /\ lock = Free
  BY DEF EvtWrite
<1>3. CASE Enter(e, Offered(e, n)) /\ UNCHANGED queues
  <2>1. CASE d = e
    <3>1. Gains(d, Offered(d, n)) /\ writeQ'[d] = writeQ[d] /\ issued'[d] = issued[d] + n
      BY <1>2, <1>3, <2>1 DEF Enter, TypeOK, Gains, queues
    <3> QED  BY <1>1, <1>2, <3>1 DEF Effect, Accepts
  <2>2. CASE d # e
    <3>1. Unmoved(d) /\ writeQ'[d] = writeQ[d] /\ issued'[d] = issued[d]
      BY <1>2, <1>3, <2>2 DEF Enter, TypeOK, Unmoved, queues
    <3> QED  BY <1>1, <3>1, Untouched DEF Effect
  <2> QED  BY <2>1, <2>2
<1>4. CASE /\ writeQ' = [writeQ EXCEPT ![e] = Append(@, Offered(e, n))]
           /\ UNCHANGED <<ring, readQ, lock, sent>>
  <2>1. CASE d = e
    <3>1. /\ Unmoved(d) /\ writeQ'[d] = Append(writeQ[d], Offered(d, n))
          /\ issued'[d] = issued[d] + n
      BY <1>2, <1>4, <2>1 DEF TypeOK, Unmoved
    <3> QED  BY <1>1, <3>1 DEF Effect, Pends
  <2>2. CASE d # e
    <3>1. Unmoved(d) /\ writeQ'[d] = writeQ[d] /\ issued'[d] = issued[d]
      BY <1>2, <1>4, <2>2 DEF TypeOK, Unmoved
    <3> QED  BY <1>1, <3>1, Untouched DEF Effect
  <2> QED  BY <2>1, <2>2
<1>5. CASE UNCHANGED <<ring, queues, lock, sent>>
  <2>1. Unmoved(d) /\ writeQ'[d] = writeQ[d] /\ issued'[d] \in Nat /\ issued'[d] >= issued[d]
    BY <1>1, <1>2, <1>5 DEF TypeOK, Unmoved, queues
  <2> QED  BY <2>1, Untouched DEF Effect
<1> QED  BY <1>3, <1>4, <1>5 DEF EvtWrite

LEMMA EffectImmediateChar ==
  ASSUME TypeOK, ImmediateChar, NEW d \in Dir
  PROVE  Effect(d)
<1> DEFINE e == "ComToCompanion"
<1>1. e \in Dir /\ issued[d] \in Nat
  BY DEF TypeOK, Dir
<1>2. /\ received' = received /\ issued' = [issued EXCEPT ![e] = issued[e] + 1]
      /\ lock = Free /\ writeQ' = writeQ /\ Enter(e, Offered(e, 1))
  BY DEF ImmediateChar, queues
<1>3. CASE d = e
  <2>1. Gains(d, Offered(d, 1)) /\ writeQ'[d] = writeQ[d] /\ issued'[d] = issued[d] + 1
    BY <1>1, <1>2, <1>3 DEF Enter, TypeOK, Gains
  <2> QED  BY <1>2, <2>1 DEF Effect, Accepts
<1>4. CASE d # e
  <2>1. Unmoved(d) /\ writeQ'[d] = writeQ[d] /\ issued'[d] = issued[d]
    BY <1>1, <1>2, <1>4 DEF Enter, TypeOK, Unmoved
  <2> QED  BY <1>1, <2>1, Untouched DEF Effect
<1> QED  BY <1>3, <1>4

\* Bytes that go to a reader of direction e.
LEMMA EffectLeave ==
  ASSUME TypeOK, NEW e \in Dir, NEW n \in Nat, Leave(e, n),
         UNCHANGED <<writeQ, issued, sent>>, NEW d \in Dir
  PROVE  Effect(d)
<1>1. issued[d] \in Nat
  BY DEF TypeOK
<1>2. CASE d = e
  <2>1. /\ ring'[d] = Drop(ring[d], n) /\ received'[d] = received[d] \o Take(ring[d], n)
        /\ sent'[d] = sent[d] /\ writeQ'[d] = writeQ[d] /\ issued'[d] = issued[d]
    BY <1>2 DEF Leave, TypeOK
  <2> QED  BY <2>1 DEF Effect, Hands
<1>3. CASE d # e
  <2>1. Unmoved(d) /\ writeQ'[d] = writeQ[d] /\ issued'[d] = issued[d]
    BY <1>3 DEF Leave, TypeOK, Unmoved
  <2> QED  BY <1>1, <2>1, Untouched DEF Effect
<1> QED  BY <1>2, <1>3

LEMMA EffectDrainWrites ==
  ASSUME TypeOK, NEW e \in Dir, DrainWrites(e), NEW d \in Dir
  PROVE  Effect(d)
<1>1. issued[d] \in Nat
  BY DEF TypeOK
<1>2. /\ received' = received /\ issued' = issued /\ writeQ[e] # <<>>
      /\ Enter(e, Head(writeQ[e])) /\ writeQ' = [writeQ EXCEPT ![e] = Tail(writeQ[e])]
  BY DEF DrainWrites
<1>3. CASE d = e
  <2>1. Gains(d, Head(writeQ[d])) /\ writeQ'[d] = Tail(writeQ[d]) /\ issued'[d] = issued[d]
    BY <1>2, <1>3 DEF Enter, TypeOK, Gains
  <2> QED  BY <1>2, <1>3, <2>1 DEF Effect, Admits
<1>4. CASE d # e
  <2>1. Unmoved(d) /\ writeQ'[d] = writeQ[d] /\ issued'[d] = issued[d]
    BY <1>2, <1>4 DEF Enter, TypeOK, Unmoved
  <2> QED  BY <1>1, <2>1, Untouched DEF Effect
<1> QED  BY <1>3, <1>4

\* Requests that leave the write queue of direction e by cancellation.
LEMMA EffectCancelWrite ==
  ASSUME TypeOK, NEW e \in Dir, CancelWrite(e), NEW d \in Dir
  PROVE  Effect(d)
<1>1. issued[d] \in Nat /\ writeQ[e] \in Seq(Seq(Stamp))
  BY DEF TypeOK
<1>2. /\ Unmoved(d) /\ issued'[d] = issued[d]
      /\ d # e => writeQ'[d] = writeQ[d]
  BY DEF CancelWrite, Unmoved, TypeOK, streams
<1>3. Thins(writeQ[e], writeQ'[e])
  <2>1. PICK i \in 1..Len(writeQ[e]) : writeQ' = [writeQ EXCEPT ![e] = RemoveAt(writeQ[e], i)]
    BY DEF CancelWrite
  <2>2. writeQ'[e] = RemoveAt(writeQ[e], i)
    BY <2>1 DEF TypeOK
  <2> QED  BY <1>1, <2>2, QueuesThin
<1>4. CASE d = e
  BY <1>1, <1>2, <1>3, <1>4 DEF Effect, Stays
<1>5. CASE d # e
  BY <1>1, <1>2, <1>5, Untouched DEF Effect
<1> QED  BY <1>4, <1>5

LEMMA EffectPurge ==
  ASSUME TypeOK, Purge, NEW d \in Dir
  PROVE  Effect(d)
<1>1. issued[d] \in Nat /\ writeQ[d] \in Seq(Seq(Stamp))
  BY DEF TypeOK
<1>2. CASE PurgeBegin \/ PurgeRxAbort \/ QueueRestart
  <2>1. Unmoved(d) /\ writeQ'[d] = writeQ[d] /\ issued'[d] = issued[d]
    BY <1>2 DEF PurgeBegin, PurgeRxAbort, QueueRestart, Unmoved, queues, streams
  <2> QED  BY <1>1, <2>1, Untouched DEF Effect
<1>3. CASE PurgeTxAbort
  <2>1. Unmoved(d) /\ issued'[d] = issued[d] /\ (writeQ'[d] = writeQ[d] \/ writeQ'[d] = <<>>)
    BY <1>3 DEF PurgeTxAbort, Unmoved, streams, TypeOK
  <2>2. Thins(writeQ[d], writeQ'[d])
    BY <1>1, <2>1, QueuesThin
  <2> QED  BY <1>1, <2>1, <2>2 DEF Effect, Stays
<1>4. CASE PurgeClear
  <2>1. /\ purge \cap {"TXCLEAR", "RXCLEAR"} # {}
        /\ received'[d] = received[d] /\ sent'[d] = sent[d]
        /\ writeQ'[d] = writeQ[d] /\ issued'[d] = issued[d]
    BY <1>4 DEF PurgeClear, queues, streams
  <2>2. ring'[d] = <<>> \/ ring'[d] = ring[d]
    BY <1>4 DEF PurgeClear
  <2>3. CASE ring'[d] = <<>>
    BY <2>1, <2>3 DEF Effect, Clears
  <2>4. CASE ring'[d] = ring[d]
    BY <1>1, <2>1, <2>4, Untouched DEF Effect, Unmoved
  <2> QED  BY <2>2, <2>3, <2>4
<1> QED  BY <1>2, <1>3, <1>4 DEF Purge

\* Every step has one of the six effects on each direction.
LEMMA Effects ==
  ASSUME TypeOK, [Next]_vars, NEW d \in Dir
  PROVE  Effect(d)
<1>0. "ComToCompanion" \in Dir /\ "CompanionToCom" \in Dir /\ issued[d] \in Nat
  BY DEF Dir, TypeOK
<1>1. ASSUME NEW e \in Dir, NEW n \in ReadLens, ReadNow(e, n)
      PROVE  Effect(d)
  BY <1>1, EffectLeave DEF ReadNow, queues
<1>2. ASSUME NEW e \in Dir, NEW n \in ReadLens, PendRead(e, n)
      PROVE  Effect(d)
  <2>1. Unmoved(d) /\ writeQ'[d] = writeQ[d] /\ issued'[d] = issued[d]
    BY <1>2 DEF PendRead, Unmoved, streams
  <2> QED  BY <1>0, <2>1, Untouched DEF Effect
<1>3. ASSUME NEW e \in Dir, DrainReads(e)
      PROVE  Effect(d)
  <2>1. Head(readQ[e]) \in Nat
    <3>1. readQ[e] \in Seq(Nat \ {0}) /\ readQ[e] # <<>>
      BY <1>3 DEF DrainReads, TypeOK
    <3> QED  BY <3>1, HeadTailProperties
  <2> QED  BY <1>3, <2>1, EffectLeave DEF DrainReads
<1>4. ASSUME NEW e \in Dir, DrainReadsEnd(e) \/ DrainWritesEnd(e) \/ CancelRead(e)
      PROVE  Effect(d)
  <2>1. Unmoved(d) /\ writeQ'[d] = writeQ[d] /\ issued'[d] = issued[d]
    BY <1>4 DEF DrainReadsEnd, DrainWritesEnd, CancelRead, Unmoved, queues, streams
  <2> QED  BY <1>0, <2>1, Untouched DEF Effect
<1>5. CASE SetTimeouts \/ UNCHANGED vars
  <2>1. Unmoved(d) /\ writeQ'[d] = writeQ[d] /\ issued'[d] = issued[d]
    BY <1>5 DEF SetTimeouts, vars, Unmoved, queues, streams
  <2> QED  BY <1>0, <2>1, Untouched DEF Effect
<1>6. CASE Handlers
  BY <1>0, <1>1, <1>2, <1>6, EffectEvtWrite, EffectImmediateChar
     DEF Handlers, ComEvtWrite, CompEvtWrite, ComEvtRead, CompEvtRead
<1>7. ASSUME NEW e \in Dir, Loops(e) \/ CancelRead(e) \/ CancelWrite(e)
      PROVE  Effect(d)
  BY <1>3, <1>4, <1>7, EffectDrainWrites, EffectCancelWrite DEF Loops
<1> QED  BY <1>5, <1>6, <1>7, EffectPurge DEF Next

-----------------------------------------------------------------------------
(* The order of pended writes.                                             *)

QueueInv == \A d \in Dir : InOrder(writeQ[d], issued[d])

LEMMA QueueInit == Init => QueueInv
<1>1. Len(<<>>) = 0
  BY EmptySeq
<1> QED  BY <1>1 DEF Init, QueueInv, InOrder

\* A write pended behind the others comes after them.
LEMMA QueueAppend ==
  ASSUME TypeOK, NEW d \in Dir, NEW n \in Nat \ {0}, InOrder(writeQ[d], issued[d])
  PROVE  InOrder(Append(writeQ[d], Offered(d, n)), issued[d] + n)
<1> DEFINE q == writeQ[d]
           o == Offered(d, n)
           r == Append(q, o)
           m == issued[d] + n
<1>1. q \in Seq(Seq(Stamp)) /\ o \in Seq(Stamp) /\ Len(q) \in Nat /\ issued[d] \in Nat
  BY OfferedType, LenProperties DEF TypeOK
<1>2. /\ Len(r) = Len(q) + 1
      /\ \A i \in 1..Len(q) : r[i] = q[i]
      /\ r[Len(q) + 1] = o
  BY <1>1, AppendProperties
<1>3. /\ Rising(o) /\ UpTo(o, m)
      /\ \A s \in Seq(Stamp) : UpTo(s, issued[d]) => UpTo(s, m) /\ Before(s, o)
  BY OfferedRelations
<1>4. \A i \in 1..Len(q) : q[i] \in Seq(Stamp)
  BY <1>1, ElementOfSeq
<1>5. InOrder(q, issued[d])
  OBVIOUS
<1> HIDE DEF q, o, r, m
<1>6. \A i \in 1..Len(q) : UpTo(q[i], m) /\ Before(q[i], o) /\ Rising(q[i])
  BY <1>3, <1>4, <1>5 DEF InOrder
<1>7. ASSUME NEW i \in 1..Len(r)
      PROVE  i \in 1..Len(q) \/ (i = Len(q) + 1 /\ r[i] = o)
  <2>1. i \in 1..Len(q) \/ i = Len(q) + 1
    <3>1. Len(r) = Len(q) + 1 /\ Len(q) \in Nat /\ i \in 1..Len(r)
      BY <1>1, <1>2
    <3> QED  BY <3>1
  <2> QED  BY <1>2, <2>1
<1>8. \A i \in 1..Len(r) : UpTo(r[i], m) /\ Rising(r[i])
  BY <1>2, <1>3, <1>6, <1>7
<1>9. ASSUME NEW i \in 1..Len(r), NEW k \in 1..Len(r), i < k
      PROVE  Before(r[i], r[k])
  <2>1. i \in 1..Len(q)
    BY <1>1, <1>2, <1>9
  <2>2. CASE k \in 1..Len(q)
    BY <1>2, <1>5, <1>9, <2>1, <2>2 DEF InOrder
  <2>3. CASE k = Len(q) + 1
    BY <1>2, <1>6, <2>1, <2>3
  <2> QED  BY <1>7, <2>2, <2>3
<1>10. InOrder(r, m)
  BY <1>8, <1>9 DEF InOrder
<1> QED  BY <1>10 DEF r, o, q, m

LEMMA QueueStep == TypeOK /\ TypeOK' /\ QueueInv /\ [Next]_vars => QueueInv'
<1> SUFFICES ASSUME TypeOK, TypeOK', QueueInv, [Next]_vars, NEW d \in Dir
             PROVE  InOrder(writeQ'[d], issued'[d])
  BY DEF QueueInv
<1>1. /\ writeQ[d] \in Seq(Seq(Stamp)) /\ issued[d] \in Nat
      /\ writeQ'[d] \in Seq(Seq(Stamp)) /\ issued'[d] \in Nat
  BY DEF TypeOK
<1>2. InOrder(writeQ[d], issued[d])
  BY DEF QueueInv
<1>3. <<>> \in Seq(Stamp)
  BY EmptySeq
<1>4. CASE Stays(d)
  <2>1. InOrder(writeQ'[d], issued[d])
    BY <1>1, <1>2, <1>3, <1>4, ThinnedQueue DEF Stays
  <2> QED  BY <1>1, <1>4, <2>1, LargerBound DEF Stays
<1>5. CASE Hands(d) \/ Clears(d)
  BY <1>2, <1>5 DEF Hands, Clears
<1>6. CASE Pends(d)
  BY <1>2, <1>6, QueueAppend DEF Pends
<1>7. CASE Accepts(d)
  <2>1. writeQ'[d] = writeQ[d] /\ issued'[d] >= issued[d]
    BY <1>1, <1>7 DEF Accepts
  <2> QED  BY <1>1, <1>2, <2>1, LargerBound
<1>8. CASE Admits(d)
  <2>1. Thins(writeQ[d], writeQ'[d]) /\ issued'[d] = issued[d]
    BY <1>1, <1>8, QueuesThin DEF Admits
  <2> QED  BY <1>1, <1>2, <1>3, <2>1, ThinnedQueue
<1> QED  BY <1>4, <1>5, <1>6, <1>7, <1>8, Effects DEF Effect

LEMMA QueueInvariant == Spec => []QueueInv
BY TypeCorrect, QueueInit, QueueStep, PTL DEF Spec

\* The first of the pended writes, and those behind it.
LEMMA FirstPended ==
  ASSUME TypeOK, QueueInv, NEW d \in Dir, writeQ[d] # <<>>
  PROVE  /\ Head(writeQ[d]) \in Seq(Stamp) /\ Head(writeQ[d]) = writeQ[d][1]
         /\ 1 \in 1..Len(writeQ[d])
         /\ UpTo(Head(writeQ[d]), issued[d]) /\ Rising(Head(writeQ[d]))
         /\ Tail(writeQ[d]) \in Seq(Seq(Stamp))
         /\ \A i \in 1..Len(Tail(writeQ[d])) :
              /\ i + 1 \in 1..Len(writeQ[d]) /\ Tail(writeQ[d])[i] = writeQ[d][i + 1]
              /\ Before(Head(writeQ[d]), Tail(writeQ[d])[i])
<1> DEFINE q == writeQ[d]
<1>1. q \in Seq(Seq(Stamp)) /\ q # <<>> /\ Len(q) \in Nat
  BY LenProperties DEF TypeOK
<1>2. 1 \in 1..Len(q)
  BY <1>1, EmptySeq
<1>3. Head(q) = q[1]
  BY <1>1
<1>4. /\ Head(q) \in Seq(Stamp) /\ Tail(q) \in Seq(Seq(Stamp))
      /\ Len(Tail(q)) = Len(q) - 1
      /\ \A i \in 1..Len(Tail(q)) : Tail(q)[i] = q[i + 1]
  BY <1>1, HeadTailProperties
<1>5. InOrder(q, issued[d])
  BY DEF QueueInv
<1> HIDE DEF q
<1>6. UpTo(q[1], issued[d]) /\ Rising(q[1])
  BY <1>2, <1>5 DEF InOrder
<1>7. ASSUME NEW i \in 1..Len(Tail(q))
      PROVE  i + 1 \in 1..Len(q) /\ Tail(q)[i] = q[i + 1] /\ Before(q[1], Tail(q)[i])
  <2>1. i + 1 \in 1..Len(q) /\ 1 < i + 1
    BY <1>1, <1>4
  <2> QED  BY <1>2, <1>4, <1>5, <2>1 DEF InOrder
<1> QED  BY <1>2, <1>3, <1>4, <1>6, <1>7 DEF q

-----------------------------------------------------------------------------
(* No write overtakes an earlier one.                                      *)

\* The bytes let in come before all that are pended.
AheadInv ==
  \A d \in Dir : /\ UpTo(sent[d], issued[d])
                 /\ \A i \in 1..Len(writeQ[d]) : Before(sent[d], writeQ[d][i])

LEMMA AheadInit == Init => AheadInv
<1>1. Len(<<>>) = 0
  BY EmptySeq
<1> QED  BY <1>1 DEF Init, AheadInv, UpTo

\* What a full ring lets in of anything is nothing.
LEMMA FullRingTakesNothing ==
  ASSUME NEW s \in Seq(Stamp)
  PROVE  Take(s, 0) = <<>>
<1>1. Take(s, 0) \in Seq(Stamp) /\ Len(Take(s, 0)) = 0
  BY TakeProperties, LenProperties DEF Lesser
<1> QED  BY <1>1, EmptySeq

LEMMA RoomType ==
  ASSUME TypeOK, NEW d \in Dir
  PROVE  Room(d) \in Nat
<1>1. Len(ring[d]) \in Nat /\ Len(ring[d]) <= Capacity
  BY LenProperties DEF TypeOK
<1> QED  BY <1>1 DEF Room

LEMMA AheadStep ==
  ASSUME NoClear
  PROVE  /\ TypeOK /\ TypeOK' /\ WritersInv /\ QueueInv /\ AheadInv
         /\ [Next]_vars
         => AheadInv'
<1> SUFFICES ASSUME TypeOK, TypeOK', WritersInv, QueueInv, AheadInv, [Next]_vars, NEW d \in Dir
             PROVE  /\ UpTo(sent'[d], issued'[d])
                    /\ \A i \in 1..Len(writeQ'[d]) : Before(sent'[d], writeQ'[d][i])
  BY DEF AheadInv
<1>1. /\ writeQ[d] \in Seq(Seq(Stamp)) /\ issued[d] \in Nat /\ sent[d] \in Seq(Stamp)
      /\ writeQ'[d] \in Seq(Seq(Stamp)) /\ issued'[d] \in Nat
      /\ Room(d) \in Nat
  BY RoomType DEF TypeOK
<1>2. /\ UpTo(sent[d], issued[d])
      /\ \A i \in 1..Len(writeQ[d]) : Before(sent[d], writeQ[d][i])
  BY DEF AheadInv
<1>3. \A i \in 1..Len(writeQ[d]) : writeQ[d][i] \in Seq(Stamp)
  BY <1>1, ElementOfSeq
<1>4. CASE Stays(d)
  BY <1>1, <1>2, <1>4, ThinnedQueue, LargerBound DEF Stays, Unmoved
<1>5. CASE Hands(d)
  BY <1>2, <1>5 DEF Hands
<1>6. CASE Clears(d)
  BY <1>6 DEF Clears, WritersInv
<1>7. CASE Pends(d)
  <2>1. PICK n \in Nat \ {0} : /\ writeQ'[d] = Append(writeQ[d], Offered(d, n))
                               /\ issued'[d] = issued[d] + n
    BY <1>7 DEF Pends
  <2>2. UpTo(sent[d], issued[d] + n) /\ Before(sent[d], Offered(d, n))
    BY <1>1, <1>2, OfferedRelations
  <2>3. Offered(d, n) \in Seq(Stamp) /\ Len(writeQ[d]) \in Nat
    BY <1>1, OfferedType, LenProperties
  <2>4. /\ Len(writeQ'[d]) = Len(writeQ[d]) + 1
        /\ \A i \in 1..Len(writeQ[d]) : writeQ'[d][i] = writeQ[d][i]
        /\ writeQ'[d][Len(writeQ[d]) + 1] = Offered(d, n)
    BY <1>1, <2>1, <2>3, AppendProperties
  <2>5. sent'[d] = sent[d]
    BY <1>7 DEF Pends, Unmoved
  <2>6. \A i \in 1..Len(writeQ'[d]) : i \in 1..Len(writeQ[d]) \/ i = Len(writeQ[d]) + 1
    BY <2>3, <2>4
  <2> QED  BY <1>2, <2>1, <2>2, <2>4, <2>5, <2>6
<1>8. CASE Accepts(d)
  <2>1. PICK n \in Nat \ {0} : Gains(d, Offered(d, n)) /\ issued'[d] = issued[d] + n
    BY <1>8 DEF Accepts
  <2> DEFINE t == Take(Offered(d, n), Room(d))
  <2>2. Offered(d, n) \in Seq(Stamp)
    BY OfferedType
  <2>3. t \in Seq(Stamp) /\ UpTo(t, issued[d] + n)
    <3>1. issued[d] + n \in Nat
      BY <1>1
    <3>2. UpTo(Offered(d, n), issued[d] + n)
      BY OfferedRelations
    <3> QED  BY <1>1, <2>2, <3>1, <3>2, TakeProperties, TakeRelations
  <2>4. sent'[d] = sent[d] \o t /\ writeQ'[d] = writeQ[d]
    BY <1>8, <2>1 DEF Accepts, Gains
  <2>5. UpTo(sent[d], issued[d] + n)
    BY <1>1, <1>2, LargerBound
  <2>6. UpTo(sent'[d], issued'[d])
    <3> HIDE DEF t
    <3> QED  BY <1>1, <2>1, <2>3, <2>4, <2>5, ConcatRelations
  <2>7. writeQ[d] = <<>> \/ Room(d) = 0
    BY <1>8 DEF Accepts, WritersInv, Free
  <2>8. CASE writeQ[d] = <<>>
    <3>1. Len(writeQ'[d]) = 0
      BY <2>4, <2>8, EmptySeq
    <3> QED  BY <2>6, <3>1
  <2>9. CASE Room(d) = 0
    <3>1. t = <<>>
      BY <2>2, <2>9, FullRingTakesNothing
    <3>2. sent'[d] = sent[d]
      BY <1>1, <2>4, <3>1, ConcatEmptySeq
    <3> QED  BY <1>2, <2>4, <2>6, <3>2
  <2> QED  BY <2>7, <2>8, <2>9
<1>9. CASE Admits(d)
  <2> DEFINE h == Head(writeQ[d])
             t == Take(h, Room(d))
             q == Tail(writeQ[d])
  <2>1. /\ h \in Seq(Stamp) /\ UpTo(h, issued[d]) /\ q \in Seq(Seq(Stamp))
        /\ \A i \in 1..Len(q) : /\ i + 1 \in 1..Len(writeQ[d]) /\ q[i] = writeQ[d][i + 1]
                                /\ Before(h, q[i])
    BY <1>9, FirstPended DEF Admits
  <2>2. sent'[d] = sent[d] \o t /\ writeQ'[d] = q /\ issued'[d] = issued[d]
    BY <1>9 DEF Admits, Gains
  <2> HIDE DEF h, q
  <2>3. t \in Seq(Stamp) /\ UpTo(t, issued[d])
    BY <1>1, <2>1, TakeProperties, TakeRelations
  <2>4. ASSUME NEW i \in 1..Len(q)
        PROVE  Before(t, q[i]) /\ Before(sent[d], q[i]) /\ q[i] \in Seq(Stamp)
    <3>1. q[i] \in Seq(Stamp)
      BY <2>1, ElementOfSeq
    <3>2. Before(t, q[i])
      BY <1>1, <2>1, <3>1, TakeRelations
    <3>3. Before(sent[d], q[i])
      BY <1>2, <2>1
    <3> QED  BY <3>1, <3>2, <3>3
  <2> HIDE DEF t
  <2>5. UpTo(sent[d] \o t, issued[d])
    BY <1>1, <1>2, <2>3, ConcatRelations
  <2>6. \A i \in 1..Len(q) : Before(sent[d] \o t, q[i])
    BY <1>1, <2>3, <2>4, ConcatRelations
  <2> QED  BY <2>2, <2>5, <2>6
<1> QED  BY <1>4, <1>5, <1>6, <1>7, <1>8, <1>9, Effects DEF Effect

LEMMA WritersInvariant ==
  ASSUME NoClear
  PROVE  Spec => []WritersInv
<1>1. TypeOK /\ ReadersInv /\ WritersInv /\ [Next]_vars => WritersInv'
  BY WritersStep
<1> QED  BY <1>1, WritersInit, TypeCorrect, ReadersInvariant, PTL DEF Spec

\* What the two invariants say of the ends of the pended writes.
LEMMA AheadMeansNoOvertaking ==
  ASSUME TypeOK, QueueInv, AheadInv
  PROVE  NoOvertaking
<1> SUFFICES ASSUME NEW d \in Dir, NEW i \in 1..Len(writeQ[d])
             PROVE  /\ \A k \in 1..Len(sent[d]) : sent[d][k] < Head(writeQ[d][i])
                    /\ i < Len(writeQ[d]) =>
                         writeQ[d][i][Len(writeQ[d][i])] < Head(writeQ[d][i + 1])
  BY DEF NoOvertaking
<1>1. writeQ[d] \in Seq(Seq(Stamp)) /\ Len(writeQ[d]) \in Nat
  BY LenProperties DEF TypeOK
<1>2. \A k \in 1..Len(writeQ[d]) :
        /\ 1 \in 1..Len(writeQ[d][k]) /\ Len(writeQ[d][k]) \in 1..Len(writeQ[d][k])
        /\ Head(writeQ[d][k]) = writeQ[d][k][1]
  <2> SUFFICES ASSUME NEW k \in 1..Len(writeQ[d])
               PROVE  /\ 1 \in 1..Len(writeQ[d][k])
                      /\ Len(writeQ[d][k]) \in 1..Len(writeQ[d][k])
                      /\ Head(writeQ[d][k]) = writeQ[d][k][1]
    OBVIOUS
  <2>1. writeQ[d][k] \in Seq(Stamp) /\ writeQ[d][k] # <<>>
    BY <1>1, ElementOfSeq DEF TypeOK
  <2>2. Len(writeQ[d][k]) \in Nat \ {0}
    BY <2>1, EmptySeq
  <2> QED  BY <2>1, <2>2
<1>3. \A k \in 1..Len(sent[d]) : sent[d][k] < Head(writeQ[d][i])
  BY <1>2 DEF AheadInv, Before
<1>4. ASSUME i < Len(writeQ[d])
      PROVE  writeQ[d][i][Len(writeQ[d][i])] < Head(writeQ[d][i + 1])
  <2>1. i + 1 \in 1..Len(writeQ[d]) /\ i < i + 1
    BY <1>1, <1>4
  <2>2. Before(writeQ[d][i], writeQ[d][i + 1])
    BY <2>1 DEF QueueInv, InOrder
  <2> QED  BY <1>2, <2>1, <2>2 DEF Before
<1> QED  BY <1>3, <1>4

\* When the application clears no buffer, no write overtakes an earlier one,
\* for every capacity and every mix of partial writes, drains, cancellations
\* and aborts (the order of GcomDrainWritesToRing's queue).
THEOREM WritesKeepTheirOrder ==
  ASSUME NoClear
  PROVE  Spec => []NoOvertaking
<1>1. /\ TypeOK /\ TypeOK' /\ WritersInv /\ QueueInv /\ AheadInv
      /\ [Next]_vars
      => AheadInv'
  BY AheadStep
<1>2. Spec => []WritersInv
  BY WritersInvariant
<1>3. TypeOK /\ QueueInv /\ AheadInv => NoOvertaking
  BY AheadMeansNoOvertaking
<1> QED  BY <1>1, <1>2, <1>3, AheadInit, TypeCorrect, QueueInvariant, PTL DEF Spec

-----------------------------------------------------------------------------
(* No byte is handed over twice.                                           *)

\* The bytes handed over or buffered are all different, and none of them is
\* still pended.
Seen(d) == received[d] \o ring[d]

OnceInv ==
  \A d \in Dir : /\ UpTo(Seen(d), issued[d])
                 /\ Distinct(Seen(d))
                 /\ \A i \in 1..Len(writeQ[d]) : Apart(Seen(d), writeQ[d][i])

LEMMA OnceInit == Init => OnceInv
<1>1. <<>> \in Seq(Stamp) /\ Len(<<>>) = 0
  BY EmptySeq
<1>2. <<>> \o <<>> = <<>>
  BY <1>1, ConcatEmptySeq
<1> QED  BY <1>1, <1>2 DEF Init, OnceInv, Seen, UpTo, Distinct

LEMMA StampsAssociate ==
  ASSUME NEW s \in Seq(Stamp), NEW t \in Seq(Stamp), NEW u \in Seq(Stamp)
  PROVE  (s \o t) \o u = s \o (t \o u)
BY ConcatAssociative

\* Only what the ring gains is added to what was seen.
LEMMA SeenStep ==
  ASSUME TypeOK, NEW d \in Dir
  PROVE  /\ Seen(d) \in Seq(Stamp)
         /\ Hands(d) => Seen(d)' = Seen(d)
         /\ Clears(d) => Seen(d)' = received[d]
         /\ \A data \in Seq(Stamp) : Gains(d, data) =>
              Seen(d)' = Seen(d) \o Take(data, Room(d))
<1>1. received[d] \in Seq(Stamp) /\ ring[d] \in Seq(Stamp) /\ Room(d) \in Nat
  BY RoomType DEF TypeOK
<1>2. Seen(d) \in Seq(Stamp)
  BY <1>1, ConcatProperties DEF Seen
<1>3. ASSUME Hands(d)
      PROVE  Seen(d)' = Seen(d)
  <2>1. PICK n \in Nat : /\ ring'[d] = Drop(ring[d], n)
                         /\ received'[d] = received[d] \o Take(ring[d], n)
    BY <1>3 DEF Hands
  <2>2. Take(ring[d], n) \in Seq(Stamp) /\ Drop(ring[d], n) \in Seq(Stamp)
    BY <1>1, TakeProperties, DropProperties
  <2>3. (received[d] \o Take(ring[d], n)) \o Drop(ring[d], n)
          = received[d] \o (Take(ring[d], n) \o Drop(ring[d], n))
    BY <1>1, <2>2, StampsAssociate
  <2>4. Take(ring[d], n) \o Drop(ring[d], n) = ring[d]
    BY <1>1, TakeDrop
  <2> QED  BY <2>1, <2>3, <2>4 DEF Seen
<1>4. ASSUME Clears(d)
      PROVE  Seen(d)' = received[d]
  BY <1>1, <1>4, ConcatEmptySeq DEF Seen, Clears
<1>5. ASSUME NEW data \in Seq(Stamp), Gains(d, data)
      PROVE  Seen(d)' = Seen(d) \o Take(data, Room(d))
  <2>1. Take(data, Room(d)) \in Seq(Stamp)
    BY <1>1, TakeProperties
  <2>2. (received[d] \o ring[d]) \o Take(data, Room(d))
          = received[d] \o (ring[d] \o Take(data, Room(d)))
    BY <1>1, <2>1, StampsAssociate
  <2> QED  BY <1>5, <2>2 DEF Seen, Gains
<1> QED  BY <1>2, <1>3, <1>4, <1>5

LEMMA OnceStep == TypeOK /\ TypeOK' /\ QueueInv /\ OnceInv /\ [Next]_vars => OnceInv'
<1> SUFFICES ASSUME TypeOK, TypeOK', QueueInv, OnceInv, [Next]_vars, NEW d \in Dir
             PROVE  /\ UpTo(Seen(d)', issued'[d])
                    /\ Distinct(Seen(d)')
                    /\ \A i \in 1..Len(writeQ'[d]) : Apart(Seen(d)', writeQ'[d][i])
  BY DEF OnceInv
<1> DEFINE s == Seen(d)
<1>1. /\ writeQ[d] \in Seq(Seq(Stamp)) /\ issued[d] \in Nat
      /\ writeQ'[d] \in Seq(Seq(Stamp)) /\ issued'[d] \in Nat
      /\ Room(d) \in Nat
  BY RoomType DEF TypeOK
<1>2. /\ s \in Seq(Stamp) /\ UpTo(s, issued[d]) /\ Distinct(s)
      /\ \A i \in 1..Len(writeQ[d]) : Apart(s, writeQ[d][i])
  BY SeenStep DEF OnceInv
<1>3. \A i \in 1..Len(writeQ[d]) : writeQ[d][i] \in Seq(Stamp)
  BY <1>1, ElementOfSeq
<1>4. ASSUME Unmoved(d)
      PROVE  Seen(d)' = s
  BY <1>4 DEF Unmoved, Seen
<1> HIDE DEF s
<1>5. CASE Stays(d)
  <2>1. Seen(d)' = s /\ issued'[d] >= issued[d] /\ Thins(writeQ[d], writeQ'[d])
    BY <1>4, <1>5 DEF Stays
  <2>2. \A i \in 1..Len(writeQ'[d]) : Apart(s, writeQ'[d][i])
    BY <1>1, <1>2, <2>1, ThinnedQueue
  <2>3. UpTo(s, issued'[d])
    BY <1>1, <1>2, <2>1, LargerBound
  <2> QED  BY <1>2, <2>1, <2>2, <2>3
<1>6. CASE Hands(d)
  <2>1. Seen(d)' = s
    BY <1>6, SeenStep DEF s
  <2> QED  BY <1>2, <1>6, <2>1 DEF Hands
<1>7. CASE Clears(d)
  <2>1. Seen(d)' = received[d] /\ s = received[d] \o ring[d]
    BY <1>7, SeenStep DEF s, Seen
  <2>2. received[d] \in Seq(Stamp) /\ ring[d] \in Seq(Stamp)
    BY DEF TypeOK
  <2>3. UpTo(received[d], issued[d]) /\ Distinct(received[d])
    BY <1>1, <1>2, <2>1, <2>2, ConcatRelations
  <2>4. \A i \in 1..Len(writeQ[d]) : Apart(received[d], writeQ[d][i])
    BY <1>1, <1>2, <1>3, <2>1, <2>2, ConcatRelations
  <2> QED  BY <1>7, <2>1, <2>3, <2>4 DEF Clears
<1>8. CASE Pends(d)
  <2>1. PICK n \in Nat \ {0} : /\ writeQ'[d] = Append(writeQ[d], Offered(d, n))
                               /\ issued'[d] = issued[d] + n
    BY <1>8 DEF Pends
  <2>2. Offered(d, n) \in Seq(Stamp) /\ Len(writeQ[d]) \in Nat
    BY <1>1, OfferedType, LenProperties
  <2>3. UpTo(s, issued[d] + n) /\ Before(s, Offered(d, n))
    BY <1>2, OfferedRelations
  <2>4. Apart(s, Offered(d, n))
    BY <1>2, <2>2, <2>3, BeforeIsApart
  <2>5. /\ Len(writeQ'[d]) = Len(writeQ[d]) + 1
        /\ \A i \in 1..Len(writeQ[d]) : writeQ'[d][i] = writeQ[d][i]
        /\ writeQ'[d][Len(writeQ[d]) + 1] = Offered(d, n)
    BY <1>1, <2>1, <2>2, AppendProperties
  <2>6. Seen(d)' = s
    BY <1>4, <1>8 DEF Pends
  <2>7. \A i \in 1..Len(writeQ'[d]) : i \in 1..Len(writeQ[d]) \/ i = Len(writeQ[d]) + 1
    BY <2>2, <2>5
  <2> QED  BY <1>2, <2>1, <2>3, <2>4, <2>5, <2>6, <2>7
<1>9. CASE Accepts(d)
  <2>1. PICK n \in Nat \ {0} : Gains(d, Offered(d, n)) /\ issued'[d] = issued[d] + n
    BY <1>9 DEF Accepts
  <2> DEFINE o == Offered(d, n)
             t == Take(o, Room(d))
             m == issued[d] + n
  <2>2. o \in Seq(Stamp) /\ Rising(o) /\ UpTo(o, m) /\ m \in Nat
    BY <1>1, OfferedType, OfferedRelations
  <2>3. /\ UpTo(s, m) /\ Before(s, o)
        /\ \A i \in 1..Len(writeQ[d]) : Before(writeQ[d][i], o)
    BY <1>2, <1>3, OfferedRelations DEF QueueInv, InOrder
  <2>4. Seen(d)' = s \o t /\ writeQ'[d] = writeQ[d] /\ issued'[d] = m
    BY <1>9, <2>1, <2>2, SeenStep DEF s, Accepts
  <2> HIDE DEF o, m
  <2>5. t \in Seq(Stamp) /\ UpTo(t, m) /\ Distinct(t)
    BY <1>1, <2>2, TakeProperties, TakeRelations
  <2>6. Apart(s, t)
    <3>1. Apart(s, o)
      BY <1>2, <2>2, <2>3, BeforeIsApart
    <3> QED  BY <1>1, <1>2, <2>2, <3>1, TakeRelations
  <2>7. ASSUME NEW i \in 1..Len(writeQ[d])
        PROVE  Apart(t, writeQ[d][i])
    <3>1. Apart(o, writeQ[d][i])
      BY <1>3, <2>2, <2>3, BeforeIsApart
    <3> QED  BY <1>1, <1>3, <2>2, <3>1, TakeRelations
  <2> HIDE DEF t
  <2>8. UpTo(s \o t, m) /\ Distinct(s \o t)
    BY <1>2, <2>2, <2>3, <2>5, <2>6, ConcatRelations
  <2>9. ASSUME NEW i \in 1..Len(writeQ[d])
        PROVE  Apart(s \o t, writeQ[d][i])
    BY <1>2, <1>3, <2>2, <2>5, <2>7, ConcatRelations
  <2> QED  BY <2>4, <2>8, <2>9
<1>10. CASE Admits(d)
  <2> DEFINE h == Head(writeQ[d])
             t == Take(h, Room(d))
             q == Tail(writeQ[d])
             m == issued[d]
  <2>1. /\ h \in Seq(Stamp) /\ UpTo(h, m) /\ Rising(h) /\ h = writeQ[d][1]
        /\ 1 \in 1..Len(writeQ[d]) /\ q \in Seq(Seq(Stamp))
        /\ \A i \in 1..Len(q) : /\ i + 1 \in 1..Len(writeQ[d]) /\ q[i] = writeQ[d][i + 1]
                                /\ Before(h, q[i])
    BY <1>10, FirstPended DEF Admits
  <2>2. Seen(d)' = s \o t /\ writeQ'[d] = q /\ issued'[d] = m
    BY <1>10, <2>1, SeenStep DEF s, Admits
  <2>3. Apart(s, h) /\ \A i \in 1..Len(q) : Apart(s, q[i])
    BY <1>2, <2>1
  <2> HIDE DEF h, q, m
  <2>4. t \in Seq(Stamp) /\ UpTo(t, m) /\ Distinct(t) /\ Apart(s, t)
    <3>1. m \in Nat
      BY <1>1 DEF m
    <3> QED  BY <1>1, <1>2, <2>1, <2>3, <3>1, TakeProperties, TakeRelations
  <2>5. ASSUME NEW i \in 1..Len(q)
        PROVE  Apart(t, q[i]) /\ q[i] \in Seq(Stamp)
    <3>1. q[i] \in Seq(Stamp)
      BY <2>1, ElementOfSeq
    <3>2. Apart(h, q[i])
      BY <2>1, <3>1, BeforeIsApart
    <3> QED  BY <1>1, <2>1, <3>1, <3>2, TakeRelations
  <2> HIDE DEF t
  <2>6. UpTo(s \o t, m) /\ Distinct(s \o t)
    <3>1. m \in Nat /\ UpTo(s, m)
      BY <1>1, <1>2 DEF m
    <3> QED  BY <1>2, <2>4, <3>1, ConcatRelations
  <2>7. ASSUME NEW i \in 1..Len(q)
        PROVE  Apart(s \o t, q[i])
    BY <1>1, <1>2, <2>3, <2>4, <2>5, ConcatRelations
  <2> QED  BY <2>2, <2>6, <2>7
<1> QED  BY <1>5, <1>6, <1>7, <1>8, <1>9, <1>10, Effects DEF Effect, s

\* No byte is handed to a reader twice or left in the ring after it was
\* handed over, for every capacity and every purge, those that clear the
\* rings under pended writes included.
THEOREM BytesAreHandedOverOnce == Spec => []NeverTwice
<1>1. OnceInv => NeverTwice
  BY DEF OnceInv, NeverTwice, Seen, Distinct
<1> QED  BY <1>1, OnceInit, OnceStep, TypeCorrect, QueueInvariant, PTL DEF Spec

-----------------------------------------------------------------------------
(* Each direction is a byte pipe.                                          *)

\* What was let in is what was handed over and what is buffered.
PipeInv == \A d \in Dir : sent[d] = Seen(d)

LEMMA PipeInit == Init => PipeInv
<1>1. <<>> \in Seq(Stamp)
  BY EmptySeq
<1>2. <<>> \o <<>> = <<>>
  BY <1>1, ConcatEmptySeq
<1> QED  BY <1>2 DEF Init, PipeInv, Seen

LEMMA PipeStep ==
  ASSUME NoClear
  PROVE  TypeOK /\ QueueInv /\ WritersInv /\ PipeInv /\ [Next]_vars => PipeInv'
<1> SUFFICES ASSUME TypeOK, QueueInv, WritersInv, PipeInv, [Next]_vars, NEW d \in Dir
             PROVE  sent'[d] = Seen(d)'
  BY DEF PipeInv
<1>1. sent[d] = Seen(d)
  BY DEF PipeInv
<1>2. CASE Stays(d) \/ Pends(d)
  BY <1>1, <1>2 DEF Stays, Pends, Unmoved, Seen
<1>3. CASE Hands(d)
  <2>1. Seen(d)' = Seen(d)
    BY <1>3, SeenStep
  <2> QED  BY <1>1, <1>3, <2>1 DEF Hands
<1>4. CASE Clears(d)
  BY <1>4 DEF Clears, WritersInv
<1>5. CASE Accepts(d)
  <2>1. PICK n \in Nat \ {0} : Gains(d, Offered(d, n))
    BY <1>5 DEF Accepts
  <2>2. Offered(d, n) \in Seq(Stamp)
    BY OfferedType
  <2>3. Seen(d)' = Seen(d) \o Take(Offered(d, n), Room(d))
    BY <2>1, <2>2, SeenStep
  <2> QED  BY <1>1, <2>1, <2>3 DEF Gains
<1>6. CASE Admits(d)
  <2>1. Head(writeQ[d]) \in Seq(Stamp) /\ Gains(d, Head(writeQ[d]))
    BY <1>6, FirstPended DEF Admits
  <2>2. Seen(d)' = Seen(d) \o Take(Head(writeQ[d]), Room(d))
    BY <2>1, SeenStep
  <2> QED  BY <1>1, <2>1, <2>2 DEF Gains
<1> QED  BY <1>2, <1>3, <1>4, <1>5, <1>6, Effects DEF Effect

LEMMA PipeInvariant ==
  ASSUME NoClear
  PROVE  Spec => []PipeInv
<1>1. TypeOK /\ QueueInv /\ WritersInv /\ PipeInv /\ [Next]_vars => PipeInv'
  BY PipeStep
<1>2. Spec => []WritersInv
  BY WritersInvariant
<1> QED  BY <1>1, <1>2, PipeInit, TypeCorrect, QueueInvariant, PTL DEF Spec

\* A sequence of stamps that something is appended to has grown, or is what
\* it was when that is nothing.
GrewOrKept(s, t) ==
  \/ t = s
  \/ Len(s) < Len(t) /\ \A i \in 1..Len(s) : t[i] = s[i]

LEMMA ConcatGrows ==
  ASSUME NEW s \in Seq(Stamp), NEW t \in Seq(Stamp)
  PROVE  /\ GrewOrKept(s, s \o t)
         /\ Len(s) <= Len(s \o t)
         /\ \A i \in 1..Len(s) : (s \o t)[i] = s[i]
<1>1. /\ Len(s) \in Nat /\ Len(t) \in Nat /\ Len(s \o t) = Len(s) + Len(t)
      /\ \A i \in 1..(Len(s) + Len(t)) : (s \o t)[i] = IF i <= Len(s) THEN s[i] ELSE t[i - Len(s)]
  BY LenProperties, ConcatProperties
<1> DEFINE c == s \o t
<1>2. t = <<>> => c = s
  BY ConcatEmptySeq
<1>3. t # <<>> => Len(t) > 0
  BY EmptySeq
<1> HIDE DEF c
<1>4. Len(s) <= Len(c) /\ \A i \in 1..Len(s) : c[i] = s[i]
  BY <1>1 DEF c
<1>5. t # <<>> => Len(s) < Len(c)
  BY <1>1, <1>3 DEF c
<1> QED  BY <1>2, <1>4, <1>5 DEF GrewOrKept, c

\* What a step does to the two ends of a direction: one of them grows or
\* neither moves, and readers stay within what was let in.
LEMMA PipeEnds ==
  ASSUME TypeOK, TypeOK', QueueInv, WritersInv, PipeInv, PipeInv', [Next]_vars, NEW d \in Dir
  PROVE  \/ /\ GrewOrKept(sent[d], sent'[d])
            /\ received'[d] = received[d]
            /\ Len(sent'[d]) - Len(received[d]) <= Capacity
         \/ /\ GrewOrKept(received[d], received'[d])
            /\ sent'[d] = sent[d]
            /\ Len(received'[d]) <= Len(sent[d])
            /\ \A i \in 1..Len(received'[d]) : received'[d][i] = sent[d][i]
<1>1. /\ sent[d] \in Seq(Stamp) /\ received[d] \in Seq(Stamp) /\ ring[d] \in Seq(Stamp)
      /\ sent'[d] \in Seq(Stamp) /\ received'[d] \in Seq(Stamp) /\ ring'[d] \in Seq(Stamp)
      /\ Len(ring'[d]) <= Capacity /\ Room(d) \in Nat
  BY RoomType DEF TypeOK
<1>2. sent[d] = received[d] \o ring[d] /\ sent'[d] = received'[d] \o ring'[d]
  BY DEF PipeInv, Seen
<1>3. Len(sent'[d]) - Len(received'[d]) <= Capacity
  <2>1. /\ Len(sent'[d]) = Len(received'[d]) + Len(ring'[d])
        /\ Len(received'[d]) \in Nat /\ Len(ring'[d]) \in Nat
    BY <1>1, <1>2, ConcatProperties, LenProperties
  <2> QED  BY <1>1, <2>1
<1>4. ASSUME NEW data \in Seq(Stamp), Gains(d, data)
      PROVE  GrewOrKept(sent[d], sent'[d]) /\ received'[d] = received[d]
  <2>1. Take(data, Room(d)) \in Seq(Stamp)
    BY <1>1, TakeProperties
  <2> QED  BY <1>1, <1>4, <2>1, ConcatGrows DEF Gains
<1>5. CASE Stays(d) \/ Pends(d)
  BY <1>3, <1>5 DEF Stays, Pends, Unmoved, GrewOrKept
<1>6. CASE Hands(d)
  <2>1. PICK n \in Nat : received'[d] = received[d] \o Take(ring[d], n)
    BY <1>6 DEF Hands
  <2>2. Take(ring[d], n) \in Seq(Stamp)
    BY <1>1, TakeProperties
  <2>3. GrewOrKept(received[d], received'[d])
    BY <1>1, <2>1, <2>2, ConcatGrows
  <2>4. sent'[d] = sent[d]
    BY <1>6 DEF Hands
  <2>5. /\ Len(received'[d]) <= Len(sent'[d])
        /\ \A i \in 1..Len(received'[d]) : sent'[d][i] = received'[d][i]
    <3>1. /\ Len(received'[d]) <= Len(received'[d] \o ring'[d])
          /\ \A i \in 1..Len(received'[d]) : (received'[d] \o ring'[d])[i] = received'[d][i]
      BY <1>1, ConcatGrows
    <3> QED  BY <1>2, <3>1
  <2> QED  BY <2>3, <2>4, <2>5
<1>7. CASE Clears(d)
  BY <1>7 DEF Clears, WritersInv
<1>8. CASE Accepts(d)
  <2>1. PICK n \in Nat \ {0} : Gains(d, Offered(d, n))
    BY <1>8 DEF Accepts
  <2>2. Offered(d, n) \in Seq(Stamp)
    BY OfferedType
  <2> QED  BY <1>3, <1>4, <2>1, <2>2
<1>9. CASE Admits(d)
  <2>1. Head(writeQ[d]) \in Seq(Stamp) /\ Gains(d, Head(writeQ[d]))
    BY <1>9, FirstPended DEF Admits
  <2> QED  BY <1>3, <1>4, <2>1
<1> QED  BY <1>5, <1>6, <1>7, <1>8, <1>9, Effects DEF Effect

LEMMA PipesStep ==
  ASSUME NoClear
  PROVE  /\ TypeOK /\ TypeOK' /\ QueueInv /\ WritersInv /\ PipeInv /\ PipeInv'
         /\ [Next]_vars
         => [ToComp!Next]_(ToComp!vars) /\ [ToCom!Next]_(ToCom!vars)
<1> SUFFICES ASSUME TypeOK, TypeOK', QueueInv, WritersInv, PipeInv, PipeInv', [Next]_vars
             PROVE  [ToComp!Next]_(ToComp!vars) /\ [ToCom!Next]_(ToCom!vars)
  OBVIOUS
<1>1. [ToComp!Next]_(ToComp!vars)
  <2> DEFINE d == "ComToCompanion"
  <2>1. d \in Dir
    BY DEF Dir
  <2> QED  BY <2>1, PipeEnds
           DEF GrewOrKept, ToComp!Next, ToComp!vars, ToComp!Send, ToComp!Deliver, ToComp!Grows
<1>2. [ToCom!Next]_(ToCom!vars)
  <2> DEFINE d == "CompanionToCom"
  <2>1. d \in Dir
    BY DEF Dir
  <2> QED  BY <2>1, PipeEnds
           DEF GrewOrKept, ToCom!Next, ToCom!vars, ToCom!Send, ToCom!Deliver, ToCom!Grows
<1> QED  BY <1>1, <1>2

\* When the application clears no buffer, each direction is a byte pipe, for
\* every capacity: the bytes accepted come out once each, in order, with at
\* most Capacity of them on the way (both write handlers, both read handlers
\* and the two drain loops implement BytePipe).
THEOREM DirectionsAreBytePipes ==
  ASSUME NoClear
  PROVE  Spec => ImplementsPipe
<1>1. Init => ToComp!Init /\ ToCom!Init
  BY DEF Init, ToComp!Init, ToCom!Init, Dir
<1>2. /\ TypeOK /\ TypeOK' /\ QueueInv /\ WritersInv /\ PipeInv /\ PipeInv'
      /\ [Next]_vars
      => [ToComp!Next]_(ToComp!vars) /\ [ToCom!Next]_(ToCom!vars)
  BY PipesStep
<1>3. Spec => []WritersInv
  BY WritersInvariant
<1>4. Spec => []PipeInv
  BY PipeInvariant
<1> QED  BY <1>1, <1>2, <1>3, <1>4, TypeCorrect, QueueInvariant, PTL
         DEF Spec, ImplementsPipe, ToComp!SafeSpec, ToCom!SafeSpec

=============================================================================
