------------------------------ MODULE DataPath -------------------------------
(***************************************************************************)
(* The data path of one virtual port: two rings, one per direction, and    *)
(* for each the read and write requests that could not be served at once.  *)
(* Sources: GcomComEvtRead, GcomComEvtWrite and the PURGE, TIMEOUTS and    *)
(* IMMEDIATE_CHAR requests of comport.c, GcomCompEvtRead and               *)
(* GcomCompEvtWrite of companion.c, and the two drain loops of portpair.c. *)
(*                                                                         *)
(* A handler runs under DataLock, but the framework cancels queued         *)
(* requests, and a PURGE empties queues, without that lock.  So a handler  *)
(* is its first step, which takes the lock, and then one step per          *)
(* iteration of the drain loop it calls, with cancellations in between.    *)
(*                                                                         *)
(* Bytes are numbered in the order they are handed to WriteFile, so that a *)
(* reader's bytes show whether any was lost, repeated or overtaken.  The   *)
(* wait-mask checks a handler makes after it has released the lock touch   *)
(* nothing here, and the PerfStats counters nothing reads are left out.    *)
(***************************************************************************)
EXTENDS FifoOps

CONSTANTS
  Capacity,     (* bytes a ring holds, its Size - 1                        *)
  WriteLens,    (* lengths of the writes the programs issue                *)
  ReadLens,     (* lengths of the reads they issue                         *)
  MaxBytes,     (* per direction, bytes offered by all writes (bound)      *)
  MaxPending,   (* requests a program keeps outstanding per queue (bound)  *)
  PurgeCalls    (* the flag sets the COM application passes to PurgeComm   *)

\* The ring names of GCOM_PORT_PAIR, used for the two directions.
Dir == {"ComToCompanion", "CompanionToCom"}

PurgeFlag == {"TXABORT", "RXABORT", "TXCLEAR", "RXCLEAR"}

ASSUME CapacityAssumption == Capacity \in Nat \ {0}
ASSUME LensAssumption == WriteLens \subseteq Nat \ {0} /\ ReadLens \subseteq Nat \ {0}
ASSUME BoundsAssumption == MaxBytes \in [Dir -> Nat] /\ MaxPending \in Nat
ASSUME PurgeAssumption == PurgeCalls \subseteq (SUBSET PurgeFlag) \ {{}}

VARIABLES
  ring,      (* per direction, the bytes buffered, oldest first            *)
  readQ,     (* ComReadQueue and CompReadQueue: lengths of pended reads    *)
  writeQ,    (* ComWriteQueue and CompWriteQueue: data of pended writes    *)
  lock,      (* who holds DataLock: <<what it is doing, for which ring>>   *)
  purge,     (* flags the PURGE request being handled has yet to act on    *)
  stopped,   (* directions whose COM-side queue a purge has not restarted  *)
  timeouts,  (* the COM side's Timeouts, as a read with no data sees them  *)
  issued,    (* bytes handed to WriteFile so far; numbers the next ones    *)
  sent,      (* bytes the ring has accepted, which is what a write reports *)
  received   (* bytes handed to the reading program                        *)

queues == <<readQ, writeQ>>
streams == <<issued, sent, received>>
control == <<purge, stopped, timeouts>>
vars == <<ring, queues, lock, control, streams>>

Free == <<"free">>

\* GcomRingWriteAvailable, and a ring that also fills its spare slot.
RoomSpareSlot(d) == Capacity + 1 - Len(ring[d])
Room(d) == Capacity - Len(ring[d])

Init ==
  /\ ring = [d \in Dir |-> <<>>]
  /\ readQ = [d \in Dir |-> <<>>]
  /\ writeQ = [d \in Dir |-> <<>>]
  /\ lock = Free
  /\ purge = {}
  /\ stopped = {}
  /\ timeouts = "blocking"
  /\ issued = [d \in Dir |-> 0]
  /\ sent = [d \in Dir |-> <<>>]
  /\ received = [d \in Dir |-> <<>>]

\* GcomRingWrite: the prefix of data that fits, which is what is reported.
Enter(d, data) ==
  /\ ring' = [ring EXCEPT ![d] = @ \o Take(data, Room(d))]
  /\ sent' = [sent EXCEPT ![d] = @ \o Take(data, Room(d))]

\* GcomRingRead into a buffer of n bytes that goes back to its reader; and
\* one that forgets to publish the read position, or moves it too far.
LeaveNothing(d, n) ==
  /\ received' = [received EXCEPT ![d] = @ \o Take(ring[d], n)]
  /\ UNCHANGED ring

LeaveTooFar(d, n) ==
  /\ ring' = [ring EXCEPT ![d] = Drop(@, n + 1)]
  /\ received' = [received EXCEPT ![d] = @ \o Take(ring[d], n)]

Leave(d, n) ==
  /\ ring' = [ring EXCEPT ![d] = Drop(@, n)]
  /\ received' = [received EXCEPT ![d] = @ \o Take(ring[d], n)]

\* The manual queue of direction d on the COM side: the writes of
\* ComToCompanion, the reads of CompanionToCom.
ComReadStopped(d) == d = "CompanionToCom" /\ d \in stopped
ComWriteStopped(d) == d = "ComToCompanion" /\ d \in stopped

\* A handler that has put bytes in goes on to drain reads, one that has taken
\* bytes out to drain writes; the careless one just releases the lock.
AfterEnterForgetful(d) == Free
AfterEnter(d) == <<"drainReads", d>>

AfterLeaveForgetful(d) == Free
AfterLeave(d) == <<"drainWrites", d>>

\* The next n bytes offered to direction d.
Offered(d, n) == [i \in 1..n |-> issued[d] + i]

-----------------------------------------------------------------------------
(* The handlers, from the acquisition of DataLock.                         *)

\* A write request: into the ring and on to pended reads, or pended when the
\* ring is full, or failed when the full ring's queue is being purged.
EvtWrite(d, n) ==
  /\ lock = Free
  /\ issued[d] + n <= MaxBytes[d]
  /\ issued' = [issued EXCEPT ![d] = @ + n]
  /\ \/ /\ Room(d) > 0
        /\ Enter(d, Offered(d, n))
        /\ lock' = AfterEnter(d)
        /\ UNCHANGED queues
     \/ /\ Room(d) = 0
        /\ ~ComWriteStopped(d)
        /\ Len(writeQ[d]) < MaxPending
        /\ writeQ' = [writeQ EXCEPT ![d] = Append(@, Offered(d, n))]
        /\ UNCHANGED <<ring, readQ, lock, sent>>
     \/ /\ Room(d) = 0
        /\ ComWriteStopped(d)
        /\ UNCHANGED <<ring, queues, lock, sent>>
  /\ UNCHANGED <<control, received>>

ComEvtWrite == \E n \in WriteLens : EvtWrite("ComToCompanion", n)
CompEvtWrite == \E n \in WriteLens : EvtWrite("CompanionToCom", n)

\* A read that finds bytes takes them and lets pended writes in.
ReadNow(d, n) ==
  /\ lock = Free
  /\ ring[d] # <<>>
  /\ Leave(d, n)
  /\ lock' = AfterLeave(d)
  /\ UNCHANGED <<queues, control, issued, sent>>

\* A read that finds none waits, unless its queue is being purged; the hasty
\* variant waits without having looked.
PendReadUnseen(d, n) ==
  /\ lock = Free
  /\ Len(readQ[d]) < MaxPending
  /\ readQ' = [readQ EXCEPT ![d] = Append(@, n)]
  /\ UNCHANGED <<ring, writeQ, lock, control, streams>>

PendRead(d, n) ==
  /\ lock = Free
  /\ ring[d] = <<>>
  /\ ~ComReadStopped(d)
  /\ Len(readQ[d]) < MaxPending
  /\ readQ' = [readQ EXCEPT ![d] = Append(@, n)]
  /\ UNCHANGED <<ring, writeQ, lock, control, streams>>

\* With the (MAXDWORD, 0, 0) timeouts a COM read with no data completes with
\* no bytes and pends nothing.
ComEvtRead ==
  \E n \in ReadLens :
    \/ ReadNow("CompanionToCom", n)
    \/ timeouts # "immediate" /\ PendRead("CompanionToCom", n)

CompEvtRead ==
  \E n \in ReadLens :
    \/ ReadNow("ComToCompanion", n)
    \/ PendRead("ComToCompanion", n)

\* IOCTL_SERIAL_IMMEDIATE_CHAR ignores what GcomRingWrite returns, so the
\* character vanishes when the ring is full; it drains reads either way.
ImmediateChar ==
  LET d == "ComToCompanion"
  IN  /\ lock = Free
      /\ issued[d] < MaxBytes[d]
      /\ issued' = [issued EXCEPT ![d] = @ + 1]
      /\ Enter(d, Offered(d, 1))
      /\ lock' = AfterEnter(d)
      /\ UNCHANGED <<queues, control, received>>

-----------------------------------------------------------------------------
(* The drain loops, one iteration a step, and the release of the lock.     *)

\* GcomDrainRingToReads, called by a write or from inside the other loop.
\* Its re-queue branch needs a ring that is empty and was not: it is under
\* the lock, so it cannot be taken.
DrainReads(d) == /\ lock \in {<<"drainReads", d>>, <<"drainAdmitted", d>>}
                 /\ ring[d] # <<>>
                 /\ readQ[d] # <<>>
                 /\ Leave(d, Head(readQ[d]))
                 /\ readQ' = [readQ EXCEPT ![d] = Tail(@)]
                 /\ UNCHANGED <<writeQ, lock, control, issued, sent>>

\* The loop that spins while there are bytes, reads or not.
DrainReadsSpin(d) ==
  /\ lock = <<"drainReads", d>> /\ ring[d] = <<>>
  /\ lock' = Free
  /\ UNCHANGED <<ring, queues, control, streams>>

DrainReadsEnd(d) ==
  /\ ring[d] = <<>> \/ readQ[d] = <<>>
  /\ \/ lock = <<"drainReads", d>> /\ lock' = Free
     \/ lock = <<"drainAdmitted", d>> /\ lock' = <<"drainWrites", d>>
  /\ UNCHANGED <<ring, queues, control, streams>>

\* The loop below, taking the newest pended write instead of the oldest.
DrainWritesNewest(d) ==
  LET newest == Len(writeQ[d])
  IN  /\ lock = <<"drainWrites", d>>
      /\ Room(d) > 0
      /\ newest > 0
      /\ Enter(d, writeQ[d][newest])
      /\ writeQ' = [writeQ EXCEPT ![d] = SubSeq(@, 1, newest - 1)]
      /\ lock' = <<"drainAdmitted", d>>
      /\ UNCHANGED <<readQ, control, issued, received>>

\* GcomDrainWritesToRing: a pended write enters as far as it fits and is
\* completed with that count; then the peer's reads are drained.
DrainWrites(d) ==
  /\ lock = <<"drainWrites", d>>
  /\ Room(d) > 0
  /\ writeQ[d] # <<>>
  /\ Enter(d, Head(writeQ[d]))
  /\ writeQ' = [writeQ EXCEPT ![d] = Tail(@)]
  /\ lock' = <<"drainAdmitted", d>>
  /\ UNCHANGED <<readQ, control, issued, received>>

DrainWritesEnd(d) ==
  /\ lock = <<"drainWrites", d>>
  /\ Room(d) = 0 \/ writeQ[d] = <<>>
  /\ lock' = Free
  /\ UNCHANGED <<ring, queues, control, streams>>

-----------------------------------------------------------------------------
(* What happens without the lock: cancellation, PURGE, SET_TIMEOUTS.       *)

\* The framework completes a queued request its program cancels (CancelIoEx,
\* or the close of the handle) without asking the driver.
CancelRead(d) ==
  /\ \E i \in 1..Len(readQ[d]) : readQ' = [readQ EXCEPT ![d] = RemoveAt(@, i)]
  /\ UNCHANGED <<ring, writeQ, lock, control, streams>>

CancelWrite(d) ==
  /\ \E i \in 1..Len(writeQ[d]) : writeQ' = [writeQ EXCEPT ![d] = RemoveAt(@, i)]
  /\ UNCHANGED <<ring, readQ, lock, control, streams>>

\* IOCTL_SERIAL_PURGE acts on its flags in this order: both aborts without
\* DataLock, then both clears with it.
PurgeBegin ==
  /\ purge = {}
  /\ purge' \in PurgeCalls
  /\ UNCHANGED <<ring, queues, lock, stopped, timeouts, streams>>

\* WdfIoQueuePurge cancels what is queued and refuses more until its
\* completion callback restarts the queue.
PurgeTxAbort ==
  /\ "TXABORT" \in purge
  /\ writeQ' = [writeQ EXCEPT !["ComToCompanion"] = <<>>]
  /\ stopped' = stopped \cup {"ComToCompanion"}
  /\ purge' = purge \ {"TXABORT"}
  /\ UNCHANGED <<ring, readQ, lock, timeouts, streams>>

PurgeRxAbort ==
  /\ "RXABORT" \in purge /\ "TXABORT" \notin purge
  /\ readQ' = [readQ EXCEPT !["CompanionToCom"] = <<>>]
  /\ stopped' = stopped \cup {"CompanionToCom"}
  /\ purge' = purge \ {"RXABORT"}
  /\ UNCHANGED <<ring, writeQ, lock, timeouts, streams>>

\* GcomRingFlush of the rings named; the pended writes are left as they are.
PurgeClear ==
  /\ lock = Free
  /\ purge # {} /\ purge \subseteq {"TXCLEAR", "RXCLEAR"}
  /\ ring' = [d \in Dir |->
       IF \/ d = "ComToCompanion" /\ "TXCLEAR" \in purge
          \/ d = "CompanionToCom" /\ "RXCLEAR" \in purge
         THEN <<>> ELSE ring[d]]
  /\ purge' = {}
  /\ UNCHANGED <<queues, lock, stopped, timeouts, streams>>

\* GcomQueuePurgeComplete
QueueRestart ==
  /\ \E d \in stopped : stopped' = stopped \ {d}
  /\ UNCHANGED <<ring, queues, lock, purge, timeouts, streams>>

\* IOCTL_SERIAL_SET_TIMEOUTS stores three words under SignalLock while a read
\* compares them under DataLock.  Torn is the time of the store: a read may
\* then see either setting, or a mixture of the two.
SetTimeouts ==
  /\ \/ timeouts # "torn" /\ timeouts' = "torn"
     \/ timeouts = "torn" /\ timeouts' \in {"blocking", "immediate"}
  /\ UNCHANGED <<ring, queues, lock, purge, stopped, streams>>

-----------------------------------------------------------------------------
Handlers == ComEvtWrite \/ CompEvtWrite \/ ComEvtRead \/ CompEvtRead \/ ImmediateChar

Loops(d) == DrainReads(d) \/ DrainReadsEnd(d) \/ DrainWrites(d) \/ DrainWritesEnd(d)

Purge == PurgeBegin \/ PurgeTxAbort \/ PurgeRxAbort \/ PurgeClear \/ QueueRestart

Next ==
  \/ Handlers
  \/ \E d \in Dir : Loops(d) \/ CancelRead(d) \/ CancelWrite(d)
  \/ Purge
  \/ SetTimeouts

Spec == Init /\ [][Next]_vars

\* A handler that holds the lock finishes its loops, and a program goes on
\* reading while there are bytes for it: the companion's reader thread does
\* (stream.rs), and of the COM application it is assumed.  No program need
\* write, cancel, purge or change its timeouts.
Fairness ==
  \A d \in Dir : /\ WF_vars(Loops(d))
                 /\ WF_vars(\E n \in ReadLens : ReadNow(d, n))

FairSpec == Spec /\ Fairness

-----------------------------------------------------------------------------
Stamp == Nat

Holders == {Free} \cup ({"drainReads", "drainWrites", "drainAdmitted"} \X Dir)

TypeOK ==
  /\ ring \in [Dir -> Seq(Stamp)]
  /\ \A d \in Dir : Len(ring[d]) <= Capacity
  /\ readQ \in [Dir -> Seq(Nat \ {0})]
  /\ writeQ \in [Dir -> Seq(Seq(Stamp))]
  /\ \A d \in Dir : \A i \in 1..Len(writeQ[d]) : writeQ[d][i] # <<>>
  /\ lock \in Holders
  /\ purge \in SUBSET PurgeFlag
  /\ stopped \in SUBSET Dir
  /\ timeouts \in {"blocking", "immediate", "torn"}
  /\ issued \in [Dir -> Nat]
  /\ sent \in [Dir -> Seq(Stamp)]
  /\ received \in [Dir -> Seq(Stamp)]

\* Nobody waits for bytes that are there: with DataLock free, a ring that
\* has a pended read is empty, whatever was written, cancelled or purged
\* since the read was pended (the drains of EvtWrite and IMMEDIATE_CHAR).
ReadersWaitOnlyWhenEmpty ==
  lock = Free => \A d \in Dir : readQ[d] # <<>> => ring[d] = <<>>

\* "Pending writes (when ring full)", as driver.h describes the two write
\* queues: with DataLock free, a ring that has a pended write has no room.
WritersWaitOnlyWhenFull ==
  lock = Free => \A d \in Dir : writeQ[d] # <<>> => Room(d) = 0

\* No write overtakes an earlier one: every byte still in a pended write was
\* offered after all bytes its direction has already let in, and pended
\* writes are in the order they were offered.
NoOvertaking ==
  \A d \in Dir : \A i \in 1..Len(writeQ[d]) :
    /\ \A k \in 1..Len(sent[d]) : sent[d][k] < Head(writeQ[d][i])
    /\ i < Len(writeQ[d]) =>
         writeQ[d][i][Len(writeQ[d][i])] < Head(writeQ[d][i + 1])

\* Even when a purge clears the rings under pended writes, which lets later
\* writes pass them, no byte is handed to a reader twice or left in the ring
\* after it was handed over.
NeverTwice ==
  \A d \in Dir :
    LET seen == received[d] \o ring[d]
    IN  \A i, k \in 1..Len(seen) : i # k => seen[i] # seen[k]

\* The peer drain inside GcomDrainWritesToRing never finds a pended read: the
\* loop runs only after a read that found bytes, and then nobody waits.
AdmittedDrainFindsNoReader ==
  \A d \in Dir : lock = <<"drainAdmitted", d>> => readQ[d] = <<>>

\* Why the two waiting properties hold, phase by phase: the inductive form of
\* the first ...
NoClear == \A F \in PurgeCalls : F \cap {"TXCLEAR", "RXCLEAR"} = {}

ReadersInv ==
  \A d \in Dir :
    /\ lock # <<"drainReads", d>> => readQ[d] = <<>> \/ ring[d] = <<>>
    /\ lock \in {<<"drainWrites", d>>, <<"drainAdmitted", d>>} => readQ[d] = <<>>

\* ... and of the second: a drain of reads never frees room under a pended
\* write, because nobody is waiting to read when one is pended.
WritersInv ==
  /\ purge \cap {"TXCLEAR", "RXCLEAR"} = {}
  /\ \A d \in Dir :
       /\ lock \notin {<<"drainWrites", d>>, <<"drainAdmitted", d>>} =>
            writeQ[d] = <<>> \/ Room(d) = 0
       /\ lock = <<"drainReads", d>> => writeQ[d] = <<>> \/ readQ[d] = <<>>

ToComp == INSTANCE BytePipe WITH
            sent <- sent["ComToCompanion"], received <- received["ComToCompanion"]
ToCom == INSTANCE BytePipe WITH
           sent <- sent["CompanionToCom"], received <- received["CompanionToCom"]

\* Each direction is a byte pipe: what readers get is what was accepted, in
\* order, with nothing lost or repeated, for every mix of pended reads and
\* writes, partial transfers, cancellations and aborts.
ImplementsPipe == ToComp!SafeSpec /\ ToCom!SafeSpec

\* Every accepted byte reaches a reader, and every pended write is taken in,
\* while programs go on reading.
EveryByteArrives ==
  \A d \in Dir : \A k \in 1..MaxBytes[d] :
    Len(sent[d]) >= k ~> Len(received[d]) >= k

EveryWriteIsServed ==
  \A d \in Dir : writeQ[d] # <<>> ~> writeQ[d] = <<>>

=============================================================================
