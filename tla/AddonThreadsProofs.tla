------------------------- MODULE AddonThreadsProofs --------------------------
(***************************************************************************)
(* Proofs about AddonThreads, for every size of buffer, chunk and          *)
(* high-water mark and any number of bytes and chunks: its type invariant, *)
(* what a chunk reported as written stands for, and that both directions   *)
(* are byte pipes, whenever the port is shut down, closed or removed.      *)
(***************************************************************************)
EXTENDS AddonThreads, SequenceTheorems, TLAPS

LEMMA Sizes == /\ BufSize \in Nat \ {0} /\ HighWater \in Nat \ {0} /\ ChunkLen \in Nat \ {0}
               /\ MaxBytes \in Nat /\ MaxChunks \in Nat
BY SizesAssumption, BoundsAssumption

-----------------------------------------------------------------------------
(* Runs of numbered bytes.                                                 *)

\* The bytes after m up to n: their type, number and elements.
LEMMA BytesProperties ==
  ASSUME NEW m \in Nat, NEW n \in Nat, m <= n
  PROVE  /\ Bytes(m, n) \in Seq(Nat)
         /\ Len(Bytes(m, n)) = n - m
         /\ \A i \in 1..(n - m) : Bytes(m, n)[i] = m + i
<1>1. n - m \in Nat
  OBVIOUS
<1>2. Bytes(m, n) \in [1..(n - m) -> Nat]
  BY DEF Bytes
<1>3. Bytes(m, n) \in Seq(Nat) /\ Len(Bytes(m, n)) = n - m
  BY <1>1, <1>2
<1> QED  BY <1>3 DEF Bytes

\* Two runs that meet are one.
LEMMA BytesJoin ==
  ASSUME NEW m \in Nat, NEW n \in Nat, NEW p \in Nat, m <= n, n <= p
  PROVE  Bytes(m, n) \o Bytes(n, p) = Bytes(m, p)
<1> DEFINE a == Bytes(m, n)
           b == Bytes(n, p)
           c == Bytes(m, p)
<1>1. /\ a \in Seq(Nat) /\ Len(a) = n - m /\ \A i \in 1..(n - m) : a[i] = m + i
      /\ b \in Seq(Nat) /\ Len(b) = p - n /\ \A i \in 1..(p - n) : b[i] = n + i
      /\ c \in Seq(Nat) /\ Len(c) = p - m /\ \A i \in 1..(p - m) : c[i] = m + i
  <2>1. a \in Seq(Nat) /\ Len(a) = n - m /\ \A i \in 1..(n - m) : a[i] = m + i
    BY BytesProperties
  <2>2. b \in Seq(Nat) /\ Len(b) = p - n /\ \A i \in 1..(p - n) : b[i] = n + i
    BY BytesProperties
  <2>3. m <= p
    OBVIOUS
  <2>4. c \in Seq(Nat) /\ Len(c) = p - m /\ \A i \in 1..(p - m) : c[i] = m + i
    BY <2>3, BytesProperties
  <2> QED  BY <2>1, <2>2, <2>4
<1> HIDE DEF a, b, c
<1>2. /\ a \o b \in Seq(Nat) /\ Len(a \o b) = Len(a) + Len(b)
      /\ \A i \in 1..(Len(a) + Len(b)) : (a \o b)[i] = IF i <= Len(a) THEN a[i] ELSE b[i - Len(a)]
  BY <1>1, ConcatProperties
<1>3. Len(a) + Len(b) = p - m /\ Len(a) = n - m
  BY <1>1
<1>4. ASSUME NEW i \in 1..(p - m)
      PROVE  (a \o b)[i] = c[i]
  <2>1. CASE i <= n - m
    BY <1>1, <1>2, <1>3, <2>1
  <2>2. CASE ~(i <= n - m)
    <3>1. i - (n - m) \in 1..(p - n) /\ n + (i - (n - m)) = m + i
      BY <2>2
    <3> QED  BY <1>1, <1>2, <1>3, <2>2, <3>1
  <2> QED  BY <2>1, <2>2
<1>5. a \o b = c
  <2> DEFINE ab == a \o b
  <2>1. ab \in Seq(Nat) /\ Len(ab) = p - m /\ \A i \in 1..(p - m) : ab[i] = c[i]
    BY <1>2, <1>3, <1>4
  <2> HIDE DEF ab
  <2>2. ab = c
    BY <1>1, <2>1, SeqEqual
  <2> QED  BY <2>2 DEF ab
<1> QED  BY <1>5 DEF a, b, c

LEMMA BytesNone ==
  ASSUME NEW m \in Nat
  PROVE  Bytes(m, m) = <<>>
<1>1. Bytes(m, m) \in Seq(Nat) /\ Len(Bytes(m, m)) = 0
  BY BytesProperties
<1> QED  BY <1>1, EmptySeq

\* The first byte of a run, and the rest.
LEMMA BytesHeadTail ==
  ASSUME NEW m \in Nat, NEW n \in Nat, m < n
  PROVE  /\ Head(Bytes(m, n)) = m + 1
         /\ Tail(Bytes(m, n)) = Bytes(m + 1, n)
<1> DEFINE a == Bytes(m, n)
           b == Bytes(m + 1, n)
<1>1. /\ a \in Seq(Nat) /\ Len(a) = n - m /\ \A i \in 1..(n - m) : a[i] = m + i
      /\ b \in Seq(Nat) /\ Len(b) = n - (m + 1) /\ \A i \in 1..(n - (m + 1)) : b[i] = m + 1 + i
  BY BytesProperties
<1> HIDE DEF a, b
<1>2. a # <<>>
  BY <1>1, EmptySeq
<1>3. Head(a) = a[1] /\ 1 \in 1..(n - m)
  BY <1>1, <1>2
<1>4. /\ Tail(a) \in Seq(Nat) /\ Len(Tail(a)) = Len(a) - 1
      /\ \A i \in 1..Len(Tail(a)) : Tail(a)[i] = a[i + 1]
  BY <1>1, <1>2, HeadTailProperties
<1>5. \A i \in 1..Len(Tail(a)) : Tail(a)[i] = b[i]
  BY <1>1, <1>4
<1>6. Tail(a) = b
  <2> DEFINE t == Tail(a)
  <2>1. t \in Seq(Nat) /\ Len(t) = Len(b) /\ \A i \in 1..Len(t) : t[i] = b[i]
    BY <1>1, <1>4, <1>5
  <2> HIDE DEF t
  <2>2. t = b
    BY <1>1, <2>1, SeqEqual
  <2> QED  BY <2>2 DEF t
<1> QED  BY <1>1, <1>3, <1>6 DEF a, b

LEMMA BytesFromZero ==
  ASSUME NEW n \in Nat
  PROVE  /\ Bytes(0, n) \in Seq(Nat)
         /\ Len(Bytes(0, n)) = n
         /\ \A i \in 1..n : Bytes(0, n)[i] = i
<1>1. n - 0 = n /\ \A i \in 1..n : 0 + i = i
  OBVIOUS
<1>2. Bytes(0, n) = [i \in 1..n |-> i]
  BY <1>1 DEF Bytes
<1>3. [i \in 1..n |-> i] \in Seq(Nat) /\ Len([i \in 1..n |-> i]) = n
  OBVIOUS
<1> QED  BY <1>2, <1>3

LEMMA BytesAppend ==
  ASSUME NEW n \in Nat
  PROVE  Append(Bytes(0, n), n + 1) = Bytes(0, n + 1)
<1> DEFINE a == Bytes(0, n)
           b == Bytes(0, n + 1)
           c == Append(a, n + 1)
<1>1. /\ a \in Seq(Nat) /\ Len(a) = n /\ \A i \in 1..n : a[i] = i
      /\ b \in Seq(Nat) /\ Len(b) = n + 1 /\ \A i \in 1..(n + 1) : b[i] = i
  <2>1. n + 1 \in Nat
    OBVIOUS
  <2>2. a \in Seq(Nat) /\ Len(a) = n /\ \A i \in 1..n : a[i] = i
    BY BytesFromZero
  <2>3. b \in Seq(Nat) /\ Len(b) = n + 1 /\ \A i \in 1..(n + 1) : b[i] = i
    BY <2>1, BytesFromZero
  <2> QED  BY <2>2, <2>3
<1> HIDE DEF a, b
<1>2. /\ c \in Seq(Nat) /\ Len(c) = n + 1
      /\ \A i \in 1..n : c[i] = a[i]
      /\ c[n + 1] = n + 1
  BY <1>1, AppendProperties
<1> HIDE DEF c
<1>3. \A i \in 1..(n + 1) : c[i] = b[i]
  BY <1>1, <1>2
<1>4. c = b
  BY <1>1, <1>2, <1>3, SeqEqual
<1> QED  BY <1>4 DEF a, b, c

-----------------------------------------------------------------------------
(* Types.                                                                  *)

\* TypeOK variable by variable, the calls queued by the reader included, and
\* without the range of accepted, which WriteInv gives.
Typed ==
  /\ incoming \in Nat /\ incoming <= MaxBytes
  /\ taken \in Nat /\ taken <= incoming
  /\ request \in [Thread -> [state : {"none", "pending", "failed", "done"}, bytes : Nat]]
  /\ reader \in {"check", "gate", "issue", "wait", "exited"}
  /\ watcher \in {"check", "issue", "wait", "exited"}
  /\ writer \in [at : {"none", "issue", "wait", "ok", "error"}, offset : 0..ChunkLen]
  /\ removed \in BOOLEAN /\ shutdown \in BOOLEAN /\ paused \in BOOLEAN /\ stop \in BOOLEAN
  /\ destroyed \in BOOLEAN /\ readError \in BOOLEAN
  /\ reading \in BOOLEAN /\ asked \in BOOLEAN
  /\ handle \in {"open", "closed"}
  /\ js \in {"loop", "cancelRead", "joinReader", "stopWatcher", "cancelWatch",
             "joinWatcher", "close", "remove", "done"}
  /\ offered \in Nat /\ offered <= MaxChunks
  /\ written \in Nat /\ written <= offered
  /\ chunks \in Seq(Seq(Int))

\* The JavaScript thread leaves its loop, and closes the handle, only once
\* shutdown is set.
ShutdownInv ==
  /\ js # "loop" => shutdown
  /\ handle = "closed" => shutdown

\* The bytes of n whole chunks.
Whole(n) == n * ChunkLen

\* Where the writer thread is in the stream of the chunks' bytes.
Level == Whole(offered - 1) + writer.offset

\* How what the driver has accepted relates to the writer thread and its
\* request: it is what the thread has advanced by, and what its completed
\* request will advance it by, unless the request failed or the thread has
\* gone astray with a handle that was closed under it; without a thread it is
\* all that was offered, unless the stream is shut down.
WriteInv ==
  /\ Len(accepted) \in Nat
  /\ accepted = Bytes(0, Len(accepted))
  /\ Len(accepted) <= Whole(offered)
  /\ Whole(written) <= Len(accepted)
  /\ writer.at # "none" => written < offered
  /\ writer.at # "wait" => request["write"] = NoRequest
  /\ writer.at \in {"issue", "wait"} => writer.offset < ChunkLen
  /\ writer.at = "issue" /\ handle = "open" => Len(accepted) = Level
  /\ writer.at = "wait" =>
       \/ request["write"] = Pending /\ Len(accepted) = Level
       \/ request["write"] = Failed
       \/ \E k \in 1..Left : request["write"] = Done(k) /\ Len(accepted) = Level + k
  /\ writer.at = "ok" /\ handle = "open" => Len(accepted) = Whole(offered)
  /\ writer.at = "none" /\ ~shutdown => Len(accepted) = Whole(offered)

Core == Typed /\ ShutdownInv /\ WriteInv

\* Counting whole chunks.
LEMMA WholeProperties ==
  ASSUME NEW n \in Nat
  PROVE  /\ Whole(n) \in Nat
         /\ Whole(n + 1) = Whole(n) + ChunkLen
         /\ n > 0 => Whole(n - 1) \in Nat /\ Whole(n) = Whole(n - 1) + ChunkLen
         /\ \A m \in Nat : m <= n => Whole(m) <= Whole(n)
<1> USE Sizes DEF Whole
<1>1. Whole(n) \in Nat
  OBVIOUS
<1>2. Whole(n + 1) = Whole(n) + ChunkLen
  OBVIOUS
<1>3. ASSUME n > 0 PROVE Whole(n - 1) \in Nat /\ Whole(n) = Whole(n - 1) + ChunkLen
  <2>1. n - 1 \in Nat
    BY <1>3
  <2> QED  BY <2>1
<1>4. ASSUME NEW m \in Nat, m <= n PROVE Whole(m) <= Whole(n)
  <2>1. n - m \in Nat /\ (n - m) * ChunkLen \in Nat
    BY <1>4
  <2>2. n * ChunkLen = m * ChunkLen + (n - m) * ChunkLen
    OBVIOUS
  <2> QED  BY <2>1, <2>2
<1> QED  BY <1>1, <1>2, <1>3, <1>4

\* The invariant holds the types that the runs check.
LEMMA CoreMeansTypeOK == Core => TypeOK
<1> SUFFICES ASSUME Core PROVE TypeOK
  OBVIOUS
<1>1. Typed /\ WriteInv
  BY DEF Core
<1>2. incoming \in 0..MaxBytes /\ taken \in 0..incoming /\ offered \in 0..MaxChunks
      /\ written \in 0..offered
  BY <1>1, Sizes DEF Typed
<1>3. {removed, shutdown, paused, stop, destroyed, readError, reading, asked} \subseteq BOOLEAN
  BY <1>1 DEF Typed
<1>4. ASSUME NEW i \in DOMAIN accepted
      PROVE  accepted[i] \in 1..(MaxChunks * ChunkLen)
  <2> DEFINE n == Len(accepted)
  <2>1. n \in Nat /\ accepted = Bytes(0, n) /\ n <= Whole(offered)
    BY <1>1 DEF WriteInv
  <2>2. Whole(offered) <= Whole(MaxChunks) /\ Whole(offered) \in Nat /\ Whole(MaxChunks) \in Nat
    BY <1>1, Sizes, WholeProperties DEF Typed
  <2> HIDE DEF n
  <2>3. i \in 1..n /\ accepted[i] = 0 + i
    BY <2>1 DEF Bytes
  <2>4. accepted[i] \in 1..Whole(MaxChunks)
    BY <2>1, <2>2, <2>3
  <2> QED  BY <2>4 DEF Whole
<1> QED  BY <1>1, <1>2, <1>3, <1>4 DEF TypeOK, Typed

LEMMA CoreInit == Init => Core
<1> SUFFICES ASSUME Init PROVE Core
  OBVIOUS
<1>1. <<>> \in Seq(Seq(Int)) /\ Len(<<>>) = 0 /\ Bytes(0, 0) = <<>>
  BY EmptySeq, BytesNone
<1>2. Typed
  <2>1. request \in [Thread -> [state : {"none", "pending", "failed", "done"}, bytes : Nat]]
    BY DEF Init, NoRequest
  <2>2. writer \in [at : {"none", "issue", "wait", "ok", "error"}, offset : 0..ChunkLen]
    BY Sizes DEF Init, NoWriter
  <2>3. chunks \in Seq(Seq(Int))
    BY <1>1 DEF Init
  <2>4. /\ incoming \in Nat /\ incoming <= MaxBytes /\ taken \in Nat /\ taken <= incoming
        /\ offered \in Nat /\ offered <= MaxChunks /\ written \in Nat /\ written <= offered
    BY Sizes DEF Init
  <2>5. /\ removed \in BOOLEAN /\ shutdown \in BOOLEAN /\ paused \in BOOLEAN
        /\ stop \in BOOLEAN /\ destroyed \in BOOLEAN /\ readError \in BOOLEAN
        /\ reading \in BOOLEAN /\ asked \in BOOLEAN
    BY Zenon DEF Init
  <2>6. /\ reader = "check" /\ watcher = "check" /\ handle = "open" /\ js = "loop"
    BY DEF Init
  <2> QED  BY <2>1, <2>2, <2>3, <2>4, <2>5, <2>6 DEF Typed
<1>3. ShutdownInv
  BY DEF Init, ShutdownInv
<1>4. Whole(0) = 0
  BY Sizes DEF Whole
<1>5. WriteInv
  <2>1. /\ accepted = <<>> /\ Len(accepted) = 0 /\ offered = 0 /\ written = 0
        /\ writer.at = "none" /\ request["write"] = NoRequest
    BY <1>1 DEF Init, NoWriter, Thread
  <2> QED  BY <1>1, <1>4, <2>1 DEF WriteInv
<1> QED  BY <1>2, <1>3, <1>5 DEF Core

\* What the next read gets.
LEMMA ShareProperties ==
  ASSUME Typed
  PROVE  Share \in Nat /\ taken + Share \in Nat /\ taken + Share <= incoming
BY Sizes DEF Typed, Share, Lesser

LEMMA AllPendingFailProperties ==
  ASSUME Typed
  PROVE  /\ AllPendingFail \in [Thread -> [state : {"none", "pending", "failed", "done"}, bytes : Nat]]
         /\ \A t \in Thread : AllPendingFail[t] = IF request[t] = Pending THEN Failed ELSE request[t]
<1>1. Failed \in [state : {"none", "pending", "failed", "done"}, bytes : Nat]
  BY DEF Failed
<1> QED  BY <1>1 DEF Typed, AllPendingFail

-----------------------------------------------------------------------------
(* Every step keeps the types.                                             *)

Request == [state : {"none", "pending", "failed", "done"}, bytes : Nat]

LEMMA RequestTypes ==
  /\ NoRequest \in Request /\ Pending \in Request /\ Failed \in Request
  /\ \A n \in Nat : Done(n) \in Request
BY DEF Request, NoRequest, Pending, Failed, Done

LEMMA TypedDriver ==
  ASSUME Core, Arrive \/ Driver
  PROVE  Typed'
<1>0. Typed /\ Share \in Nat /\ taken + Share <= incoming
  BY ShareProperties DEF Core
<1>1. CASE Arrive
  <2>1. incoming' \in Nat /\ incoming' <= MaxBytes /\ taken <= incoming'
    BY <1>0, <1>1, Sizes DEF Arrive, Typed
  <2> QED  BY <1>0, <1>1, <2>1 DEF Arrive, Typed, flags, calls, readable, writable
<1>2. CASE CompleteRead
  <2>1. request' \in [Thread -> Request] /\ taken' \in Nat /\ taken' <= incoming
    <3>1. request' = [request EXCEPT !["read"] = Done(Share)] /\ taken' = taken + Share
      BY <1>2 DEF CompleteRead
    <3>2. Done(Share) \in Request
      BY <1>0, RequestTypes
    <3> QED  BY <1>0, <3>1, <3>2, ShareProperties DEF Typed, Request
  <2> QED  BY <1>0, <1>2, <2>1 DEF CompleteRead, Typed, Request, flags, calls, readable, writable
<1>3. CASE CompleteWrite
  <2>1. PICK k \in 1..Left : request' = [request EXCEPT !["write"] = Done(k)]
    BY <1>3 DEF CompleteWrite
  <2>2. k \in Nat
    BY <1>0, Sizes DEF Left, Typed
  <2>3. request' \in [Thread -> Request]
    BY <1>0, <2>1, <2>2, RequestTypes DEF Typed, Request
  <2> QED  BY <1>0, <1>3, <2>3 DEF CompleteWrite, Typed, Request, flags, calls, readable, writable
<1>4. CASE CompleteWatch
  <2>1. request' \in [Thread -> Request]
    BY <1>0, <1>4, RequestTypes DEF CompleteWatch, Typed, Request
  <2> QED  BY <1>0, <1>4, <2>1 DEF CompleteWatch, Typed, Request, flags, calls, readable, writable
<1>5. CASE RemovedElsewhere
  <2>1. request' \in [Thread -> Request]
    BY <1>0, <1>5, AllPendingFailProperties DEF RemovedElsewhere, Request
  <2> QED  BY <1>0, <1>5, <2>1 DEF RemovedElsewhere, Typed, Request, flags, calls, readable, writable
<1> QED  BY <1>1, <1>2, <1>3, <1>4, <1>5 DEF Driver

LEMMA TypedReader ==
  ASSUME Core, Reader
  PROVE  Typed'
<1>0. Typed /\ Share \in Nat /\ taken + Share <= incoming
  BY ShareProperties DEF Core
<1> USE DEF readerUnchanged, driver, flags, calls, readable, writable
<1>1. CASE ReaderCheck
  BY <1>0, <1>1 DEF ReaderCheck, Typed
<1>2. CASE ReaderGate
  BY <1>0, <1>2 DEF ReaderGate, Typed
<1>3. CASE ReaderIssue
  <2>1. request' \in [Thread -> Request] /\ taken' \in Nat /\ taken' <= incoming
    <3>1. /\ request' = [request EXCEPT !["read"] = IF Share > 0 THEN Done(Share) ELSE Pending]
          /\ taken' = taken + Share
      BY <1>3 DEF ReaderIssue
    <3>2. (IF Share > 0 THEN Done(Share) ELSE Pending) \in Request
      BY <1>0, RequestTypes
    <3> QED  BY <1>0, <3>1, <3>2, ShareProperties DEF Typed, Request
  <2> QED  BY <1>0, <1>3, <2>1 DEF ReaderIssue, Typed, Request
<1>4. CASE ReaderIssueFails
  <2>1. readError' \in BOOLEAN
    BY <1>0, <1>4 DEF ReaderIssueFails, Typed
  <2> QED  BY <1>0, <1>4, <2>1 DEF ReaderIssueFails, Typed
<1>5. CASE ReaderIssuePended
  <2>1. request' \in [Thread -> Request]
    BY <1>0, <1>5, RequestTypes DEF ReaderIssuePended, Typed, Request
  <2> QED  BY <1>0, <1>5, <2>1 DEF ReaderIssuePended, Typed, Request
<1>6. CASE ReaderGetsData
  <2>1. request' \in [Thread -> Request]
    BY <1>0, <1>6, RequestTypes DEF ReaderGetsData, Typed, Request
  <2>2. Delivered \in Seq(Int)
    <3> DEFINE b == request["read"].bytes
    <3>1. b \in Nat
      BY <1>0 DEF Typed, Thread
    <3>2. taken - b \in Int
      BY <1>0, <3>1 DEF Typed
    <3>3. taken - (taken - b) = b
      BY <1>0, <3>1 DEF Typed
    <3>4. Delivered = [i \in 1..b |-> taken - b + i]
      BY <3>3 DEF Delivered, Bytes
    <3>5. \A i \in 1..b : taken - b + i \in Int
      BY <3>2
    <3> HIDE DEF b
    <3> QED  BY <3>1, <3>4, <3>5
  <2>3. chunks' \in Seq(Seq(Int))
    BY <1>0, <1>6, <2>2, AppendProperties DEF ReaderGetsData, Typed
  <2> QED  BY <1>0, <1>6, <2>1, <2>3 DEF ReaderGetsData, Typed, Request
<1>7. CASE ReaderGetsError
  <2>1. request' \in [Thread -> Request]
    BY <1>0, <1>7, RequestTypes DEF ReaderGetsError, Typed, Request
  <2> QED  BY <1>0, <1>7, <2>1 DEF ReaderGetsError, Typed, Request
<1> QED  BY <1>1, <1>2, <1>3, <1>4, <1>5, <1>6, <1>7 DEF Reader

LEMMA TypedWatcher ==
  ASSUME Core, Watcher
  PROVE  Typed'
<1>0. Typed
  BY DEF Core
<1> USE DEF watcherUnchanged, flags, calls, readable, writable
<1>1. CASE WatcherCheck
  BY <1>0, <1>1 DEF WatcherCheck, Typed
<1>2. CASE WatcherIssue
  <2>1. request' \in [Thread -> Request]
    BY <1>0, <1>2, RequestTypes DEF WatcherIssue, Typed, Request
  <2> QED  BY <1>0, <1>2, <2>1 DEF WatcherIssue, Typed, Request
<1>3. CASE WatcherIssueFails
  BY <1>0, <1>3 DEF WatcherIssueFails, Typed
<1>4. CASE WatcherWoken
  <2>1. request' \in [Thread -> Request]
    BY <1>0, <1>4, RequestTypes DEF WatcherWoken, Typed, Request
  <2> QED  BY <1>0, <1>4, <2>1 DEF WatcherWoken, AfterWait, Typed, Request
<1> QED  BY <1>1, <1>2, <1>3, <1>4 DEF Watcher

\* The writer after a WriteFile that took no more than was left.
LEMMA AdvancedType ==
  ASSUME Typed, NEW k \in 1..Left
  PROVE  /\ Advanced(k) \in [at : {"none", "issue", "wait", "ok", "error"}, offset : 0..ChunkLen]
         /\ Advanced(k).offset = writer.offset + k
         /\ Advanced(k).at = IF writer.offset + k = ChunkLen THEN "ok" ELSE "issue"
         /\ k \in Nat \ {0} /\ writer.offset \in Nat /\ writer.offset + k <= ChunkLen
<1>1. writer.offset \in 0..ChunkLen
  BY DEF Typed
<1>2. k \in Nat \ {0} /\ writer.offset \in Nat /\ writer.offset + k <= ChunkLen
  BY <1>1, Sizes DEF Left
<1> QED  BY <1>2, Sizes DEF Advanced, AdvancedTo

LEMMA TypedWriter ==
  ASSUME Core, Writer
  PROVE  Typed'
<1>0. Typed /\ WriteInv
  BY DEF Core
<1> USE DEF writerUnchanged, flags, calls, readable, writable
<1> DEFINE W == [at : {"none", "issue", "wait", "ok", "error"}, offset : 0..ChunkLen]
<1>1. ASSUME request' \in [Thread -> Request], writer' \in W, UNCHANGED writerUnchanged
      PROVE  Typed'
  BY <1>0, <1>1 DEF Typed, Request
<1>2. /\ [writer EXCEPT !.at = "wait"] \in W /\ [writer EXCEPT !.at = "error"] \in W
      /\ request \in [Thread -> Request]
  BY <1>0 DEF Typed, Request
<1> HIDE DEF W
<1>3. CASE WriterIssue
  <2>1. ASSUME NEW k \in 1..Left, request' = [request EXCEPT !["write"] = Done(k)]
        PROVE  request' \in [Thread -> Request]
    <3>1. k \in Nat
      BY <1>0, AdvancedType
    <3> QED  BY <1>2, <2>1, <3>1, RequestTypes
  <2>2. request' \in [Thread -> Request]
    BY <1>2, <1>3, <2>1, RequestTypes DEF WriterIssue
  <2> QED  BY <1>1, <1>2, <1>3, <2>2 DEF WriterIssue
<1>4. CASE WriterIssueFails
  <2>1. request' \in [Thread -> Request]
    BY <1>2, <1>4, RequestTypes DEF WriterIssueFails
  <2> QED  BY <1>1, <1>2, <1>4, <2>1 DEF WriterIssueFails
<1>5. CASE WriterAstray
  <2>1. writer' \in W
    BY <1>0, <1>5, AdvancedType DEF WriterAstray, W
  <2> QED  BY <1>1, <1>2, <1>5, <2>1 DEF WriterAstray
<1>6. CASE WriterWoken
  <2>1. request' \in [Thread -> Request]
    BY <1>2, <1>6, RequestTypes DEF WriterWoken
  <2>2. writer' \in W
    <3>1. CASE request["write"] = Failed
      BY <1>2, <1>6, <3>1 DEF WriterWoken
    <3>2. CASE request["write"] # Failed
      <4>1. PICK k \in 1..Left : request["write"] = Done(k)
        BY <1>0, <1>6, <3>2 DEF WriterWoken, WriteInv
      <4>2. writer' = Advanced(k)
        BY <1>6, <3>2, <4>1 DEF WriterWoken, Done
      <4> QED  BY <1>0, <4>2, AdvancedType DEF W
    <3> QED  BY <3>1, <3>2
  <2> QED  BY <1>1, <1>6, <2>1, <2>2 DEF WriterWoken
<1> QED  BY <1>3, <1>4, <1>5, <1>6 DEF Writer

LEMMA TypedLoop ==
  ASSUME Core, Callback \/ Read \/ Consume \/ Write \/ Destroy
  PROVE  Typed'
<1>0. Typed /\ WriteInv
  BY DEF Core
<1> USE DEF threads, driver, flags, calls, readable, writable
<1>1. CASE OnData
  <2>1. paused' \in BOOLEAN /\ reading' \in BOOLEAN
    <3>1. CASE Len(buffer') >= HighWater
      BY <1>0, <1>1, <3>1 DEF OnData, Pause, Typed
    <3>2. CASE ~(Len(buffer') >= HighWater)
      BY <1>0, <1>1, <3>2 DEF OnData, Pause, Typed
    <3> QED  BY <3>1, <3>2
  <2>2. chunks' \in Seq(Seq(Int))
    BY <1>0, <1>1, HeadTailProperties DEF OnData, Typed
  <2>3. asked' \in BOOLEAN
    BY <1>1, Zenon DEF OnData
  <2>4. UNCHANGED <<threads, writer, shutdown, stop, js, destroyed, readError, consumed, writable>>
    BY <1>1 DEF OnData
  <2> QED  BY <1>0, <2>1, <2>2, <2>3, <2>4 DEF Typed
<1>2. CASE OnReadError
  <2>1. shutdown' \in BOOLEAN /\ readError' \in BOOLEAN
    BY <1>2, Zenon DEF OnReadError, BeginShutdown
  <2>2. js' = "cancelRead" /\ UNCHANGED <<threads, writer, paused, stop, destroyed, chunks, readable, writable>>
    BY <1>2 DEF OnReadError, BeginShutdown
  <2> QED  BY <1>0, <2>1, <2>2 DEF Typed
<1>3. CASE OnWritten
  <2>1. written' \in Nat /\ written' <= offered
    BY <1>0, <1>3 DEF OnWritten, Typed, WriteInv
  <2>2. writer' \in [at : {"none", "issue", "wait", "ok", "error"}, offset : 0..ChunkLen]
    BY <1>3, Sizes DEF OnWritten, NoWriter
  <2> QED  BY <1>0, <1>3, <2>1, <2>2 DEF OnWritten, Typed
<1>4. CASE OnWriteError
  <2>1. writer' \in [at : {"none", "issue", "wait", "ok", "error"}, offset : 0..ChunkLen]
    BY <1>4, Sizes DEF OnWriteError, NoWriter
  <2>2. shutdown' \in BOOLEAN /\ js' \in {js, "cancelRead"}
    <3>1. CASE shutdown
      BY <1>0, <1>4, <3>1 DEF OnWriteError, Typed
    <3>2. CASE ~shutdown
      BY <1>4, <3>2 DEF OnWriteError, BeginShutdown
    <3> QED  BY <3>1, <3>2
  <2>3. UNCHANGED <<threads, paused, stop, destroyed, calls, readable, writable>>
    BY <1>4 DEF OnWriteError
  <2> QED  BY <1>0, <2>1, <2>2, <2>3 DEF Typed
<1>5. CASE Read
  BY <1>0, <1>5 DEF Read, Typed
<1>6. CASE Consume
  BY <1>0, <1>6 DEF Consume, Typed
<1>7. CASE Write
  <2>1. writer' \in [at : {"none", "issue", "wait", "ok", "error"}, offset : 0..ChunkLen]
    BY <1>7, Sizes DEF Write
  <2>2. offered' \in Nat /\ offered' <= MaxChunks /\ written <= offered'
    BY <1>0, <1>7, Sizes DEF Write, Typed
  <2> QED  BY <1>0, <1>7, <2>1, <2>2 DEF Write, Typed
<1>8. CASE Destroy
  <2>1. shutdown' \in BOOLEAN /\ js' \in {"stopWatcher", "cancelRead"}
    <3>1. CASE shutdown
      BY <1>0, <1>8, <3>1 DEF Destroy, Typed
    <3>2. CASE ~shutdown
      BY <1>8, <3>2 DEF Destroy, BeginShutdown
    <3> QED  BY <3>1, <3>2
  <2>2. destroyed' \in BOOLEAN
    BY <1>8, Zenon DEF Destroy
  <2>3. UNCHANGED <<threads, writer, paused, stop, calls, readable, writable>>
    BY <1>8 DEF Destroy
  <2> QED  BY <1>0, <2>1, <2>2, <2>3 DEF Typed
<1> QED  BY <1>1, <1>2, <1>3, <1>4, <1>5, <1>6, <1>7, <1>8 DEF Callback

LEMMA TypedShutdown ==
  ASSUME Core, Shutdown
  PROVE  Typed'
<1>0. Typed
  BY DEF Core
<1> USE DEF closing, calls, readable, writable
<1>1. AllPendingFail \in [Thread -> Request]
  BY <1>0, AllPendingFailProperties DEF Request
<1>2. CASE CancelRead
  BY <1>0, <1>1, <1>2 DEF CancelRead, Cancelled, Typed, Request
<1>3. CASE JoinReader
  <2>1. <<>> \in Seq(Seq(Int))
    BY EmptySeq
  <2>2. readError' \in BOOLEAN
    BY <1>3, Zenon DEF JoinReader
  <2>3. /\ js' \in {"stopWatcher", "loop"} /\ chunks' = <<>>
        /\ UNCHANGED <<closing, request, removed, handle, shutdown, stop>>
    BY <1>3 DEF JoinReader
  <2> QED  BY <1>0, <2>1, <2>2, <2>3 DEF Typed
<1>4. CASE StopWatcher
  BY <1>0, <1>4 DEF StopWatcher, Typed
<1>5. CASE CancelWatch
  BY <1>0, <1>1, <1>5 DEF CancelWatch, Cancelled, Typed, Request
<1>6. CASE JoinWatcher
  BY <1>0, <1>6 DEF JoinWatcher, Typed
<1>7. CASE Close
  BY <1>0, <1>7 DEF Close, Typed
<1>8. CASE Remove
  BY <1>0, <1>1, <1>8 DEF Remove, RemovedFails, Typed, Request
<1> QED  BY <1>2, <1>3, <1>4, <1>5, <1>6, <1>7, <1>8 DEF Shutdown

LEMMA TypedStep == Core /\ [Next]_vars => Typed'
<1> SUFFICES ASSUME Core, [Next]_vars PROVE Typed'
  OBVIOUS
<1>1. CASE UNCHANGED vars
  BY <1>1 DEF vars, driver, flags, calls, readable, writable, Core, Typed
<1> QED  BY <1>1, TypedDriver, TypedReader, TypedWatcher, TypedWriter, TypedLoop, TypedShutdown
         DEF Next

-----------------------------------------------------------------------------
(* The shutdown, and what has been written.                                *)

LEMMA ShutdownStep == Core /\ [Next]_vars => ShutdownInv'
<1> SUFFICES ASSUME Core, [Next]_vars PROVE ShutdownInv'
  OBVIOUS
<1>0. ShutdownInv
  BY DEF Core
<1> USE DEF ShutdownInv
<1>1. ASSUME UNCHANGED <<js, shutdown, handle>> PROVE ShutdownInv'
  BY <1>0, <1>1
<1>2. CASE Arrive \/ Driver
  BY <1>1, <1>2 DEF Arrive, Driver, CompleteRead, CompleteWrite, CompleteWatch, RemovedElsewhere, flags
<1>3. CASE Reader
  BY <1>1, <1>3 DEF Reader, ReaderCheck, ReaderGate, ReaderIssue, ReaderIssueFails,
     ReaderIssuePended, ReaderGetsData, ReaderGetsError, readerUnchanged, flags
<1>4. CASE Watcher
  BY <1>1, <1>4 DEF Watcher, WatcherCheck, WatcherIssue, WatcherIssueFails, WatcherWoken,
     watcherUnchanged, flags
<1>5. CASE Writer
  BY <1>1, <1>5 DEF Writer, WriterIssue, WriterIssueFails, WriterAstray, WriterWoken,
     writerUnchanged, flags
<1>6. CASE OnData \/ OnWritten \/ Read \/ Consume \/ Write
  BY <1>1, <1>6 DEF OnData, OnWritten, Read, Consume, Write, threads, flags
<1>7. CASE OnReadError
  <2>1. shutdown'
    BY <1>7 DEF OnReadError, BeginShutdown
  <2> QED  BY <2>1
<1>8. CASE OnWriteError
  <2>1. shutdown'
    BY <1>8 DEF OnWriteError, BeginShutdown
  <2> QED  BY <2>1
<1>9. CASE Destroy
  <2>1. shutdown'
    BY <1>9 DEF Destroy, BeginShutdown
  <2> QED  BY <2>1
<1>10. CASE Shutdown
  <2>1. shutdown' = shutdown /\ js # "loop"
    BY <1>10 DEF Shutdown, CancelRead, JoinReader, StopWatcher, CancelWatch, JoinWatcher, Close, Remove
  <2> QED  BY <1>0, <2>1
<1>11. CASE UNCHANGED vars
  BY <1>1, <1>11 DEF vars, flags
<1> QED  BY <1>2, <1>3, <1>4, <1>5, <1>6, <1>7, <1>8, <1>9, <1>10, <1>11 DEF Next, Callback

\* Steps that do not write: the writer and what it has done stay as they are,
\* but its pending request may fail and the port may be shut down and closed.
WriteQuiet ==
  /\ UNCHANGED <<accepted, writer, offered, written>>
  /\ request'["write"] = IF request["write"] = Pending THEN request'["write"] ELSE request["write"]
  /\ request'["write"] \in {request["write"], Failed}
  /\ handle' = "open" => handle = "open"
  /\ shutdown => shutdown'

LEMMA QuietStep ==
  ASSUME Typed, WriteInv, WriteQuiet
  PROVE  WriteInv'
<1>1. UNCHANGED <<accepted, writer, offered, written>> /\ Level' = Level /\ Left' = Left
      /\ Whole(offered)' = Whole(offered) /\ Whole(written)' = Whole(written)
  BY DEF WriteQuiet, Level, Left, Whole
<1>2. writer.at # "wait" => request'["write"] = NoRequest
  BY DEF WriteInv, WriteQuiet, NoRequest, Pending
<1>3. writer.at = "wait" =>
       \/ request'["write"] = Pending /\ Len(accepted) = Level
       \/ request'["write"] = Failed
       \/ \E k \in 1..Left : request'["write"] = Done(k) /\ Len(accepted) = Level + k
  BY DEF WriteInv, WriteQuiet
<1>4. (handle' = "open" => handle = "open") /\ (shutdown => shutdown')
  BY DEF WriteQuiet
<1> QED  BY <1>1, <1>2, <1>3, <1>4 DEF WriteInv

\* Failing all pending requests is quiet.
LEMMA FailingIsQuiet ==
  ASSUME Typed, request' = AllPendingFail \/ request' = request
  PROVE  /\ request'["write"] = IF request["write"] = Pending THEN request'["write"] ELSE request["write"]
         /\ request'["write"] \in {request["write"], Failed}
<1>1. "write" \in Thread
  BY DEF Thread
<1> QED  BY <1>1, AllPendingFailProperties

\* So is a step of another thread with its own request.
LEMMA OtherRequestIsQuiet ==
  ASSUME Typed, NEW t \in Thread \ {"write"}, NEW r, request' = [request EXCEPT ![t] = r]
  PROVE  request'["write"] = request["write"]
BY DEF Typed, Thread

LEMMA QuietSteps ==
  ASSUME Typed, \/ Arrive \/ CompleteRead \/ CompleteWatch \/ RemovedElsewhere
                \/ Reader \/ Watcher \/ OnData \/ OnReadError \/ Read \/ Consume \/ Destroy
                \/ Shutdown \/ UNCHANGED vars
  PROVE  WriteQuiet
<1> USE DEF WriteQuiet
<1>0. "read" \in Thread \ {"write"} /\ "watch" \in Thread \ {"write"}
  BY DEF Thread
<1>1. CASE Arrive \/ CompleteRead \/ CompleteWatch
  <2>1. request'["write"] = request["write"]
    BY <1>0, <1>1, OtherRequestIsQuiet DEF Arrive, CompleteRead, CompleteWatch
  <2> QED  BY <1>1, <2>1 DEF Arrive, CompleteRead, CompleteWatch, writable, flags
<1>2. CASE RemovedElsewhere
  BY <1>2, FailingIsQuiet DEF RemovedElsewhere, writable, flags
<1>3. CASE Reader
  <2>1. request'["write"] = request["write"]
    BY <1>0, <1>3, OtherRequestIsQuiet
       DEF Reader, ReaderCheck, ReaderGate, ReaderIssue, ReaderIssueFails,
           ReaderIssuePended, ReaderGetsData, ReaderGetsError, driver
  <2> QED  BY <1>3, <2>1
           DEF Reader, ReaderCheck, ReaderGate, ReaderIssue, ReaderIssueFails,
               ReaderIssuePended, ReaderGetsData, ReaderGetsError, readerUnchanged,
               driver, writable, flags
<1>4. CASE Watcher
  <2>1. request'["write"] = request["write"]
    BY <1>0, <1>4, OtherRequestIsQuiet
       DEF Watcher, WatcherCheck, WatcherIssue, WatcherIssueFails, WatcherWoken
  <2> QED  BY <1>4, <2>1
           DEF Watcher, WatcherCheck, WatcherIssue, WatcherIssueFails, WatcherWoken,
               watcherUnchanged, writable, flags
<1>5. CASE OnData \/ Read \/ Consume
  BY <1>5 DEF OnData, Read, Consume, threads, driver, writable, flags
<1>6. CASE OnReadError
  BY <1>6 DEF OnReadError, BeginShutdown, threads, driver, writable
<1>7. CASE Destroy
  BY <1>7 DEF Destroy, BeginShutdown, threads, driver, writable
<1>8. CASE Shutdown
  <2>1. request' = AllPendingFail \/ request' = request
    BY <1>8 DEF Shutdown, CancelRead, JoinReader, StopWatcher, CancelWatch, JoinWatcher, Close,
       Remove, Cancelled, RemovedFails
  <2>2. /\ UNCHANGED <<closing, shutdown>>
        /\ handle' \in {handle, "closed"}
    BY <1>8 DEF Shutdown, CancelRead, JoinReader, StopWatcher, CancelWatch, JoinWatcher, Close,
       Remove
  <2> QED  BY <2>1, <2>2, FailingIsQuiet DEF closing, writable
<1>9. CASE UNCHANGED vars
  BY <1>9 DEF vars, driver, writable, flags
<1> QED  BY <1>1, <1>2, <1>3, <1>4, <1>5, <1>6, <1>7, <1>8, <1>9

\* What Accept adds.
LEMMA AcceptProperties ==
  ASSUME Typed, WriteInv, offered > 0, Len(accepted) = Level, NEW k \in 1..Left, Accept(k)
  PROVE  /\ Len(accepted') = Level + k
         /\ accepted' = Bytes(0, Level + k)
         /\ Level \in Nat /\ Level + k <= Whole(offered)
<1>1. k \in Nat \ {0} /\ writer.offset \in Nat /\ writer.offset + k <= ChunkLen
  BY AdvancedType
<1>2. Whole(offered - 1) \in Nat /\ Whole(offered) = Whole(offered - 1) + ChunkLen
  BY WholeProperties DEF Typed
<1>3. Level \in Nat /\ Level + k \in Nat /\ Level + k <= Whole(offered)
  BY <1>1, <1>2, Sizes DEF Level
<1>4. accepted' = Bytes(0, Level) \o Bytes(Level, Level + k)
  BY DEF WriteInv, Accept, Level, Whole
<1> DEFINE m == Level
           n == Level + k
<1>5. m \in Nat /\ n \in Nat /\ 0 <= m /\ m <= n /\ accepted' = Bytes(0, m) \o Bytes(m, n)
  BY <1>1, <1>3, <1>4
<1> HIDE DEF m, n
<1>6. accepted' = Bytes(0, n) /\ Len(accepted') = n
  BY <1>5, BytesJoin, BytesFromZero
<1> QED  BY <1>3, <1>6 DEF n

LEMMA WriteStep == Core /\ Typed' /\ [Next]_vars => WriteInv'
<1> SUFFICES ASSUME Core, Typed', [Next]_vars PROVE WriteInv'
  OBVIOUS
<1>0. Typed /\ ShutdownInv /\ WriteInv /\ "write" \in Thread
  BY DEF Core, Thread
<1>1. /\ offered \in Nat /\ written \in Nat /\ written <= offered
      /\ Whole(offered) \in Nat /\ Whole(written) \in Nat
      /\ offered > 0 => /\ Whole(offered - 1) \in Nat
                        /\ Whole(offered) = Whole(offered - 1) + ChunkLen
  BY <1>0, WholeProperties DEF Typed
<1>2. CASE CompleteWrite
  <2>1. PICK k \in 1..Left : request' = [request EXCEPT !["write"] = Done(k)] /\ Accept(k)
    BY <1>2 DEF CompleteWrite
  <2>2. /\ request["write"] = Pending /\ UNCHANGED <<writer, handle, shutdown, offered, written>>
    BY <1>2 DEF CompleteWrite, flags, writable
  <2>3. writer.at = "wait" /\ Len(accepted) = Level /\ offered > 0
    <3>1. Pending # NoRequest /\ Pending # Failed /\ \A j \in 1..Left : Pending # Done(j)
      BY DEF Pending, NoRequest, Failed, Done
    <3>2. writer.at = "wait" /\ Len(accepted) = Level
      BY <1>0, <2>2, <3>1 DEF WriteInv
    <3>3. written < offered
      BY <1>0, <3>2 DEF WriteInv
    <3> QED  BY <1>1, <3>2, <3>3
  <2>4. /\ Len(accepted') = Level + k /\ accepted' = Bytes(0, Level + k)
        /\ Level \in Nat /\ Level + k <= Whole(offered) /\ k \in Nat
    BY <1>0, <2>1, <2>3, AcceptProperties, AdvancedType
  <2>5. request'["write"] = Done(k)
    BY <1>0, <2>1 DEF Typed
  <2>6. Level' = Level /\ Left' = Left /\ Whole(offered)' = Whole(offered)
        /\ Whole(written)' = Whole(written)
    BY <2>2 DEF Level, Left, Whole
  <2>7. Whole(written) <= Level + k
    BY <1>0, <1>1, <2>3, <2>4 DEF WriteInv
  <2> QED  BY <1>0, <2>1, <2>2, <2>3, <2>4, <2>5, <2>6, <2>7 DEF WriteInv
<1>3. CASE WriterIssue
  <2>1. /\ writer.at = "issue" /\ handle = "open" /\ writer' = [writer EXCEPT !.at = "wait"]
        /\ UNCHANGED <<handle, shutdown, offered, written>>
    BY <1>3 DEF WriterIssue, writerUnchanged, flags, writable
  <2>2. Len(accepted) = Level /\ offered > 0
    BY <1>0, <1>1, <2>1 DEF WriteInv
  <2>3. writer'.at = "wait" /\ writer'.offset = writer.offset
    BY <1>0, <2>1 DEF Typed
  <2>4. Level' = Level /\ Left' = Left /\ Whole(offered)' = Whole(offered)
        /\ Whole(written)' = Whole(written)
    BY <2>1, <2>3 DEF Level, Left, Whole
  <2>5. ASSUME NEW k \in 1..Left, request' = [request EXCEPT !["write"] = Done(k)], Accept(k)
        PROVE  WriteInv'
    <3>1. /\ Len(accepted') = Level + k /\ accepted' = Bytes(0, Level + k)
          /\ Level \in Nat /\ Level + k <= Whole(offered) /\ k \in Nat
      BY <1>0, <2>2, <2>5, AcceptProperties, AdvancedType
    <3>2. request'["write"] = Done(k)
      BY <1>0, <2>5 DEF Typed
    <3>3. Whole(written) <= Level + k
      BY <1>0, <1>1, <2>2, <3>1 DEF WriteInv
    <3> QED  BY <1>0, <2>1, <2>3, <2>4, <2>5, <3>1, <3>2, <3>3 DEF WriteInv
  <2>6. ASSUME request' = [request EXCEPT !["write"] = Pending], UNCHANGED accepted
        PROVE  WriteInv'
    <3>1. request'["write"] = Pending
      BY <1>0, <2>6 DEF Typed
    <3> QED  BY <1>0, <2>1, <2>2, <2>3, <2>4, <2>6, <3>1 DEF WriteInv
  <2> QED  BY <1>3, <2>5, <2>6 DEF WriterIssue
<1>4. CASE WriterIssueFails
  <2>1. /\ writer.at = "issue" /\ UNCHANGED <<accepted, handle, shutdown, offered, written>>
    BY <1>4 DEF WriterIssueFails, writerUnchanged, flags, writable
  <2>2. /\ writer'.offset = writer.offset
        /\ \/ writer'.at = "error" /\ request' = request
           \/ writer'.at = "wait" /\ request'["write"] = Failed
    BY <1>0, <1>4 DEF WriterIssueFails, Typed
  <2>3. Whole(offered)' = Whole(offered) /\ Whole(written)' = Whole(written)
    BY <2>1 DEF Whole
  <2> QED  BY <1>0, <2>1, <2>2, <2>3 DEF WriteInv
<1>5. CASE WriterAstray
  <2>1. /\ writer.at = "issue" /\ handle = "closed"
        /\ UNCHANGED <<accepted, request, handle, shutdown, offered, written>>
    BY <1>5 DEF WriterAstray, writerUnchanged, flags, writable
  <2>2. PICK k \in 1..Left : writer' = Advanced(k)
    BY <1>5 DEF WriterAstray
  <2>3. /\ writer'.offset = writer.offset + k /\ writer.offset + k <= ChunkLen
        /\ k \in Nat /\ writer.offset \in Nat
        /\ writer'.at = IF writer.offset + k = ChunkLen THEN "ok" ELSE "issue"
    BY <1>0, <2>2, AdvancedType
  <2>4. Whole(offered)' = Whole(offered) /\ Whole(written)' = Whole(written)
    BY <2>1 DEF Whole
  <2> QED  BY <1>0, <2>1, <2>3, <2>4, Sizes DEF WriteInv
<1>6. CASE WriterWoken
  <2>1. /\ writer.at = "wait" /\ request["write"] # Pending
        /\ UNCHANGED <<accepted, handle, shutdown, offered, written>>
        /\ request' = [request EXCEPT !["write"] = NoRequest]
    BY <1>6 DEF WriterWoken, writerUnchanged, flags, writable
  <2>2. request'["write"] = NoRequest
    BY <1>0, <2>1 DEF Typed
  <2>3. Whole(offered)' = Whole(offered) /\ Whole(written)' = Whole(written) /\ offered > 0
    BY <1>0, <1>1, <2>1 DEF Whole, WriteInv
  <2>4. CASE request["write"] = Failed
    <3>1. writer'.at = "error"
      BY <1>0, <1>6, <2>4 DEF WriterWoken, Typed
    <3> QED  BY <1>0, <2>1, <2>2, <2>3, <3>1 DEF WriteInv
  <2>5. CASE request["write"] # Failed
    <3>1. PICK k \in 1..Left : request["write"] = Done(k) /\ Len(accepted) = Level + k
      BY <1>0, <2>1, <2>5 DEF WriteInv
    <3>2. writer' = Advanced(k)
      BY <1>6, <2>5, <3>1 DEF WriterWoken, Done
    <3>3. /\ writer'.offset = writer.offset + k /\ writer.offset + k <= ChunkLen
          /\ k \in Nat /\ writer.offset \in Nat
          /\ writer'.at = IF writer.offset + k = ChunkLen THEN "ok" ELSE "issue"
      BY <1>0, <3>2, AdvancedType
    <3>4. Len(accepted) = Whole(offered - 1) + (writer.offset + k)
      BY <1>1, <2>3, <3>1, <3>3 DEF Level
    <3>5. Level' = Len(accepted)
      <4>1. Level' = Whole(offered - 1) + writer'.offset
        BY <2>1 DEF Level, Whole
      <4> QED  BY <3>3, <3>4, <4>1
    <3>6. writer.offset + k = ChunkLen => Len(accepted) = Whole(offered)
      BY <1>1, <2>3, <3>4
    <3> QED  BY <1>0, <2>1, <2>2, <2>3, <3>3, <3>5, <3>6, Sizes DEF WriteInv
  <2> QED  BY <2>4, <2>5
<1>7. CASE OnWritten
  <2>1. /\ writer.at = "ok" /\ writer' = NoWriter
        /\ written' = IF shutdown THEN written ELSE written + 1
        /\ UNCHANGED <<accepted, request, handle, shutdown, offered>>
    BY <1>7 DEF OnWritten, threads, driver, flags, writable
  <2>2. writer'.at = "none" /\ Whole(offered)' = Whole(offered) /\ Whole(written') = Whole(written)'
    BY <2>1 DEF NoWriter, Whole
  <2>3. ~shutdown => Len(accepted) = Whole(offered)
    <3>1. ~shutdown => handle = "open"
      BY <1>0 DEF ShutdownInv, Typed
    <3> QED  BY <1>0, <2>1, <3>1 DEF WriteInv
  <2>4. Whole(written') <= Len(accepted)
    <3>1. CASE shutdown
      BY <1>0, <2>1, <3>1 DEF WriteInv
    <3>2. CASE ~shutdown
      <4>1. written' \in Nat /\ written' <= offered
        BY <1>0, <1>1, <2>1, <3>2 DEF WriteInv
      <4> QED  BY <1>1, <2>3, <3>2, <4>1, WholeProperties
    <3> QED  BY <3>1, <3>2
  <2> QED  BY <1>0, <2>1, <2>2, <2>3, <2>4 DEF WriteInv
<1>8. CASE OnWriteError
  <2>1. /\ writer.at = "error" /\ writer' = NoWriter /\ shutdown'
        /\ UNCHANGED <<accepted, request, handle, offered, written>>
    BY <1>8 DEF OnWriteError, BeginShutdown, threads, driver, writable
  <2>2. writer'.at = "none" /\ Whole(offered)' = Whole(offered) /\ Whole(written)' = Whole(written)
    BY <2>1 DEF NoWriter, Whole
  <2> QED  BY <1>0, <2>1, <2>2 DEF WriteInv
<1>9. CASE Write
  <2>1. /\ ~shutdown /\ writer.at = "none" /\ offered' = offered + 1
        /\ writer'.at = "issue" /\ writer'.offset = 0
        /\ UNCHANGED <<accepted, request, handle, shutdown, written>>
    BY <1>9 DEF Write, StreamRuns, NoWriter, threads, driver, flags
  <2>2. Len(accepted) = Whole(offered)
    BY <1>0, <2>1 DEF WriteInv
  <2>3. Level' = Whole(offered) /\ Whole(offered)' = Whole(offered) + ChunkLen
        /\ Whole(written)' = Whole(written)
    <3>1. offered' - 1 = offered
      BY <1>1, <2>1
    <3>2. Level' = (offered' - 1) * ChunkLen + writer'.offset
      BY DEF Level, Whole
    <3>3. Level' = Whole(offered) + 0
      BY <2>1, <3>1, <3>2 DEF Whole
    <3>4. Whole(offered)' = Whole(offered + 1) /\ Whole(written)' = Whole(written)
      BY <2>1 DEF Whole
    <3> QED  BY <1>1, <3>3, <3>4, WholeProperties
  <2> QED  BY <1>0, <1>1, <2>1, <2>2, <2>3, Sizes DEF WriteInv
<1>10. CASE \/ Arrive \/ CompleteRead \/ CompleteWatch \/ RemovedElsewhere
            \/ Reader \/ Watcher \/ OnData \/ OnReadError \/ Read \/ Consume \/ Destroy
            \/ Shutdown \/ UNCHANGED vars
  BY <1>0, <1>10, QuietSteps, QuietStep
<1> QED  BY <1>2, <1>3, <1>4, <1>5, <1>6, <1>7, <1>8, <1>9, <1>10 DEF Next, Driver, Writer, Callback

LEMMA CoreInvariant == Spec => []Core
<1>1. Core /\ [Next]_vars => Core'
  BY TypedStep, ShutdownStep, WriteStep DEF Core
<1> QED  BY <1>1, CoreInit, PTL DEF Spec

\* Every variable keeps its type, for every size and bound: no writer runs
\* past its chunk and no byte is accepted that was not offered (do_write's
\* offset, written and chunk bookkeeping in stream.rs).
THEOREM TypeCorrect == Spec => []TypeOK
BY CoreInvariant, CoreMeansTypeOK, PTL

\* "callers always get a fully-written guarantee" (stream.rs:304): chunks
\* reported as written are in the driver whole, however their WriteFile calls
\* were cut up, cancelled or overtaken by the shutdown.
THEOREM WrittenIsWritten == Spec => []ReportedIsAccepted
<1>1. Core => ReportedIsAccepted
  BY DEF Core, WriteInv, ReportedIsAccepted, Whole
<1> QED  BY <1>1, CoreInvariant, PTL

-----------------------------------------------------------------------------
(* Writing is a byte pipe.                                                 *)

\* A longer run from the start of the stream continues a shorter one.
LEMMA BytesGrow ==
  ASSUME NEW m \in Nat, NEW n \in Nat, m < n
  PROVE  /\ Len(Bytes(0, m)) = m /\ Len(Bytes(0, n)) = n
         /\ \A i \in 1..m : Bytes(0, n)[i] = Bytes(0, m)[i]
<1>1. Len(Bytes(0, m)) = m /\ \A i \in 1..m : Bytes(0, m)[i] = i
  BY BytesFromZero
<1>2. Len(Bytes(0, n)) = n /\ \A i \in 1..n : Bytes(0, n)[i] = i
  BY BytesFromZero
<1> QED  BY <1>1, <1>2

\* A step offers a chunk, or has the driver accept bytes, or neither.
LEMMA WriteEffects ==
  ASSUME Core, [Next]_vars
  PROVE  \/ offered < MaxChunks /\ offered' = offered + 1 /\ UNCHANGED accepted
         \/ Len(accepted) < Len(accepted') /\ UNCHANGED offered
         \/ UNCHANGED <<offered, accepted>>
<1>0. Typed /\ WriteInv
  BY DEF Core
<1>1. ASSUME Len(accepted) = Level, writer.at # "none", NEW k \in 1..Left, Accept(k)
      PROVE  Len(accepted) < Len(accepted')
  <2>1. offered > 0
    BY <1>0, <1>1 DEF WriteInv, Typed
  <2>2. Len(accepted') = Level + k /\ Level \in Nat
    BY <1>0, <1>1, <2>1, AcceptProperties
  <2>3. k > 0 /\ k \in Nat
    BY <1>0, AdvancedType
  <2> QED  BY <1>1, <2>2, <2>3
<1>2. CASE CompleteWrite
  <2>1. PICK k \in 1..Left : Accept(k)
    BY <1>2 DEF CompleteWrite
  <2>2. request["write"] = Pending
    BY <1>2 DEF CompleteWrite
  <2>3. Pending # NoRequest /\ Pending # Failed /\ \A j \in 1..Left : Pending # Done(j)
    BY DEF Pending, NoRequest, Failed, Done
  <2>4. writer.at = "wait" /\ Len(accepted) = Level
    BY <1>0, <2>2, <2>3 DEF WriteInv
  <2> QED  BY <1>1, <1>2, <2>1, <2>4 DEF CompleteWrite, writable
<1>3. CASE WriterIssue
  <2>1. writer.at = "issue" /\ Len(accepted) = Level /\ UNCHANGED offered
    BY <1>0, <1>3 DEF WriterIssue, WriteInv, writerUnchanged, writable
  <2>2. UNCHANGED accepted \/ \E k \in 1..Left : Accept(k)
    BY <1>3 DEF WriterIssue
  <2> QED  BY <1>1, <2>1, <2>2
<1>4. CASE WriterIssueFails \/ WriterAstray \/ WriterWoken
  BY <1>4 DEF WriterIssueFails, WriterAstray, WriterWoken, writerUnchanged, writable
<1>5. CASE OnWritten \/ OnWriteError
  BY <1>5 DEF OnWritten, OnWriteError, threads, driver, writable
<1>6. CASE Write
  BY <1>0, <1>6, Sizes DEF Write, threads, driver, Typed
<1>7. CASE \/ Arrive \/ CompleteRead \/ CompleteWatch \/ RemovedElsewhere
           \/ Reader \/ Watcher \/ OnData \/ OnReadError \/ Read \/ Consume \/ Destroy
           \/ Shutdown \/ UNCHANGED vars
  BY <1>0, <1>7, QuietSteps DEF WriteQuiet
<1> QED  BY <1>2, <1>3, <1>4, <1>5, <1>6, <1>7 DEF Next, Driver, Writer, Callback

LEMMA WritesStep ==
  Core /\ Core' /\ [Next]_vars => [Writes!Next]_(Writes!vars)
<1> SUFFICES ASSUME Core, Core', [Next]_vars PROVE [Writes!Next]_(Writes!vars)
  OBVIOUS
<1> DEFINE a == Len(accepted)
           b == Len(accepted')
           c == Whole(offered)
           d == Whole(offered')
<1>1. /\ a \in Nat /\ accepted = Bytes(0, a) /\ a <= c
      /\ b \in Nat /\ accepted' = Bytes(0, b) /\ b <= d
  BY DEF Core, WriteInv, Whole
<1>2. offered \in Nat /\ offered' \in Nat /\ c \in Nat /\ d \in Nat
      /\ d <= MaxChunks * ChunkLen
  <2>1. offered \in Nat /\ offered' \in Nat /\ offered' <= MaxChunks
    BY DEF Core, Typed
  <2>2. c \in Nat /\ d \in Nat /\ d <= Whole(MaxChunks)
    BY <2>1, Sizes, WholeProperties
  <2> QED  BY <2>1, <2>2 DEF Whole
<1>3. Bytes(0, offered * ChunkLen) = Bytes(0, c) /\ Bytes(0, offered * ChunkLen)' = Bytes(0, d)
  BY DEF Whole
<1>4. CASE offered' = offered + 1 /\ UNCHANGED accepted
  <2>1. d = c + ChunkLen
    BY <1>2, <1>4, WholeProperties
  <2>2. c < d
    BY <1>2, <2>1, Sizes
  <2> HIDE DEF a, b, c, d
  <2>3. Writes!Grows(Bytes(0, c), Bytes(0, d)) /\ Len(Bytes(0, d)) = d
    BY <1>2, <2>2, BytesGrow DEF Writes!Grows
  <2>4. d - a <= MaxChunks * ChunkLen
    BY <1>1, <1>2, Sizes
  <2>5. Writes!Send
    BY <1>3, <1>4, <2>3, <2>4 DEF Writes!Send, a
  <2> QED  BY <2>5 DEF Writes!Next
<1>5. CASE a < b /\ UNCHANGED offered
  <2>1. c = d
    BY <1>5
  <2> HIDE DEF a, b, c, d
  <2>2. Writes!Grows(accepted, accepted') /\ Len(accepted') = b
    BY <1>1, <1>5, BytesGrow DEF Writes!Grows
  <2>3. Len(Bytes(0, c)) = c /\ \A i \in 1..b : accepted'[i] = Bytes(0, c)[i]
    <3>1. \A i \in 1..c : Bytes(0, c)[i] = i
      BY <1>2, BytesFromZero
    <3>2. \A i \in 1..b : Bytes(0, b)[i] = i
      BY <1>1, BytesFromZero
    <3>3. Len(Bytes(0, c)) = c
      BY <1>2, BytesFromZero
    <3> QED  BY <1>1, <1>2, <2>1, <3>1, <3>2, <3>3
  <2>4. Writes!Deliver
    BY <1>1, <1>3, <2>1, <2>2, <2>3 DEF Writes!Deliver
  <2> QED  BY <2>4 DEF Writes!Next
<1>6. CASE UNCHANGED <<offered, accepted>>
  BY <1>6 DEF Writes!vars
<1> QED  BY <1>4, <1>5, <1>6, WriteEffects

\* The driver gets the bytes of the program's chunks once each and in order,
\* for every chunk length and number of chunks: do_write's loop, the requests
\* it is cut up into and the shutdown's CancelIoEx implement BytePipe.
THEOREM WritesAreABytePipe == Spec => WritesImplementPipe
<1>1. Init => Writes!Init
  <2>1. 0 * ChunkLen = 0
    BY Sizes
  <2>2. Bytes(0, 0) = <<>>
    BY BytesNone
  <2> QED  BY <2>1, <2>2 DEF Init, Writes!Init
<1> QED  BY <1>1, WritesStep, CoreInvariant, PTL DEF Spec, WritesImplementPipe, Writes!SafeSpec

-----------------------------------------------------------------------------
(* The way of the bytes read: calls of the data callback, Node's buffer.   *)

\* The calls hold the bytes after m up to n, each from where the one before
\* it ended.
Contiguous(calls_, m, n) ==
  \E end \in [0..Len(calls_) -> 0..n] :
    /\ end[0] = m /\ end[Len(calls_)] = n
    /\ \A j \in 1..Len(calls_) : end[j - 1] <= end[j] /\ calls_[j] = Bytes(end[j - 1], end[j])

\* After the c bytes that the program has consumed, the buffer and then the
\* calls hold those up to n.
Flows(c, buf, calls_, n) ==
  \E m \in 0..n : c <= m /\ buf = Bytes(c, m) /\ Contiguous(calls_, m, n)

\* The bytes a completed read has taken and its thread not yet queued.
InFlight == IF request["read"].state = "done" THEN request["read"].bytes ELSE 0

\* How what the program has consumed relates to what the reads have taken:
\* the bytes in between are in the buffer, in the calls and in the reader's
\* request, until the stream is shut down and drops them.
ReadInv ==
  /\ Len(consumed) \in Nat
  /\ consumed = Bytes(0, Len(consumed))
  /\ Len(consumed) <= taken
  /\ reader # "wait" => request["read"] = NoRequest
  /\ reader = "wait" => \/ request["read"] \in {Pending, Failed}
                        \/ \E k \in 1..taken : request["read"] = Done(k)
  /\ ~shutdown => Flows(Len(consumed), buffer, chunks, taken - InFlight)

LEMMA FlowsStart == Flows(0, <<>>, <<>>, 0)
<1>1. Len(<<>>) = 0 /\ Bytes(0, 0) = <<>>
  BY EmptySeq, BytesNone
<1>2. Contiguous(<<>>, 0, 0)
  <2> DEFINE end == [j \in 0..0 |-> 0]
  <2>1. end \in [0..Len(<<>>) -> 0..0] /\ end[0] = 0 /\ 1..Len(<<>>) = {}
    BY <1>1
  <2> QED  BY <1>1, <2>1 DEF Contiguous
<1> QED  BY <1>1, <1>2 DEF Flows

\* The reader queues a call with the bytes that come next.
LEMMA FlowsAppend ==
  ASSUME NEW c \in Nat, NEW n \in Nat, NEW k \in Nat, NEW b, NEW cs \in Seq(Seq(Int)),
         Flows(c, b, cs, n)
  PROVE  Flows(c, b, Append(cs, Bytes(n, n + k)), n + k)
<1>1. PICK m \in 0..n : c <= m /\ b = Bytes(c, m) /\ Contiguous(cs, m, n)
  BY DEF Flows
<1>2. PICK e \in [0..Len(cs) -> 0..n] :
        /\ e[0] = m /\ e[Len(cs)] = n
        /\ \A j \in 1..Len(cs) : e[j - 1] <= e[j] /\ cs[j] = Bytes(e[j - 1], e[j])
  BY <1>1 DEF Contiguous
<1> DEFINE l == Len(cs)
           w == Bytes(n, n + k)
           ds == Append(cs, w)
           f == [j \in 0..(l + 1) |-> IF j <= l THEN e[j] ELSE n + k]
<1>3. l \in Nat /\ w \in Seq(Int)
  <2>1. n + k \in Nat /\ n <= n + k
    OBVIOUS
  <2>2. w \in Seq(Nat)
    BY <2>1, BytesProperties
  <2> QED  BY <2>2
<1>4. Len(ds) = l + 1 /\ ds[l + 1] = w /\ \A j \in 1..l : ds[j] = cs[j]
  <2> HIDE DEF w
  <2> QED  BY <1>3, AppendProperties
<1>5. f \in [0..(l + 1) -> 0..(n + k)] /\ \A j \in 0..l : f[j] = e[j]
  <2>1. ASSUME NEW j \in 0..l PROVE e[j] \in 0..(n + k)
    <3>1. e[j] \in 0..n
      BY <1>2
    <3> HIDE DEF l
    <3> QED  BY <3>1
  <2> QED  BY <1>3, <2>1
<1>6. f[0] = m /\ f[l + 1] = n + k /\ f[l] = n
  BY <1>2, <1>3, <1>5
<1> HIDE DEF f
<1>7. ASSUME NEW j \in 1..(l + 1)
      PROVE  f[j - 1] <= f[j] /\ ds[j] = Bytes(f[j - 1], f[j])
  <2>1. CASE j \in 1..l
    <3>1. j - 1 \in 0..l /\ j \in 0..l
      BY <1>3, <2>1
    <3> QED  BY <1>2, <1>4, <1>5, <2>1, <3>1
  <2>2. CASE j = l + 1
    <3>1. j - 1 = l
      BY <1>3, <2>2
    <3> QED  BY <1>4, <1>6, <2>2, <3>1
  <2> QED  BY <1>3, <2>1, <2>2
<1> HIDE DEF ds, l
<1>8. Contiguous(ds, m, n + k)
  BY <1>4, <1>5, <1>6, <1>7 DEF Contiguous
<1> QED  BY <1>1, <1>8 DEF Flows, ds, w

\* onData moves the first call's bytes into the buffer.
LEMMA FlowsData ==
  ASSUME NEW c \in Nat, NEW n \in Nat, NEW b, NEW cs \in Seq(Seq(Int)), cs # <<>>,
         Flows(c, b, cs, n)
  PROVE  Flows(c, b \o Head(cs), Tail(cs), n)
<1>1. PICK m \in 0..n : c <= m /\ b = Bytes(c, m) /\ Contiguous(cs, m, n)
  BY DEF Flows
<1>2. PICK e \in [0..Len(cs) -> 0..n] :
        /\ e[0] = m /\ e[Len(cs)] = n
        /\ \A j \in 1..Len(cs) : e[j - 1] <= e[j] /\ cs[j] = Bytes(e[j - 1], e[j])
  BY <1>1 DEF Contiguous
<1> DEFINE l == Len(cs)
           ds == Tail(cs)
           f == [j \in 0..(l - 1) |-> e[j + 1]]
<1>3. /\ l \in Nat \ {0} /\ Head(cs) = cs[1]
      /\ Len(ds) = l - 1 /\ \A j \in 1..(l - 1) : ds[j] = cs[j + 1]
  <2>1. Len(cs) \in Nat /\ Len(cs) # 0 /\ Head(cs) = cs[1]
    BY EmptySeq
  <2>2. Tail(cs) \in Seq(Seq(Int)) /\ Len(Tail(cs)) = Len(cs) - 1
        /\ \A j \in 1..Len(Tail(cs)) : Tail(cs)[j] = cs[j + 1]
    BY HeadTailProperties
  <2> QED  BY <2>1, <2>2
<1>4. e[0] <= e[1] /\ e[1] \in 0..n /\ Head(cs) = Bytes(m, e[1])
  <2>1. 1 \in 1..l /\ 1 - 1 = 0 /\ 1 \in 0..l
    BY <1>3
  <2> QED  BY <1>2, <1>3, <2>1
<1>5. b \o Head(cs) = Bytes(c, e[1]) /\ c <= e[1]
  <2> DEFINE p == e[1]
  <2>1. m \in Nat /\ p \in Nat /\ c <= m /\ m <= p
    BY <1>1, <1>2, <1>4
  <2> HIDE DEF p
  <2>2. Bytes(c, m) \o Bytes(m, p) = Bytes(c, p)
    BY <2>1, BytesJoin
  <2>3. Head(cs) = Bytes(m, p)
    BY <1>4 DEF p
  <2>4. b \o Head(cs) = Bytes(c, p)
    BY <1>1, <2>2, <2>3, Zenon
  <2>5. c <= p
    BY <2>1
  <2> QED  BY <2>4, <2>5 DEF p
<1>6. f \in [0..(l - 1) -> 0..n] /\ \A j \in 0..(l - 1) : f[j] = e[j + 1]
  <2>1. \A j \in 0..(l - 1) : j + 1 \in 0..l
    BY <1>3
  <2> QED  BY <2>1
<1> HIDE DEF f, ds
<1>7. f[0] = e[1] /\ f[l - 1] = n
  <2>1. 0 \in 0..(l - 1) /\ l - 1 \in 0..(l - 1) /\ 0 + 1 = 1 /\ (l - 1) + 1 = l
    BY <1>3
  <2> QED  BY <1>2, <1>6, <2>1
<1>8. ASSUME NEW j \in 1..(l - 1)
      PROVE  f[j - 1] <= f[j] /\ ds[j] = Bytes(f[j - 1], f[j])
  <2>1. j - 1 \in 0..(l - 1) /\ j \in 0..(l - 1) /\ j + 1 \in 1..l /\ (j - 1) + 1 = j
        /\ (j + 1) - 1 = j
    BY <1>3
  <2>2. f[j - 1] = e[j] /\ f[j] = e[j + 1]
    BY <1>6, <2>1
  <2>3. e[j] <= e[j + 1] /\ cs[j + 1] = Bytes(e[j], e[j + 1])
    <3> HIDE DEF l
    <3>1. j + 1 \in 1..Len(cs)
      BY <2>1 DEF l
    <3> QED  BY <1>2, <2>1, <3>1
  <2> QED  BY <1>3, <2>2, <2>3
<1> HIDE DEF l
<1>9. Contiguous(ds, e[1], n)
  BY <1>3, <1>6, <1>7, <1>8 DEF Contiguous
<1> QED  BY <1>4, <1>5, <1>9 DEF Flows, ds

\* The program takes the first byte of the buffer.
LEMMA FlowsConsume ==
  ASSUME NEW c \in Nat, NEW n \in Nat, NEW b, NEW cs, b # <<>>, Flows(c, b, cs, n)
  PROVE  /\ Head(b) = c + 1 /\ c + 1 <= n
         /\ Flows(c + 1, Tail(b), cs, n)
<1>1. PICK m \in 0..n : c <= m /\ b = Bytes(c, m) /\ Contiguous(cs, m, n)
  BY DEF Flows
<1>2. c < m
  <2>1. c # m
    BY <1>1, BytesNone
  <2> QED  BY <1>1, <2>1
<1>3. Head(b) = c + 1 /\ Tail(b) = Bytes(c + 1, m)
  BY <1>1, <1>2, BytesHeadTail
<1> QED  BY <1>1, <1>2, <1>3 DEF Flows

\* Steps that do not read: what was read stays where it is, unless the stream
\* is shut down; a pending read may fail.
ReadQuiet ==
  /\ UNCHANGED <<consumed, taken, reader>>
  /\ request'["read"] = IF request["read"] = Pending THEN request'["read"] ELSE request["read"]
  /\ request'["read"] \in {request["read"], Failed}
  /\ shutdown \/ UNCHANGED <<buffer, chunks>>
  /\ shutdown => shutdown'

LEMMA ReadQuietStep ==
  ASSUME Typed, ReadInv, ReadQuiet
  PROVE  ReadInv'
<1>1. InFlight' = InFlight
  BY DEF ReadQuiet, InFlight, Pending, Failed
<1>2. ~shutdown' => Flows(Len(consumed), buffer, chunks, taken - InFlight)'
  <2>1. ASSUME ~shutdown' PROVE UNCHANGED <<consumed, buffer, chunks, taken>> /\ ~shutdown
    BY <2>1 DEF ReadQuiet
  <2> QED  BY <1>1, <2>1 DEF ReadInv
<1>3. UNCHANGED <<consumed, taken, reader>>
  BY DEF ReadQuiet
<1>4. reader # "wait" => request'["read"] = NoRequest
  BY DEF ReadInv, ReadQuiet, NoRequest, Pending
<1>5. reader = "wait" => \/ request'["read"] \in {Pending, Failed}
                         \/ \E k \in 1..taken : request'["read"] = Done(k)
  BY DEF ReadInv, ReadQuiet
<1> QED  BY <1>2, <1>3, <1>4, <1>5 DEF ReadInv

LEMMA FailingIsReadQuiet ==
  ASSUME Typed, request' = AllPendingFail \/ request' = request
  PROVE  /\ request'["read"] = IF request["read"] = Pending THEN request'["read"] ELSE request["read"]
         /\ request'["read"] \in {request["read"], Failed}
<1>1. "read" \in Thread
  BY DEF Thread
<1> QED  BY <1>1, AllPendingFailProperties

LEMMA OtherRequestIsReadQuiet ==
  ASSUME Typed, NEW t \in Thread \ {"read"}, NEW r, request' = [request EXCEPT ![t] = r]
  PROVE  request'["read"] = request["read"]
BY DEF Typed, Thread

LEMMA ReadQuietSteps ==
  ASSUME Typed, ShutdownInv,
         \/ Arrive \/ CompleteWrite \/ CompleteWatch \/ RemovedElsewhere
         \/ Watcher \/ Writer \/ OnReadError \/ OnWritten \/ OnWriteError
         \/ Read \/ Write \/ Destroy \/ Shutdown \/ UNCHANGED vars
  PROVE  ReadQuiet
<1> USE DEF ReadQuiet
<1>0. "write" \in Thread \ {"read"} /\ "watch" \in Thread \ {"read"}
  BY DEF Thread
<1>1. CASE Arrive
  BY <1>1 DEF Arrive, readable, calls, flags
<1>2. CASE CompleteWrite \/ CompleteWatch
  <2>1. request'["read"] = request["read"]
    BY <1>0, <1>2, OtherRequestIsReadQuiet DEF CompleteWrite, CompleteWatch
  <2> QED  BY <1>2, <2>1 DEF CompleteWrite, CompleteWatch, readable, calls, flags
<1>3. CASE RemovedElsewhere
  BY <1>3, FailingIsReadQuiet DEF RemovedElsewhere, readable, calls, flags
<1>4. CASE Watcher
  <2>1. request'["read"] = request["read"]
    BY <1>0, <1>4, OtherRequestIsReadQuiet
       DEF Watcher, WatcherCheck, WatcherIssue, WatcherIssueFails, WatcherWoken
  <2> QED  BY <1>4, <2>1
           DEF Watcher, WatcherCheck, WatcherIssue, WatcherIssueFails, WatcherWoken,
               watcherUnchanged, readable, calls, flags
<1>5. CASE Writer
  <2>1. request'["read"] = request["read"]
    BY <1>0, <1>5, OtherRequestIsReadQuiet
       DEF Writer, WriterIssue, WriterIssueFails, WriterAstray, WriterWoken
  <2> QED  BY <1>5, <2>1
           DEF Writer, WriterIssue, WriterIssueFails, WriterAstray, WriterWoken,
               writerUnchanged, readable, calls, flags
<1>6. CASE OnReadError
  BY <1>6 DEF OnReadError, BeginShutdown, threads, driver, readable
<1>7. CASE OnWritten
  BY <1>7 DEF OnWritten, threads, driver, readable, calls, flags
<1>8. CASE OnWriteError
  BY <1>8 DEF OnWriteError, BeginShutdown, threads, driver, readable, calls
<1>9. CASE Read
  BY <1>9 DEF Read, threads, driver, calls
<1>10. CASE Write
  BY <1>10 DEF Write, threads, driver, readable, calls, flags
<1>11. CASE Destroy
  BY <1>11 DEF Destroy, BeginShutdown, threads, driver, readable, calls
<1>12. CASE Shutdown
  <2>1. request' = AllPendingFail \/ request' = request
    BY <1>12 DEF Shutdown, CancelRead, JoinReader, StopWatcher, CancelWatch, JoinWatcher, Close,
       Remove, Cancelled, RemovedFails
  <2>2. UNCHANGED <<closing, shutdown>> /\ js # "loop"
    BY <1>12 DEF Shutdown, CancelRead, JoinReader, StopWatcher, CancelWatch, JoinWatcher, Close,
       Remove
  <2>3. shutdown
    BY <2>2 DEF ShutdownInv
  <2> QED  BY <2>1, <2>2, <2>3, FailingIsReadQuiet DEF closing, readable
<1>13. CASE UNCHANGED vars
  BY <1>13 DEF vars, driver, readable, calls, flags
<1> QED  BY <1>1, <1>2, <1>3, <1>4, <1>5, <1>6, <1>7, <1>8, <1>9, <1>10, <1>11, <1>12, <1>13

\* Bytes taken by a read are in flight until its thread queues them.
LEMMA TakingStep ==
  ASSUME Typed, ReadInv, Share > 0, taken' = taken + Share, request["read"].state # "done",
         request'["read"] = Done(Share), reader' = "wait",
         UNCHANGED <<consumed, buffer, chunks, shutdown>>
  PROVE  ReadInv'
<1>1. taken \in Nat /\ Share \in Nat /\ taken' \in Nat /\ taken <= taken'
  BY ShareProperties DEF Typed
<1>2. taken' - InFlight' = taken - InFlight
  BY <1>1 DEF InFlight, Done
<1>3. Share \in 1..taken'
  BY <1>1
<1>4. Len(consumed) <= taken'
  BY <1>1 DEF ReadInv
<1>5. ~shutdown' => Flows(Len(consumed), buffer, chunks, taken - InFlight)'
  BY <1>2 DEF ReadInv
<1> QED  BY <1>3, <1>4, <1>5 DEF ReadInv

LEMMA InFlightProperties ==
  ASSUME Typed, ReadInv
  PROVE  taken - InFlight \in Nat /\ taken - InFlight <= taken
<1>1. taken \in Nat
  BY DEF Typed
<1>2. CASE request["read"].state = "done"
  <2>1. PICK k \in 1..taken : request["read"] = Done(k)
    BY <1>2 DEF ReadInv, NoRequest, Pending, Failed
  <2>2. InFlight = k
    BY <2>1 DEF InFlight, Done
  <2> QED  BY <1>1, <2>2
<1>3. CASE request["read"].state # "done"
  BY <1>1, <1>3 DEF InFlight
<1> QED  BY <1>2, <1>3

LEMMA ReadStep == Core /\ Typed' /\ ReadInv /\ [Next]_vars => ReadInv'
<1> SUFFICES ASSUME Core, Typed', ReadInv, [Next]_vars PROVE ReadInv'
  OBVIOUS
<1>0. Typed /\ ShutdownInv /\ "read" \in Thread
  BY DEF Core, Thread
<1>1. taken \in Nat /\ Share \in Nat /\ taken + Share \in Nat /\ chunks \in Seq(Seq(Int))
  BY <1>0, ShareProperties DEF Typed
<1>2. Pending.state # "done" /\ Failed.state # "done" /\ NoRequest.state # "done"
      /\ Pending # NoRequest /\ Failed # NoRequest
  BY DEF Pending, Failed, NoRequest
<1>3. CASE CompleteRead
  <2>1. /\ request["read"] = Pending /\ Share > 0 /\ taken' = taken + Share
        /\ request' = [request EXCEPT !["read"] = Done(Share)]
        /\ UNCHANGED <<reader, consumed, buffer, chunks, shutdown>>
    BY <1>3 DEF CompleteRead, readable, calls, flags
  <2>2. reader' = "wait" /\ request'["read"] = Done(Share)
    BY <1>0, <1>2, <2>1 DEF ReadInv, Typed
  <2> QED  BY <1>0, <1>2, <2>1, <2>2, TakingStep
<1>4. CASE ReaderIssue
  <2>1. /\ reader = "issue" /\ reader' = "wait" /\ taken' = taken + Share
        /\ request' = [request EXCEPT !["read"] = IF Share > 0 THEN Done(Share) ELSE Pending]
        /\ UNCHANGED <<consumed, buffer, chunks, shutdown>>
    BY <1>4 DEF ReaderIssue, readerUnchanged, readable, calls, flags
  <2>2. request["read"] = NoRequest
    BY <2>1 DEF ReadInv
  <2>3. CASE Share > 0
    <3>1. request'["read"] = Done(Share)
      BY <1>0, <2>1, <2>3 DEF Typed
    <3> QED  BY <1>0, <1>2, <2>1, <2>2, <2>3, <3>1, TakingStep
  <2>4. CASE ~(Share > 0)
    <3>1. request'["read"] = Pending
      BY <1>0, <2>1, <2>4 DEF Typed
    <3>2. taken' = taken
      BY <1>1, <2>1, <2>4
    <3>3. InFlight' = InFlight
      BY <1>2, <2>2, <3>1 DEF InFlight
    <3>4. ~shutdown' => Flows(Len(consumed), buffer, chunks, taken - InFlight)'
      BY <2>1, <3>2, <3>3 DEF ReadInv
    <3> QED  BY <2>1, <3>1, <3>2, <3>4 DEF ReadInv
  <2> QED  BY <2>3, <2>4
<1>5. CASE ReaderCheck \/ ReaderGate \/ ReaderIssueFails
  <2>1. /\ reader # "wait" /\ reader' # "wait"
        /\ UNCHANGED <<request, taken, consumed, buffer, chunks, shutdown>>
    BY <1>5 DEF ReaderCheck, ReaderGate, ReaderIssueFails, readerUnchanged, driver, readable, calls, flags
  <2>2. InFlight' = InFlight
    BY <2>1 DEF InFlight
  <2>3. ~shutdown' => Flows(Len(consumed), buffer, chunks, taken - InFlight)'
    BY <2>1, <2>2 DEF ReadInv
  <2> QED  BY <2>1, <2>3 DEF ReadInv
<1>6. CASE ReaderIssuePended \/ ReaderGetsError
  <2>1. UNCHANGED <<taken, consumed, buffer, chunks, shutdown>>
    BY <1>6 DEF ReaderIssuePended, ReaderGetsError, readerUnchanged, readable, calls, flags
  <2>2. /\ request["read"] \in {NoRequest, Failed}
        /\ \/ reader' = "wait" /\ request'["read"] = Failed
           \/ reader' # "wait" /\ request'["read"] = NoRequest
    BY <1>0, <1>6 DEF ReaderIssuePended, ReaderGetsError, ReadInv, Typed
  <2>3. InFlight' = InFlight
    BY <1>2, <2>2 DEF InFlight
  <2>4. ~shutdown' => Flows(Len(consumed), buffer, chunks, taken - InFlight)'
    BY <2>1, <2>3 DEF ReadInv
  <2> QED  BY <2>1, <2>2, <2>4 DEF ReadInv
<1>7. CASE ReaderGetsData
  <2>1. /\ reader = "wait" /\ request["read"].state = "done" /\ reader' = "check"
        /\ chunks' = Append(chunks, Delivered)
        /\ request' = [request EXCEPT !["read"] = NoRequest]
        /\ UNCHANGED <<taken, consumed, buffer, shutdown>>
    BY <1>7 DEF ReaderGetsData, readerUnchanged, readable, flags
  <2>2. request'["read"] = NoRequest
    BY <1>0, <2>1 DEF Typed
  <2>3. PICK k \in 1..taken : request["read"] = Done(k)
    BY <1>2, <2>1 DEF ReadInv
  <2> DEFINE n == taken - k
  <2>4. k \in Nat /\ n \in Nat /\ n + k = taken
    BY <1>1
  <2>5. Delivered = Bytes(n, taken) /\ InFlight = k /\ InFlight' = 0
    BY <1>2, <2>2, <2>3 DEF Delivered, InFlight, Done
  <2>6. taken - InFlight = n /\ (taken - InFlight)' = taken
    BY <1>1, <2>1, <2>5
  <2> HIDE DEF n
  <2>7. ASSUME ~shutdown
        PROVE  Flows(Len(consumed), buffer, chunks', taken)
    <3>1. Flows(Len(consumed), buffer, chunks, n)
      BY <2>6, <2>7 DEF ReadInv
    <3>2. Len(consumed) \in Nat
      BY DEF ReadInv
    <3>3. Flows(Len(consumed), buffer, Append(chunks, Bytes(n, n + k)), n + k)
      BY <1>1, <2>4, <3>1, <3>2, FlowsAppend
    <3> QED  BY <2>1, <2>4, <2>5, <3>3
  <2>8. ~shutdown' => Flows(Len(consumed), buffer, chunks, taken - InFlight)'
    BY <2>1, <2>6, <2>7
  <2> QED  BY <2>1, <2>2, <2>8 DEF ReadInv
<1>8. CASE OnData
  <2>1. /\ ~shutdown /\ chunks # <<>>
        /\ chunks' = Tail(chunks) /\ buffer' = buffer \o Head(chunks)
        /\ UNCHANGED <<request, taken, reader, consumed, shutdown>>
    BY <1>8 DEF OnData, StreamRuns, threads, driver
  <2>2. InFlight' = InFlight
    BY <2>1 DEF InFlight
  <2> DEFINE n == taken - InFlight
             c == Len(consumed)
  <2>3. c \in Nat /\ Flows(c, buffer, chunks, n) /\ n \in Nat
    <3>1. n \in Nat
      BY <1>0, InFlightProperties
    <3> QED  BY <2>1, <3>1 DEF ReadInv
  <2>4. (taken - InFlight)' = n /\ Len(consumed)' = c
    BY <2>1, <2>2
  <2> HIDE DEF n, c
  <2>5. Flows(c, buffer', chunks', n)
    BY <1>1, <2>1, <2>3, FlowsData
  <2>6. Flows(Len(consumed), buffer, chunks, taken - InFlight)'
    BY <2>4, <2>5
  <2> QED  BY <2>1, <2>6 DEF ReadInv
<1>9. CASE Consume
  <2>1. /\ ~shutdown /\ buffer # <<>>
        /\ buffer' = Tail(buffer) /\ consumed' = Append(consumed, Head(buffer))
        /\ UNCHANGED <<request, taken, reader, chunks, shutdown>>
    BY <1>9 DEF Consume, StreamRuns, threads, driver, calls, flags
  <2>2. InFlight' = InFlight
    BY <2>1 DEF InFlight
  <2> DEFINE n == taken - InFlight
             c == Len(consumed)
  <2>3. c \in Nat /\ consumed = Bytes(0, c) /\ Flows(c, buffer, chunks, n) /\ n \in Nat /\ n <= taken
    <3>1. n \in Nat /\ n <= taken
      BY <1>0, InFlightProperties
    <3> QED  BY <2>1, <3>1 DEF ReadInv
  <2>4. (taken - InFlight)' = n
    BY <2>1, <2>2
  <2> HIDE DEF n, c
  <2>5. Head(buffer) = c + 1 /\ c + 1 <= n /\ Flows(c + 1, Tail(buffer), chunks, n)
    BY <2>1, <2>3, FlowsConsume
  <2>6. consumed' = Bytes(0, c + 1)
    BY <2>1, <2>3, <2>5, BytesAppend
  <2>7. Len(consumed') = c + 1
    <3>1. c + 1 \in Nat
      BY <2>3
    <3> QED  BY <2>6, <3>1, BytesFromZero
  <2>8. Flows(Len(consumed), buffer, chunks, taken - InFlight)'
    BY <2>1, <2>4, <2>5, <2>7
  <2>9. c + 1 \in Nat /\ c + 1 <= taken
    BY <1>1, <2>3, <2>5
  <2> QED  BY <2>1, <2>6, <2>7, <2>8, <2>9 DEF ReadInv
<1>10. CASE \/ Arrive \/ CompleteWrite \/ CompleteWatch \/ RemovedElsewhere
            \/ Watcher \/ Writer \/ OnReadError \/ OnWritten \/ OnWriteError
            \/ Read \/ Write \/ Destroy \/ Shutdown \/ UNCHANGED vars
  BY <1>0, <1>10, ReadQuietSteps, ReadQuietStep
<1> QED  BY <1>3, <1>4, <1>5, <1>6, <1>7, <1>8, <1>9, <1>10 DEF Next, Driver, Reader, Callback

LEMMA ReadInvariant == Spec => []ReadInv
<1>1. Init => ReadInv
  <2> SUFFICES ASSUME Init PROVE ReadInv
    OBVIOUS
  <2>1. /\ consumed = <<>> /\ buffer = <<>> /\ chunks = <<>> /\ taken = 0
        /\ reader = "check" /\ request["read"] = NoRequest
    BY DEF Init, Thread
  <2>2. Len(<<>>) = 0 /\ Bytes(0, 0) = <<>> /\ InFlight = 0
    BY <2>1, EmptySeq, BytesNone DEF InFlight, NoRequest
  <2>3. taken - InFlight = 0
    BY <2>1, <2>2
  <2> QED  BY <2>1, <2>2, <2>3, FlowsStart DEF ReadInv
<1>2. Core /\ Core' /\ ReadInv /\ [Next]_vars => ReadInv'
  BY ReadStep DEF Core
<1> QED  BY <1>1, <1>2, CoreInvariant, PTL DEF Spec

-----------------------------------------------------------------------------
(* Reading is a byte pipe.                                                 *)

\* A step has the reads take bytes, or the program consume one, or neither.
LEMMA ReadEffects ==
  ASSUME Core, ReadInv, [Next]_vars
  PROVE  \/ taken' > taken /\ UNCHANGED consumed
         \/ consumed' = Append(consumed, Head(buffer)) /\ buffer # <<>> /\ ~shutdown /\ UNCHANGED taken
         \/ UNCHANGED <<taken, consumed>>
<1>0. Typed /\ ShutdownInv /\ taken \in Nat /\ Share \in Nat
  BY ShareProperties DEF Core, Typed
<1>1. CASE CompleteRead
  BY <1>0, <1>1 DEF CompleteRead, readable
<1>2. CASE ReaderIssue
  BY <1>0, <1>2 DEF ReaderIssue, readerUnchanged, readable
<1>3. CASE ReaderCheck \/ ReaderGate \/ ReaderIssueFails \/ ReaderIssuePended
           \/ ReaderGetsData \/ ReaderGetsError
  BY <1>3 DEF ReaderCheck, ReaderGate, ReaderIssueFails, ReaderIssuePended, ReaderGetsData,
     ReaderGetsError, readerUnchanged, driver, readable
<1>4. CASE OnData
  BY <1>4 DEF OnData, threads, driver
<1>5. CASE Consume
  BY <1>5 DEF Consume, StreamRuns, threads, driver
<1>6. CASE \/ Arrive \/ CompleteWrite \/ CompleteWatch \/ RemovedElsewhere
           \/ Watcher \/ Writer \/ OnReadError \/ OnWritten \/ OnWriteError
           \/ Read \/ Write \/ Destroy \/ Shutdown \/ UNCHANGED vars
  BY <1>0, <1>6, ReadQuietSteps DEF ReadQuiet
<1> QED  BY <1>1, <1>2, <1>3, <1>4, <1>5, <1>6 DEF Next, Driver, Reader, Callback

LEMMA ReadsStep ==
  Core /\ Core' /\ ReadInv /\ ReadInv' /\ [Next]_vars => [Reads!Next]_(Reads!vars)
<1> SUFFICES ASSUME Core, Core', ReadInv, ReadInv', [Next]_vars PROVE [Reads!Next]_(Reads!vars)
  OBVIOUS
<1> DEFINE a == Len(consumed)
           b == Len(consumed')
<1>1. /\ a \in Nat /\ consumed = Bytes(0, a) /\ a <= taken
      /\ b \in Nat /\ consumed' = Bytes(0, b) /\ b <= taken'
  BY DEF ReadInv
<1>2. taken \in Nat /\ taken' \in Nat /\ taken' <= MaxBytes
  BY Sizes DEF Core, Typed
<1>3. CASE taken' > taken /\ UNCHANGED consumed
  <2> HIDE DEF a, b
  <2>1. Reads!Grows(Bytes(0, taken), Bytes(0, taken')) /\ Len(Bytes(0, taken')) = taken'
    <3>1. taken < taken'
      BY <1>2, <1>3
    <3> QED  BY <1>2, <3>1, BytesGrow DEF Reads!Grows
  <2>2. taken' - a <= MaxBytes
    <3>1. \A t, m \in Nat : t <= MaxBytes => t - m <= MaxBytes
      BY Sizes
    <3>2. a \in Nat
      BY <1>1
    <3> QED  BY <1>2, <3>1, <3>2
  <2>3. Reads!Send
    BY <1>3, <2>1, <2>2 DEF Reads!Send, a
  <2> QED  BY <2>3 DEF Reads!Next
<1>4. CASE consumed' = Append(consumed, Head(buffer)) /\ buffer # <<>> /\ ~shutdown /\ UNCHANGED taken
  <2>1. b = a + 1
    <3>1. Head(buffer) = a + 1
      <4> DEFINE n == taken - InFlight
      <4>1. n \in Nat /\ Flows(a, buffer, chunks, n)
        BY <1>4, InFlightProperties DEF Core, ReadInv
      <4> HIDE DEF a, n
      <4> QED  BY <1>1, <1>4, <4>1, FlowsConsume
    <3> HIDE DEF a
    <3>2. consumed' = Bytes(0, a + 1)
      BY <1>1, <1>4, <3>1, BytesAppend
    <3>3. a + 1 \in Nat
      BY <1>1
    <3> QED  BY <3>2, <3>3, BytesFromZero
  <2> HIDE DEF a, b
  <2>2. a < b
    BY <1>1, <2>1
  <2>3. Reads!Grows(consumed, consumed') /\ Len(consumed') = b
    BY <1>1, <2>2, BytesGrow DEF Reads!Grows
  <2>4. Len(Bytes(0, taken)) = taken /\ \A i \in 1..b : consumed'[i] = Bytes(0, taken)[i]
    <3>1. Len(Bytes(0, taken)) = taken /\ \A i \in 1..taken : Bytes(0, taken)[i] = i
      BY <1>2, BytesFromZero
    <3>2. \A i \in 1..b : Bytes(0, b)[i] = i
      BY <1>1, BytesFromZero
    <3> QED  BY <1>1, <1>2, <1>4, <3>1, <3>2
  <2>5. Reads!Deliver
    BY <1>1, <1>4, <2>3, <2>4 DEF Reads!Deliver
  <2> QED  BY <2>5 DEF Reads!Next
<1>5. CASE UNCHANGED <<taken, consumed>>
  BY <1>5 DEF Reads!vars
<1> QED  BY <1>3, <1>4, <1>5, ReadEffects

\* The program reads the bytes the driver handed out once each and in order,
\* for every size of buffer and high-water mark: the reader thread, its queue
\* of data callbacks, pause and resume, and the shutdown's CancelIoEx
\* implement BytePipe.
THEOREM ReadsAreABytePipe == Spec => ReadsImplementPipe
<1>1. Init => Reads!Init
  <2>1. Bytes(0, 0) = <<>>
    BY BytesNone
  <2> QED  BY <2>1 DEF Init, Reads!Init
<1> QED  BY <1>1, ReadsStep, CoreInvariant, ReadInvariant, PTL
         DEF Spec, ReadsImplementPipe, Reads!SafeSpec

-----------------------------------------------------------------------------
(* What still uses the handle when it is closed.                           *)

\* Once the handle is closed, neither the reader nor the watcher is there to
\* use it: VirtualPort.destroy ends the stream before the handle, and close
\* stops the watcher first, "it uses the handle" (port.rs:195).
ClosedAlone == handle = "closed" => reader = "exited" /\ watcher = "exited"

\* The JavaScript thread past each of the two joins, and what it left there;
\* the first may be long over when the second begins, an error having
\* destroyed the stream.
JoinInv ==
  /\ js = "loop" /\ shutdown => reader = "exited"
  /\ js \notin {"loop", "cancelRead", "joinReader"} => reader = "exited"
  /\ js \in {"close", "remove", "done"} => watcher = "exited"
  /\ handle = "closed" => js \in {"remove", "done"}

\* A thread that has exited stays so.
LEMMA ExitIsFinal ==
  ASSUME [Next]_vars
  PROVE  /\ reader = "exited" => reader' = "exited"
         /\ watcher = "exited" => watcher' = "exited"
<1>1. CASE Arrive \/ Driver
  BY <1>1 DEF Arrive, Driver, CompleteRead, CompleteWrite, CompleteWatch, RemovedElsewhere
<1>2. CASE Reader
  BY <1>2 DEF Reader, ReaderCheck, ReaderGate, ReaderIssue, ReaderIssueFails,
     ReaderIssuePended, ReaderGetsData, ReaderGetsError, readerUnchanged
<1>3. CASE Watcher
  BY <1>3 DEF Watcher, WatcherCheck, WatcherIssue, WatcherIssueFails, WatcherWoken, watcherUnchanged
<1>4. CASE Writer
  BY <1>4 DEF Writer, WriterIssue, WriterIssueFails, WriterAstray, WriterWoken, writerUnchanged
<1>5. CASE Callback \/ Read \/ Consume \/ Write \/ Destroy
  BY <1>5 DEF Callback, OnData, OnReadError, OnWritten, OnWriteError, Read, Consume, Write,
     Destroy, threads
<1>6. CASE Shutdown
  BY <1>6 DEF Shutdown, CancelRead, JoinReader, StopWatcher, CancelWatch, JoinWatcher, Close,
     Remove, closing
<1>7. CASE UNCHANGED vars
  BY <1>7 DEF vars
<1> QED  BY <1>1, <1>2, <1>3, <1>4, <1>5, <1>6, <1>7 DEF Next

LEMMA JoinStep == Core /\ JoinInv /\ [Next]_vars => JoinInv'
<1> SUFFICES ASSUME Core, JoinInv, [Next]_vars PROVE JoinInv'
  OBVIOUS
<1>0. /\ ShutdownInv
      /\ reader = "exited" => reader' = "exited"
      /\ watcher = "exited" => watcher' = "exited"
  BY ExitIsFinal DEF Core
<1>1. ASSUME UNCHANGED <<js, shutdown, handle>> PROVE JoinInv'
  BY <1>0, <1>1 DEF JoinInv
<1>2. ASSUME js = "loop", js' = "cancelRead", UNCHANGED handle PROVE JoinInv'
  BY <1>2 DEF JoinInv
<1>3. CASE Arrive \/ Driver
  BY <1>1, <1>3 DEF Arrive, Driver, CompleteRead, CompleteWrite, CompleteWatch, RemovedElsewhere, flags
<1>4. CASE Reader
  BY <1>1, <1>4 DEF Reader, ReaderCheck, ReaderGate, ReaderIssue, ReaderIssueFails,
     ReaderIssuePended, ReaderGetsData, ReaderGetsError, readerUnchanged, flags
<1>5. CASE Watcher
  BY <1>1, <1>5 DEF Watcher, WatcherCheck, WatcherIssue, WatcherIssueFails, WatcherWoken,
     watcherUnchanged, flags
<1>6. CASE Writer
  BY <1>1, <1>6 DEF Writer, WriterIssue, WriterIssueFails, WriterAstray, WriterWoken,
     writerUnchanged, flags
<1>7. CASE OnData \/ OnWritten \/ Read \/ Consume \/ Write
  BY <1>1, <1>7 DEF OnData, OnWritten, Read, Consume, Write, threads, flags
<1>8. CASE OnReadError
  BY <1>2, <1>8 DEF OnReadError, StreamRuns, BeginShutdown, threads
<1>9. CASE OnWriteError
  <2>1. CASE shutdown
    BY <1>1, <1>9, <2>1 DEF OnWriteError, threads
  <2>2. CASE ~shutdown
    <3>1. js = "loop"
      BY <1>0, <1>9, <2>2 DEF OnWriteError, ShutdownInv
    <3> QED  BY <1>2, <1>9, <2>2, <3>1 DEF OnWriteError, BeginShutdown, threads
  <2> QED  BY <2>1, <2>2
<1>10. CASE Destroy
  <2>1. CASE shutdown
    BY <1>0, <1>10, <2>1 DEF Destroy, threads, JoinInv
  <2>2. CASE ~shutdown
    BY <1>2, <1>10, <2>2 DEF Destroy, BeginShutdown, threads
  <2> QED  BY <2>1, <2>2
<1>11. CASE Shutdown
  <2>1. CASE CancelRead
    BY <1>0, <2>1 DEF CancelRead, JoinInv
  <2>2. CASE JoinReader
    BY <1>0, <2>2 DEF JoinReader, JoinInv
  <2>3. CASE StopWatcher
    BY <1>0, <2>3 DEF StopWatcher, JoinInv
  <2>4. CASE CancelWatch
    BY <1>0, <2>4 DEF CancelWatch, JoinInv
  <2>5. CASE JoinWatcher
    BY <1>0, <2>5 DEF JoinWatcher, Joined, JoinInv
  <2>6. CASE Close
    BY <1>0, <2>6 DEF Close, JoinInv
  <2>7. CASE Remove
    BY <1>0, <2>7 DEF Remove, JoinInv
  <2> QED  BY <1>11, <2>1, <2>2, <2>3, <2>4, <2>5, <2>6, <2>7 DEF Shutdown
<1>12. CASE UNCHANGED vars
  BY <1>1, <1>12 DEF vars, flags
<1> QED  BY <1>3, <1>4, <1>5, <1>6, <1>7, <1>8, <1>9, <1>10, <1>11, <1>12 DEF Next, Callback

\* The handle is closed only after both threads have left, whichever way the
\* stream came down and at whatever point of their loops they were told; only a
\* writer thread, which nobody joins, may use it afterwards.
THEOREM ThreadsLeaveFirst == Spec => []ClosedAlone
<1>1. Init => JoinInv
  BY DEF Init, JoinInv
<1>2. JoinInv => ClosedAlone
  BY DEF JoinInv, ClosedAlone
<1> QED  BY <1>1, <1>2, JoinStep, CoreInvariant, PTL DEF Spec

=============================================================================
