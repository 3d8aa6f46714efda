-------------------------- MODULE CommEventsProofs --------------------------
(***************************************************************************)
(* Proofs about CommEvents for any finite set of threads and any requests, *)
(* events and masks: its type invariant, that no wait outlives its mask    *)
(* and that no change of a line is lost or raised twice.                   *)
(***************************************************************************)
EXTENDS CommEvents, FifoOpsProofs, FiniteSetTheorems

-----------------------------------------------------------------------------
(* Queues without repetition.                                              *)

\* What a queue's range holds, in terms of its indices.
LEMMA RangeIndices ==
  ASSUME NEW S, NEW s \in Seq(S)
  PROVE  \A x : x \in Range(s) <=> \E i \in 1..Len(s) : s[i] = x
<1>1. DOMAIN s = 1..Len(s)
  BY LenProperties
<1> QED  BY <1>1 DEF Range

\* And its injectivity.
LEMMA InjectiveSeq ==
  ASSUME NEW S, NEW s \in Seq(S)
  PROVE  IsInjective(s) <=> \A i, j \in 1..Len(s) : s[i] = s[j] => i = j
<1>1. DOMAIN s = 1..Len(s)
  BY LenProperties
<1> QED  BY <1>1 DEF IsInjective

\* Removing an element leaves all others, once each.
LEMMA RemoveKeepsOthers ==
  ASSUME NEW S, NEW s \in Seq(S), IsInjective(s), NEW i \in 1..Len(s)
  PROVE  /\ RemoveAt(s, i) \in Seq(S)
         /\ IsInjective(RemoveAt(s, i))
         /\ Range(RemoveAt(s, i)) = Range(s) \ {s[i]}
<1> DEFINE t == RemoveAt(s, i)
<1>1. /\ t \in Seq(S) /\ Len(t) = Len(s) - 1 /\ Len(s) \in Nat
      /\ \A k \in 1..Len(t) : t[k] = IF k < i THEN s[k] ELSE s[k + 1]
  BY RemoveProperties, LenProperties DEF RemoveAt
<1> HIDE DEF t
<1>2. \A j, k \in 1..Len(s) : s[j] = s[k] => j = k
  BY InjectiveSeq
<1>3. IsInjective(t)
  <2> SUFFICES ASSUME NEW j \in 1..Len(t), NEW k \in 1..Len(t), t[j] = t[k] PROVE j = k
    BY <1>1, InjectiveSeq
  <2>1. j \in 1..Len(s) /\ j + 1 \in 1..Len(s) /\ k \in 1..Len(s) /\ k + 1 \in 1..Len(s)
    BY <1>1
  <2> QED  BY <1>1, <1>2, <2>1
<1>4. ASSUME NEW k \in 1..Len(t) PROVE t[k] \in Range(s) \ {s[i]}
  <2>1. k \in 1..Len(s) /\ k + 1 \in 1..Len(s)
    BY <1>1
  <2> QED  BY <1>1, <1>2, <2>1, RangeIndices
<1>5. ASSUME NEW j \in 1..Len(s), j # i PROVE s[j] \in Range(t)
  <2>1. CASE j < i
    <3>1. j \in 1..Len(t) /\ t[j] = s[j]
      BY <1>1, <2>1
    <3> QED  BY <1>1, <3>1, RangeIndices
  <2>2. CASE j > i
    <3>1. j - 1 \in 1..Len(t) /\ t[j - 1] = s[j]
      BY <1>1, <2>2
    <3> QED  BY <1>1, <3>1, RangeIndices
  <2> QED  BY <1>5, <2>1, <2>2
<1>6. Range(t) = Range(s) \ {s[i]}
  BY <1>1, <1>4, <1>5, RangeIndices
<1> QED  BY <1>1, <1>3, <1>6 DEF t

\* Taking the oldest leaves all others, once each.
LEMMA TailKeepsOthers ==
  ASSUME NEW S, NEW s \in Seq(S), IsInjective(s), s # <<>>
  PROVE  /\ Head(s) \in S /\ Head(s) \in Range(s)
         /\ Tail(s) \in Seq(S)
         /\ IsInjective(Tail(s))
         /\ Range(Tail(s)) = Range(s) \ {Head(s)}
<1> DEFINE t == Tail(s)
<1>1. /\ Head(s) = s[1] /\ t \in Seq(S) /\ Len(t) = Len(s) - 1
      /\ \A k \in 1..Len(t) : t[k] = s[k + 1]
  BY HeadTailProperties
<1>2. Len(s) \in Nat \ {0} /\ 1 \in 1..Len(s)
  BY EmptySeq, LenProperties
<1> HIDE DEF t
<1>3. \A j, k \in 1..Len(s) : s[j] = s[k] => j = k
  BY InjectiveSeq
<1>4. IsInjective(t)
  <2> SUFFICES ASSUME NEW j \in 1..Len(t), NEW k \in 1..Len(t), t[j] = t[k] PROVE j = k
    BY <1>1, InjectiveSeq
  <2>1. j + 1 \in 1..Len(s) /\ k + 1 \in 1..Len(s)
    BY <1>1, <1>2
  <2> QED  BY <1>1, <1>3, <2>1
<1>5. /\ \A x : x \in Range(t) <=> \E k \in 1..Len(t) : t[k] = x
      /\ \A x : x \in Range(s) <=> \E k \in 1..Len(s) : s[k] = x
  BY <1>1, RangeIndices
<1>6. ASSUME NEW k \in 1..Len(t) PROVE t[k] \in Range(s) \ {s[1]}
  <2>1. k + 1 \in 1..Len(s) /\ k + 1 # 1
    BY <1>1, <1>2
  <2> QED  BY <1>1, <1>2, <1>3, <1>5, <2>1
<1>7. ASSUME NEW j \in 1..Len(s), j # 1 PROVE s[j] \in Range(t)
  <2>1. j - 1 \in 1..Len(t) /\ t[j - 1] = s[j]
    BY <1>1, <1>2, <1>7
  <2> QED  BY <1>5, <2>1
<1>8. Range(t) = Range(s) \ {s[1]}
  BY <1>5, <1>6, <1>7
<1>9. s[1] \in S /\ s[1] \in Range(s)
  BY <1>2, <1>5, ElementOfSeq
<1> QED  BY <1>1, <1>4, <1>8, <1>9 DEF t

\* A new request is queued once.
LEMMA AppendAdds ==
  ASSUME NEW S, NEW s \in Seq(S), IsInjective(s), NEW e \in S, e \notin Range(s)
  PROVE  /\ Append(s, e) \in Seq(S)
         /\ IsInjective(Append(s, e))
         /\ Range(Append(s, e)) = Range(s) \union {e}
<1> DEFINE t == Append(s, e)
<1>1. /\ t \in Seq(S) /\ Len(t) = Len(s) + 1 /\ Len(s) \in Nat
      /\ \A k \in 1..Len(s) : t[k] = s[k]
      /\ t[Len(s) + 1] = e
  BY AppendProperties, LenProperties
<1> HIDE DEF t
<1>2. \A j, k \in 1..Len(s) : s[j] = s[k] => j = k
  BY InjectiveSeq
<1>3. /\ \A x : x \in Range(t) <=> \E k \in 1..Len(t) : t[k] = x
      /\ \A x : x \in Range(s) <=> \E k \in 1..Len(s) : s[k] = x
  BY <1>1, RangeIndices
<1>4. \A k \in 1..Len(t) : k \in 1..Len(s) \/ k = Len(s) + 1
  BY <1>1
<1>5. IsInjective(t)
  <2> SUFFICES ASSUME NEW j \in 1..Len(t), NEW k \in 1..Len(t), t[j] = t[k] PROVE j = k
    BY <1>1, InjectiveSeq
  <2>1. \A n \in 1..Len(s) : s[n] # e
    BY <1>3
  <2> QED  BY <1>1, <1>2, <1>4, <2>1
<1>6. Len(s) + 1 \in 1..Len(t) /\ \A k \in 1..Len(s) : k \in 1..Len(t)
  BY <1>1
<1>7. Range(t) = Range(s) \union {e}
  BY <1>1, <1>3, <1>4, <1>6
<1> QED  BY <1>1, <1>5, <1>7 DEF t

-----------------------------------------------------------------------------
(* The types.                                                              *)

USE MasksAssumption, DataEventAssumption, ThreadAssumption

\* Requests that are answered are done and have their result; the others are
\* untouched.
LEMMA AnsweredWaits ==
  ASSUME TypeOK, NEW W, NEW events \in SUBSET Event, wait' = Answered(W, events)
  PROVE  /\ wait' \in [Wait -> WaitState]
         /\ \A w \in Wait : w \in W => wait'[w].at = "done" /\ wait'[w].result = events
         /\ \A w \in Wait : w \notin W => wait'[w] = wait[w]
<1>1. [Unused EXCEPT !.at = "done", !.result = events] \in WaitState
  BY DEF Unused, WaitState
<1>2. /\ [Unused EXCEPT !.at = "done", !.result = events].at = "done"
      /\ [Unused EXCEPT !.at = "done", !.result = events].result = events
  BY DEF Unused
<1>3. wait \in [Wait -> WaitState]
  BY DEF TypeOK
<1> QED  BY <1>1, <1>2, <1>3 DEF Answered

\* An idle thread, and the fields of any.
LEMMA ThreadFields ==
  /\ Idle \in ThreadState
  /\ Idle.at = "idle" /\ Idle.old = {} /\ Idle.new = {} /\ Idle.events = {}
  /\ \A s \in ThreadState :
       /\ s.at \in {"idle", "purge", "check", "complete"}
       /\ s.old \in SUBSET Line /\ s.new \in SUBSET Line /\ s.events \in SUBSET Event
BY DEF Idle, ThreadState

\* What a thread becomes in each step that does not end its handler.
LEMMA ThreadSteps ==
  /\ [Idle EXCEPT !.at = "purge"] \in ThreadState
  /\ \A e \in DataEvent :
       LET s == [Idle EXCEPT !.at = "check", !.events = {e}]
       IN  s \in ThreadState /\ s.at = "check" /\ s.old = {} /\ s.new = {}
  /\ \A S, T \in SUBSET Line :
       LET s == [Idle EXCEPT !.at = "check", !.old = S, !.new = T]
       IN  s \in ThreadState /\ s.at = "check" /\ s.old = S /\ s.new = T
  /\ \A E \in SUBSET Event :
       LET s == [at |-> "complete", old |-> {}, new |-> {}, events |-> E]
       IN  s \in ThreadState /\ s.at = "complete" /\ s.events = E
BY DEF Idle, ThreadState, Event

\* A handler that raises an event goes on to look up the mask.
LEMMA BeginsChecking ==
  ASSUME TypeOK, NEW t \in Thread, RaiseData(t) \/ SetSignals(t)
  PROVE  \E s \in ThreadState : thread' = [thread EXCEPT ![t] = s] /\ s.at = "check"
<1>1. CASE RaiseData(t)
  <2>1. PICK e \in DataEvent :
          thread' = [thread EXCEPT ![t] = [Idle EXCEPT !.at = "check", !.events = {e}]]
    BY <1>1 DEF RaiseData
  <2> DEFINE s == [Idle EXCEPT !.at = "check", !.events = {e}]
  <2>2. s \in ThreadState /\ s.at = "check"
    BY ThreadSteps
  <2> HIDE DEF s
  <2>3. thread' = [thread EXCEPT ![t] = s]
    BY <2>1 DEF s
  <2> QED  BY <2>2, <2>3
<1>2. CASE SetSignals(t)
  <2>1. PICK S \in SUBSET Line :
          thread' = [thread EXCEPT ![t] =
            [Idle EXCEPT !.at = "check", !.old = asserted, !.new = S]]
    BY <1>2 DEF SetSignals
  <2> DEFINE s == [Idle EXCEPT !.at = "check", !.old = asserted, !.new = S]
  <2>2. s \in ThreadState /\ s.at = "check"
    <3>1. asserted \in SUBSET Line
      BY DEF TypeOK
    <3> QED  BY <3>1 DEF ThreadState, Idle
  <2> HIDE DEF s
  <2>3. thread' = [thread EXCEPT ![t] = s]
    BY <2>1 DEF s
  <2> QED  BY <2>2, <2>3
<1> QED  BY <1>1, <1>2

\* Threads keep their types when one of them goes on.
LEMMA OneThread ==
  ASSUME TypeOK, NEW t \in Thread, NEW s \in ThreadState,
         thread' = [thread EXCEPT ![t] = s],
         s.at \in {"idle", "purge"} => s = [Idle EXCEPT !.at = s.at]
  PROVE  /\ thread' \in [Thread -> ThreadState]
         /\ \A u \in Thread : thread'[u].at \in {"idle", "purge"}
              => thread'[u] = [Idle EXCEPT !.at = thread'[u].at]
         /\ thread'[t] = s /\ \A u \in Thread \ {t} : thread'[u] = thread[u]
BY DEF TypeOK

LEMMA EventTypes == \A S \in SUBSET Line : UNION {Crossed[l] : l \in S} \in SUBSET Event
BY DEF Line, Crossed, Event

LEMMA IdleSame == Idle = [Idle EXCEPT !.at = Idle.at]
BY DEF Idle

LEMMA InitType == Init => TypeOK
<1> SUFFICES ASSUME Init PROVE TypeOK
  OBVIOUS
<1>1. /\ queue \in Seq(Wait)
      /\ IsInjective(queue) /\ Queued = {}
  BY EmptySeq DEF Init, IsInjective, Queued, Range
<1>2. Unused \in WaitState /\ Unused.at = "idle"
  BY DEF Unused, WaitState
<1>3. wait \in [Wait -> WaitState] /\ \A w \in Wait : wait[w].at = "idle"
  BY <1>2 DEF Init
<1>4. /\ thread \in [Thread -> ThreadState]
      /\ \A t \in Thread : thread[t] = Idle
  BY ThreadFields DEF Init
<1> QED  BY <1>1, <1>3, <1>4, IdleSame, ThreadFields DEF Init, TypeOK

\* A queue and its requests keep their types when requests leave the one and
\* are answered.
LEMMA LeavingType ==
  ASSUME TypeOK, NEW W, NEW events \in SUBSET Event, wait' = Answered(W, events),
         queue' \in Seq(Wait), IsInjective(queue'), Queued' = Queued \ W
  PROVE  /\ wait' \in [Wait -> WaitState]
         /\ \A w \in Wait : wait'[w].at = "queued" <=> w \in Queued'
<1>1. \A w \in Wait : wait[w].at = "queued" <=> w \in Queued
  BY DEF TypeOK
<1> QED  BY <1>1, AnsweredWaits

LEMMA StepType ==
  ASSUME TypeOK, [Next]_vars
  PROVE  TypeOK'
<1>0. /\ queue \in Seq(Wait) /\ IsInjective(queue)
      /\ wait \in [Wait -> WaitState] /\ thread \in [Thread -> ThreadState]
  BY DEF TypeOK
<1>1. ASSUME NEW t \in Thread, StoreMask(t) PROVE TypeOK'
  <2>1. WaitMask' \subseteq Event
    BY <1>1 DEF StoreMask
  <2>2. thread' = [thread EXCEPT ![t] = [Idle EXCEPT !.at = "purge"]]
    BY <1>1 DEF StoreMask
  <2>3. [Idle EXCEPT !.at = "purge"].at = "purge"
    BY DEF Idle
  <2>4. /\ thread' \in [Thread -> ThreadState]
        /\ \A u \in Thread : thread'[u].at \in {"idle", "purge"}
             => thread'[u] = [Idle EXCEPT !.at = thread'[u].at]
    BY <2>2, <2>3, ThreadSteps, OneThread
  <2> QED  BY <1>1, <2>1, <2>4 DEF StoreMask, TypeOK, lines, waits, Queued
<1>2. ASSUME NEW t \in Thread, RaiseData(t) PROVE TypeOK'
  <2>1. PICK e \in DataEvent :
          thread' = [thread EXCEPT ![t] = [Idle EXCEPT !.at = "check", !.events = {e}]]
    BY <1>2 DEF RaiseData
  <2>2. /\ thread' \in [Thread -> ThreadState]
        /\ \A u \in Thread : thread'[u].at \in {"idle", "purge"}
             => thread'[u] = [Idle EXCEPT !.at = thread'[u].at]
    BY <2>1, ThreadSteps, OneThread
  <2> QED  BY <1>2, <2>2 DEF RaiseData, TypeOK, lines, waits, Queued
<1>3. ASSUME NEW t \in Thread, SetSignals(t) PROVE TypeOK'
  <2>1. PICK S \in SUBSET Line :
          /\ asserted' = S
          /\ thread' = [thread EXCEPT ![t] =
               [Idle EXCEPT !.at = "check", !.old = asserted, !.new = S]]
    BY <1>3 DEF SetSignals
  <2>2. asserted \in SUBSET Line
    BY DEF TypeOK
  <2>3. /\ thread' \in [Thread -> ThreadState]
        /\ \A u \in Thread : thread'[u].at \in {"idle", "purge"}
             => thread'[u] = [Idle EXCEPT !.at = thread'[u].at]
    BY <2>1, <2>2, ThreadSteps, OneThread
  <2> QED  BY <1>3, <2>1, <2>3 DEF SetSignals, TypeOK, waits, Queued
<1>a. ASSUME NEW t \in Thread, thread' = [thread EXCEPT ![t] = Idle]
      PROVE  /\ thread' \in [Thread -> ThreadState]
             /\ \A u \in Thread : thread'[u].at \in {"idle", "purge"}
                  => thread'[u] = [Idle EXCEPT !.at = thread'[u].at]
  BY <1>a, ThreadFields, IdleSame, OneThread
<1>4. ASSUME NEW t \in Thread, PurgeWaits(t) PROVE TypeOK'
  <2>1. queue' \in Seq(Wait) /\ IsInjective(queue') /\ Queued' = {}
    BY <1>4, EmptySeq DEF PurgeWaits, Kept, IsInjective, Queued, Range
  <2>2. wait' = Answered(Queued, {})
    <3>1. Range(Kept) = {}
      BY EmptySeq DEF Kept, Range
    <3>2. Queued \ Range(Kept) = Queued
      BY <3>1
    <3> QED  BY <1>4, <3>2 DEF PurgeWaits
  <2>3. Queued' = Queued \ Queued
    BY <2>1
  <2>4. /\ wait' \in [Wait -> WaitState]
        /\ \A w \in Wait : wait'[w].at = "queued" <=> w \in Queued'
    BY <2>1, <2>2, <2>3, LeavingType
  <2>5. /\ thread' \in [Thread -> ThreadState]
        /\ \A u \in Thread : thread'[u].at \in {"idle", "purge"}
             => thread'[u] = [Idle EXCEPT !.at = thread'[u].at]
    BY <1>4, <1>a DEF PurgeWaits
  <2> QED  BY <1>4, <2>1, <2>4, <2>5 DEF PurgeWaits, TypeOK, lines
<1>5. ASSUME NEW t \in Thread, CheckMask(t) PROVE TypeOK'
  <2>1. PICK s \in {Idle, [at |-> "complete", old |-> {}, new |-> {}, events |-> Matched(t)]} :
          thread' = [thread EXCEPT ![t] = s]
    BY <1>5 DEF CheckMask
  <2>2. Matched(t) \in SUBSET Event
    BY DEF Matched, TypeOK
  <2>3. /\ thread' \in [Thread -> ThreadState]
        /\ \A u \in Thread : thread'[u].at \in {"idle", "purge"}
             => thread'[u] = [Idle EXCEPT !.at = thread'[u].at]
    <3>1. CASE s = Idle
      BY <1>a, <2>1, <3>1
    <3>2. CASE s # Idle
      <4>1. s \in ThreadState /\ s.at = "complete"
        BY <2>2, <3>2 DEF ThreadState
      <4> QED  BY <2>1, <4>1, OneThread
    <3> QED  BY <3>1, <3>2
  <2>4. signalled' \subseteq Line
    <3>1. thread[t].old \in SUBSET Line /\ thread[t].new \in SUBSET Line
      BY <1>0, ThreadFields
    <3> QED  BY <1>5, <3>1 DEF CheckMask, Differ, Changed, TypeOK
  <2> QED  BY <1>5, <2>3, <2>4 DEF CheckMask, TypeOK, waits, Queued
<1>6. ASSUME NEW t \in Thread, CompleteWait(t) PROVE TypeOK'
  <2>1. /\ queue' = Tail(queue) /\ queue # <<>>
        /\ wait' = Answered({Head(queue)}, thread[t].events)
    BY <1>6 DEF CompleteWait, RestRetrieved
  <2>2. /\ queue' \in Seq(Wait) /\ IsInjective(queue')
        /\ Queued' = Queued \ {Head(queue)}
    BY <1>0, <2>1, TailKeepsOthers DEF Queued
  <2>3. thread[t].events \in SUBSET Event
    BY <1>0, ThreadFields
  <2>4. /\ wait' \in [Wait -> WaitState]
        /\ \A w \in Wait : wait'[w].at = "queued" <=> w \in Queued'
    BY <2>1, <2>2, <2>3, LeavingType
  <2> QED  BY <1>6, <2>2, <2>4 DEF CompleteWait, TypeOK, lines
<1>7. ASSUME NEW t \in Thread, CompleteEnd(t) PROVE TypeOK'
  BY <1>7, <1>a DEF CompleteEnd, TypeOK, lines, waits, Queued
<1>8. ASSUME NEW w \in Wait, WaitOnMask(w) PROVE TypeOK'
  <2>1. wait[w].at = "idle" /\ queue' = Append(queue, w)
    BY <1>8 DEF WaitOnMask
  <2>2. w \notin Queued
    BY <2>1 DEF TypeOK
  <2>3. /\ queue' \in Seq(Wait) /\ IsInjective(queue')
        /\ Queued' = Queued \union {w}
    BY <1>0, <2>1, <2>2, AppendAdds DEF Queued
  <2>5. [at |-> "queued", mask |-> WaitMask, result |-> {}] \in WaitState
    BY DEF WaitState, TypeOK
  <2>6. /\ wait' \in [Wait -> WaitState]
        /\ wait'[w].at = "queued" /\ \A v \in Wait \ {w} : wait'[v] = wait[v]
    BY <1>0, <1>8, <2>5 DEF WaitOnMask
  <2>7. \A v \in Wait : wait'[v].at = "queued" <=> v \in Queued'
    BY <2>3, <2>6 DEF TypeOK
  <2> QED  BY <1>8, <2>3, <2>6, <2>7 DEF WaitOnMask, TypeOK, lines
<1>9. ASSUME NEW w \in Wait, WaitRefused(w) PROVE TypeOK'
  <2>1. wait[w].at = "idle" /\ wait' = Answered({w}, {}) /\ queue' = queue
    BY <1>9 DEF WaitRefused
  <2>2. Queued' = Queued \ {w}
    BY <2>1 DEF Queued, TypeOK
  <2>3. /\ wait' \in [Wait -> WaitState]
        /\ \A v \in Wait : wait'[v].at = "queued" <=> v \in Queued'
    BY <1>0, <2>1, <2>2, LeavingType
  <2> QED  BY <1>9, <2>3 DEF WaitRefused, TypeOK, lines
<1>10. ASSUME NEW w \in Wait, CancelWait(w) PROVE TypeOK'
  <2>1. PICK i \in 1..Len(queue) : queue[i] = w /\ queue' = RemoveAt(queue, i)
    BY <1>10 DEF CancelWait
  <2>2. queue' \in Seq(Wait) /\ IsInjective(queue') /\ Queued' = Queued \ {w}
    BY <1>0, <2>1, RemoveKeepsOthers DEF Queued
  <2>3. wait' = Answered({w}, {})
    BY <1>10 DEF CancelWait
  <2>4. /\ wait' \in [Wait -> WaitState]
        /\ \A v \in Wait : wait'[v].at = "queued" <=> v \in Queued'
    BY <2>2, <2>3, LeavingType
  <2> QED  BY <1>10, <2>2, <2>4 DEF CancelWait, TypeOK, lines
<1>11. ASSUME NEW w \in Wait, Acknowledge(w) PROVE TypeOK'
  <2>1. Unused \in WaitState /\ Unused.at = "idle"
    BY DEF Unused, WaitState
  <2>2. /\ wait' \in [Wait -> WaitState] /\ wait[w].at = "done"
        /\ wait'[w].at = "idle" /\ \A v \in Wait \ {w} : wait'[v] = wait[v]
    BY <1>0, <1>11, <2>1 DEF Acknowledge
  <2>3. \A v \in Wait : wait'[v].at = "queued" <=> v \in Queued
    BY <2>2 DEF TypeOK
  <2> QED  BY <1>11, <2>2, <2>3 DEF Acknowledge, TypeOK, lines, Queued
<1>12. CASE Restart \/ UNCHANGED vars
  BY <1>12 DEF Restart, TypeOK, vars, lines, Queued
<1> QED
  BY <1>1, <1>2, <1>3, <1>4, <1>5, <1>6, <1>7, <1>8, <1>9, <1>10, <1>11, <1>12 DEF Next, Goes

\* Whatever programs and handlers do, the variables keep their types, and the
\* queue holds each pended wait once and nothing else.
THEOREM TypeCorrect == Spec => []TypeOK
BY InitType, StepType, PTL DEF Spec

-----------------------------------------------------------------------------
(* Waits and masks.                                                        *)

\* In every step but two, a wait that is queued afterwards was so before, under
\* the same mask.
LEMMA QueuedBefore ==
  ASSUME TypeOK, [Next]_vars, \A t \in Thread : ~StoreMask(t), \A w \in Wait : ~WaitOnMask(w)
  PROVE  /\ WaitMask' = WaitMask
         /\ \A w \in Wait : wait'[w].at = "queued" => wait'[w] = wait[w]
<1> DEFINE Same == \A w \in Wait : wait'[w].at = "queued" => wait'[w] = wait[w]
<1>a. ASSUME NEW W, NEW events \in SUBSET Event, wait' = Answered(W, events)
      PROVE  Same
  BY <1>a, AnsweredWaits
<1>1. ASSUME NEW t \in Thread, RaiseData(t) \/ SetSignals(t) \/ CheckMask(t) \/ CompleteEnd(t)
      PROVE  WaitMask' = WaitMask /\ Same
  BY <1>1 DEF RaiseData, SetSignals, CheckMask, CompleteEnd, waits
<1>2. ASSUME NEW t \in Thread, PurgeWaits(t) PROVE WaitMask' = WaitMask /\ Same
  <2>1. WaitMask' = WaitMask /\ wait' = Answered(Queued \ Range(Kept), {})
    BY <1>2 DEF PurgeWaits
  <2> HIDE DEF Same
  <2> QED  BY <1>a, <2>1
<1>3. ASSUME NEW t \in Thread, CompleteWait(t) PROVE WaitMask' = WaitMask /\ Same
  <2>1. WaitMask' = WaitMask /\ wait' = Answered({Head(queue)}, thread[t].events)
    BY <1>3 DEF CompleteWait
  <2>2. thread[t].events \in SUBSET Event
    BY ThreadFields DEF TypeOK
  <2> HIDE DEF Same
  <2> QED  BY <1>a, <2>1, <2>2
<1>4. ASSUME NEW w \in Wait, WaitRefused(w) \/ CancelWait(w) PROVE WaitMask' = WaitMask /\ Same
  <2>1. WaitMask' = WaitMask /\ wait' = Answered({w}, {})
    BY <1>4 DEF WaitRefused, CancelWait
  <2> HIDE DEF Same
  <2> QED  BY <1>a, <2>1
<1>5. ASSUME NEW w \in Wait, Acknowledge(w) PROVE WaitMask' = WaitMask /\ Same
  <2>1. Unused.at = "idle"
    BY DEF Unused
  <2> QED  BY <1>5, <2>1 DEF Acknowledge, TypeOK
<1>6. ASSUME Restart \/ UNCHANGED vars PROVE WaitMask' = WaitMask /\ Same
  BY <1>6 DEF Restart, vars
<1> HIDE DEF Same
<1>7. WaitMask' = WaitMask /\ Same
  BY <1>1, <1>2, <1>3, <1>4, <1>5, <1>6 DEF Next, Goes
<1> QED  BY <1>7 DEF Same

LEMMA StepMatches ==
  ASSUME TypeOK, WaitsMatchMask, [Next]_vars
  PROVE  WaitsMatchMask'
<1>1. ASSUME NEW t \in Thread, StoreMask(t) PROVE WaitsMatchMask'
  <2>1. thread'[t].at = "purge"
    BY <1>1 DEF StoreMask, TypeOK, ThreadState
  <2> QED  BY <2>1 DEF WaitsMatchMask
<1>2. ASSUME NEW t \in Thread, PurgeWaits(t) PROVE WaitsMatchMask'
  <2>1. Queued' = {}
    BY <1>2, EmptySeq DEF PurgeWaits, Kept, Queued, Range
  <2>2. TypeOK'
    BY StepType
  <2>3. \A w \in Wait : wait'[w].at # "queued"
    BY <2>1, <2>2 DEF TypeOK
  <2> QED  BY <2>3 DEF WaitsMatchMask
<1>3. ASSUME NEW w \in Wait, WaitOnMask(w) PROVE WaitsMatchMask'
  <2>1. /\ wait'[w].mask = WaitMask' /\ \A v \in Wait \ {w} : wait'[v] = wait[v]
        /\ WaitMask' = WaitMask /\ thread' = thread
    BY <1>3 DEF WaitOnMask, TypeOK
  <2> QED  BY <2>1 DEF WaitsMatchMask
<1>4. CASE /\ \A t \in Thread : ~StoreMask(t) /\ ~PurgeWaits(t)
           /\ \A w \in Wait : ~WaitOnMask(w)
  <2>1. /\ WaitMask' = WaitMask
        /\ \A w \in Wait : wait'[w].at = "queued" => wait'[w] = wait[w]
    BY <1>4, QueuedBefore
  <2>2. ASSUME NEW t \in Thread, thread[t].at = "purge" PROVE thread'[t] = thread[t]
    <3>1. ASSUME NEW u \in Thread, RaiseData(u) \/ SetSignals(u) \/ CheckMask(u)
                                    \/ CompleteWait(u) \/ CompleteEnd(u)
          PROVE  thread'[t] = thread[t]
      <4>1. t # u
        <5>1. thread[u] = Idle \/ thread[u].at \in {"check", "complete"}
          BY <3>1 DEF RaiseData, SetSignals, CheckMask, CompleteWait, CompleteEnd
        <5> QED  BY <2>2, <5>1, ThreadFields
      <4> QED  BY <3>1, <4>1 DEF RaiseData, SetSignals, CheckMask, CompleteWait, CompleteEnd,
                 TypeOK
    <3>2. ASSUME NEW w \in Wait, WaitRefused(w) \/ CancelWait(w) \/ Acknowledge(w)
          PROVE  thread'[t] = thread[t]
      BY <3>2 DEF WaitRefused, CancelWait, Acknowledge
    <3>3. CASE Restart \/ UNCHANGED vars
      BY <3>3 DEF Restart, vars
    <3> QED  BY <1>4, <3>1, <3>2, <3>3 DEF Next, Goes
  <2> QED  BY <2>1, <2>2 DEF WaitsMatchMask
<1> QED  BY <1>1, <1>2, <1>3, <1>4

\* No wait outlives its mask.
THEOREM NoStaleWaits == Spec => []WaitsMatchMask
<1>1. Init => WaitsMatchMask
  BY DEF Init, WaitsMatchMask, Unused
<1> QED  BY <1>1, InitType, StepType, StepMatches, PTL DEF Spec

-----------------------------------------------------------------------------
(* Changes of the lines.                                                   *)

\* Adding one changes whether a number is odd.
LEMMA Parity == \A n \in Nat : ((n + 1) % 2 = 1 <=> n % 2 # 1) /\ (n + 2) % 2 = n % 2
OBVIOUS

\* What a thread has yet to raise
Owes(s, l) == s.at = "check" /\ l \in Differ(s.old, s.new)

LEMMA PendingOwes ==
  ASSUME NEW l
  PROVE  Pending(l) = {t \in Thread : Owes(thread[t], l)}
BY DEF Pending, Owes

LEMMA PendingFinite ==
  ASSUME NEW l
  PROVE  /\ IsFiniteSet(Pending(l)) /\ Cardinality(Pending(l)) \in Nat
         /\ IsFiniteSet(Pending(l)') /\ Cardinality(Pending(l)') \in Nat
<1>1. Pending(l) \subseteq Thread /\ Pending(l)' \subseteq Thread
  BY DEF Pending
<1> QED  BY <1>1, FS_Subset, FS_CardinalityType

\* Of one line: the invariant's condition, for its states and its debts.
Raised(l) ==
  l \notin asserted <=>
    (Cardinality(Pending(l)) + (IF l \in signalled THEN 1 ELSE 0)) % 2 = 1

\* It survives a step in which nothing of the line changes ...
LEMMA NothingOwed ==
  ASSUME NEW l, Raised(l), Pending(l)' = Pending(l),
         l \in asserted' <=> l \in asserted, l \in signalled' <=> l \in signalled
  PROVE  Raised(l)'
BY DEF Raised

\* ... one in which the line changes and a thread takes on to raise it ...
LEMMA OneMoreOwed ==
  ASSUME NEW l, Raised(l), NEW t, t \notin Pending(l), Pending(l)' = Pending(l) \union {t},
         l \in asserted' <=> l \notin asserted, l \in signalled' <=> l \in signalled
  PROVE  Raised(l)'
<1>1. Cardinality(Pending(l)') = Cardinality(Pending(l)) + 1 /\ Cardinality(Pending(l)) \in Nat
  BY PendingFinite, FS_AddElement
<1> DEFINE n == Cardinality(Pending(l))
<1>2. n \in Nat /\ Cardinality(Pending(l)') = n + 1
  BY <1>1
<1>3. l \notin asserted <=> (n + (IF l \in signalled THEN 1 ELSE 0)) % 2 = 1
  BY DEF Raised
<1> HIDE DEF n
<1>4. l \notin asserted' <=> (n + 1 + (IF l \in signalled' THEN 1 ELSE 0)) % 2 = 1
  <2>1. CASE l \in signalled
    BY <1>2, <1>3, <2>1, Parity
  <2>2. CASE l \notin signalled
    BY <1>2, <1>3, <2>2, Parity
  <2> QED  BY <2>1, <2>2
<1> QED  BY <1>2, <1>4 DEF Raised

\* ... and one in which a thread raises it.
LEMMA OneLessOwed ==
  ASSUME NEW l, Raised(l), NEW t, t \in Pending(l), Pending(l)' = Pending(l) \ {t},
         l \in asserted' <=> l \in asserted, l \in signalled' <=> l \notin signalled
  PROVE  Raised(l)'
<1> DEFINE n == Cardinality(Pending(l)')
<1>1. n \in Nat /\ Cardinality(Pending(l)) = n + 1
  <2>1. t \notin Pending(l)' /\ Pending(l) = Pending(l)' \union {t}
    OBVIOUS
  <2> QED  BY <2>1, PendingFinite, FS_AddElement
<1>2. l \notin asserted <=> (n + 1 + (IF l \in signalled THEN 1 ELSE 0)) % 2 = 1
  BY <1>1 DEF Raised
<1> HIDE DEF n
<1>3. l \notin asserted' <=> (n + (IF l \in signalled' THEN 1 ELSE 0)) % 2 = 1
  <2>1. CASE l \in signalled
    BY <1>1, <1>2, <2>1, Parity
  <2>2. CASE l \notin signalled
    BY <1>1, <1>2, <2>2, Parity
  <2> QED  BY <2>1, <2>2
<1> QED  BY <1>3 DEF Raised, n

\* Pending changes with the one thread that does.
LEMMA PendingAfter ==
  ASSUME TypeOK, NEW l, NEW t \in Thread, NEW s, thread' = [thread EXCEPT ![t] = s]
  PROVE  /\ Owes(s, l) /\ ~Owes(thread[t], l) =>
               t \notin Pending(l) /\ Pending(l)' = Pending(l) \union {t}
         /\ ~Owes(s, l) /\ Owes(thread[t], l) =>
               t \in Pending(l) /\ Pending(l)' = Pending(l) \ {t}
         /\ (Owes(s, l) <=> Owes(thread[t], l)) => Pending(l)' = Pending(l)
<1>1. Pending(l) = {u \in Thread : Owes(thread[u], l)}
  BY PendingOwes
<1>2. Pending(l)' = {u \in Thread : Owes(thread'[u], l)}
  BY DEF Pending, Owes
<1>3. thread'[t] = s /\ \A u \in Thread \ {t} : thread'[u] = thread[u]
  BY DEF TypeOK
<1>4. \A u \in Thread \ {t} : u \in Pending(l)' <=> u \in Pending(l)
  BY <1>1, <1>2, <1>3
<1>5. (t \in Pending(l)' <=> Owes(s, l)) /\ (t \in Pending(l) <=> Owes(thread[t], l))
  BY <1>1, <1>2, <1>3
<1>6. Pending(l) \subseteq Thread /\ Pending(l)' \subseteq Thread
  BY <1>1, <1>2
<1> DEFINE before == Pending(l)
           after == Pending(l)'
<1> HIDE DEF before, after
<1>7. CASE Owes(s, l) /\ ~Owes(thread[t], l)
  <2>1. t \notin before /\ after = before \union {t}
    BY <1>4, <1>5, <1>6, <1>7 DEF before, after
  <2> QED  BY <1>7, <2>1 DEF before, after
<1>8. CASE ~Owes(s, l) /\ Owes(thread[t], l)
  <2>1. t \in before /\ after = before \ {t}
    BY <1>4, <1>5, <1>6, <1>8 DEF before, after
  <2> QED  BY <1>8, <2>1 DEF before, after
<1>9. CASE Owes(s, l) <=> Owes(thread[t], l)
  <2>1. \A u \in Thread : u \in after <=> u \in before
    <3> SUFFICES ASSUME NEW u \in Thread PROVE u \in after <=> u \in before
      OBVIOUS
    <3>1. CASE u = t
      BY <1>5, <1>9, <3>1 DEF before, after
    <3>2. CASE u # t
      BY <1>4, <3>2 DEF before, after
    <3> QED  BY <3>1, <3>2
  <2>2. before \subseteq Thread /\ after \subseteq Thread
    BY <1>6 DEF before, after
  <2>3. after = before
    BY <2>1, <2>2
  <2> QED  BY <1>9, <2>3 DEF before, after
<1> QED  BY <1>7, <1>8, <1>9

LEMMA StepRaised ==
  ASSUME TypeOK, LineChangesAreRaised, [Next]_vars
  PROVE  LineChangesAreRaised'
<1> SUFFICES ASSUME NEW l \in Line PROVE Raised(l)'
  BY DEF LineChangesAreRaised, Raised
<1>0. Raised(l)
  BY DEF LineChangesAreRaised, Raised
<1>a. ~Owes(Idle, l)
  BY DEF Owes, Idle
<1>b. ASSUME lines' = lines, Pending(l)' = Pending(l) PROVE Raised(l)'
  BY <1>0, <1>b, NothingOwed DEF lines
<1>c. ASSUME NEW t \in Thread, NEW s, lines' = lines, thread' = [thread EXCEPT ![t] = s],
             ~Owes(s, l), ~Owes(thread[t], l)
      PROVE  Raised(l)'
  BY <1>b, <1>c, PendingAfter
<1>d. ASSUME lines' = lines, thread' = thread PROVE Raised(l)'
  <2>1. Pending(l)' = Pending(l)
    BY <1>d DEF Pending
  <2> QED  BY <1>b, <1>d, <2>1
<1>1. ASSUME NEW t \in Thread, StoreMask(t) PROVE Raised(l)'
  <2> DEFINE s == [Idle EXCEPT !.at = "purge"]
  <2>1. ~Owes(s, l)
    BY DEF Owes, Idle
  <2>2. /\ lines' = lines /\ thread' = [thread EXCEPT ![t] = s]
        /\ ~Owes(thread[t], l)
    BY <1>1, <1>a DEF StoreMask
  <2> HIDE DEF s
  <2> QED  BY <1>c, <2>1, <2>2
<1>2. ASSUME NEW t \in Thread, RaiseData(t) PROVE Raised(l)'
  <2>1. PICK e \in DataEvent :
          thread' = [thread EXCEPT ![t] = [Idle EXCEPT !.at = "check", !.events = {e}]]
    BY <1>2 DEF RaiseData
  <2> DEFINE s == [Idle EXCEPT !.at = "check", !.events = {e}]
  <2>2. ~Owes(s, l)
    BY DEF Owes, Idle, Differ
  <2>3. /\ lines' = lines /\ thread' = [thread EXCEPT ![t] = s]
        /\ ~Owes(thread[t], l)
    BY <1>2, <1>a, <2>1 DEF RaiseData
  <2> HIDE DEF s
  <2> QED  BY <1>c, <2>2, <2>3
<1>3. ASSUME NEW t \in Thread, SetSignals(t) PROVE Raised(l)'
  <2>1. PICK S \in SUBSET Line :
          /\ asserted' = S
          /\ thread' = [thread EXCEPT ![t] =
               [Idle EXCEPT !.at = "check", !.old = asserted, !.new = S]]
    BY <1>3 DEF SetSignals
  <2> DEFINE s == [Idle EXCEPT !.at = "check", !.old = asserted, !.new = S]
  <2>2. Owes(s, l) <=> (l \in asserted <=> l \notin S)
    BY DEF Owes, Idle, Differ
  <2>3. thread' = [thread EXCEPT ![t] = s] /\ ~Owes(thread[t], l) /\ signalled' = signalled
    BY <1>3, <1>a, <2>1 DEF SetSignals
  <2> HIDE DEF s
  <2>4. CASE Owes(s, l)
    <3>1. t \notin Pending(l) /\ Pending(l)' = Pending(l) \union {t}
      BY <2>3, <2>4, PendingAfter
    <3>2. l \in asserted' <=> l \notin asserted
      BY <2>1, <2>2, <2>4
    <3> QED  BY <1>0, <2>3, <3>1, <3>2, OneMoreOwed
  <2>5. CASE ~Owes(s, l)
    <3>1. Pending(l)' = Pending(l)
      BY <2>3, <2>5, PendingAfter
    <3>2. l \in asserted' <=> l \in asserted
      BY <2>1, <2>2, <2>5
    <3> QED  BY <1>0, <2>3, <3>1, <3>2, NothingOwed
  <2> QED  BY <2>4, <2>5
<1>4. ASSUME NEW t \in Thread, CheckMask(t) PROVE Raised(l)'
  <2>1. PICK s \in {Idle, [at |-> "complete", old |-> {}, new |-> {}, events |-> Matched(t)]} :
          thread' = [thread EXCEPT ![t] = s]
    BY <1>4 DEF CheckMask
  <2>2. ~Owes(s, l)
    BY <1>a DEF Owes
  <2>3. /\ asserted' = asserted /\ thread[t].at = "check"
        /\ signalled' = Differ(signalled, Changed(t))
    BY <1>4 DEF CheckMask
  <2>4. Owes(thread[t], l) <=> l \in Changed(t)
    BY <2>3 DEF Owes, Changed
  <2>5. CASE Owes(thread[t], l)
    <3>1. t \in Pending(l) /\ Pending(l)' = Pending(l) \ {t}
      BY <2>1, <2>2, <2>5, PendingAfter
    <3>2. l \in signalled' <=> l \notin signalled
      BY <2>3, <2>4, <2>5 DEF Differ
    <3> QED  BY <1>0, <2>3, <3>1, <3>2, OneLessOwed
  <2>6. CASE ~Owes(thread[t], l)
    <3>1. Pending(l)' = Pending(l)
      BY <2>1, <2>2, <2>6, PendingAfter
    <3>2. l \in signalled' <=> l \in signalled
      BY <2>3, <2>4, <2>6 DEF Differ
    <3> QED  BY <1>0, <2>3, <3>1, <3>2, NothingOwed
  <2> QED  BY <2>5, <2>6
<1>5. ASSUME NEW t \in Thread, PurgeWaits(t) \/ CompleteEnd(t) PROVE Raised(l)'
  <2>1. /\ lines' = lines /\ thread' = [thread EXCEPT ![t] = Idle]
        /\ thread[t].at \in {"purge", "complete"}
    BY <1>5 DEF PurgeWaits, CompleteEnd
  <2>2. ~Owes(thread[t], l)
    BY <2>1 DEF Owes
  <2> QED  BY <1>a, <1>c, <2>1, <2>2
<1>6. ASSUME NEW t \in Thread, CompleteWait(t) PROVE Raised(l)'
  BY <1>6, <1>d DEF CompleteWait
<1>7. ASSUME NEW w \in Wait, WaitOnMask(w) \/ WaitRefused(w) \/ CancelWait(w) \/ Acknowledge(w)
      PROVE  Raised(l)'
  BY <1>7, <1>d DEF WaitOnMask, WaitRefused, CancelWait, Acknowledge
<1>8. ASSUME Restart \/ UNCHANGED vars PROVE Raised(l)'
  BY <1>8, <1>d DEF Restart, vars, lines
<1> QED
  BY <1>1, <1>2, <1>3, <1>4, <1>5, <1>6, <1>7, <1>8 DEF Next, Goes

\* Every change of a line is raised once, by however many threads.
THEOREM NoChangeIsLost == Spec => []LineChangesAreRaised
<1>1. Init => LineChangesAreRaised
  <2> SUFFICES ASSUME Init, NEW l \in Line PROVE Raised(l)
    BY DEF LineChangesAreRaised, Raised
  <2>1. Pending(l) = {}
    BY ThreadFields DEF Init, Pending
  <2>2. Cardinality(Pending(l)) = 0
    BY <2>1, FS_EmptySet
  <2> QED  BY <2>2 DEF Init, Raised
<1> QED  BY <1>1, InitType, StepType, StepRaised, PTL DEF Spec

=============================================================================
