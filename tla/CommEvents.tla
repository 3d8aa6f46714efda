----------------------------- MODULE CommEvents ------------------------------
(***************************************************************************)
(* How an application on the COM side waits for events: SET_WAIT_MASK and  *)
(* WAIT_ON_MASK (comport.c), GcomCheckWaitMask (portpair.c) and the        *)
(* handlers that call it: reads and writes that raise EV_RXCHAR,           *)
(* EV_TXEMPTY or EV_BREAK, and SET_SIGNALS (companion.c), whose DTR and    *)
(* RTS are the COM side's DSR, RLSD and CTS.                               *)
(*                                                                         *)
(* All of them run in parallel.  GcomCheckWaitMask reads the mask under    *)
(* SignalLock and completes the queued waits after it has released it;     *)
(* SET_WAIT_MASK stores the mask under the lock and purges the queue after *)
(* it.  So a mask, a queue and the waits in it are seldom of one moment.   *)
(* The port is active throughout.                                          *)
(*                                                                         *)
(* Of the framework: a purge cancels what is queued and refuses what comes *)
(* until its callback has restarted the queue; a manual queue hands out    *)
(* its oldest request; a program may cancel a request that is queued.      *)
(***************************************************************************)
EXTENDS FifoOps, FiniteSets, Functions

CONSTANTS
  Thread,     (* threads that run handlers of either device                *)
  Wait,       (* WAIT_ON_MASK requests, used again once answered (bound)   *)
  DataEvent,  (* what reads, writes and breaks raise: EV_RXCHAR, ...       *)
  Masks       (* the masks an application sets (bound)                     *)

\* The companion's outputs, and the events a change of one is to the COM side.
Line == {"DTR", "RTS"}
Crossed == [DTR |-> {"DSR", "RLSD"}, RTS |-> {"CTS"}]
Event == DataEvent \union {"DSR", "RLSD", "CTS"}

ASSUME ThreadAssumption == IsFiniteSet(Thread)
ASSUME MasksAssumption == Masks \subseteq SUBSET Event
ASSUME DataEventAssumption == DataEvent \intersect {"DSR", "RLSD", "CTS"} = {}

VARIABLES
  WaitMask,
  asserted,   (* the lines for which CompDtr, CompRts is TRUE              *)
  queue,      (* WaitMaskQueue, oldest first                               *)
  accepting,  (* FALSE from a purge to its callback                        *)
  wait,       (* each request; the mask it was pended under (history); the *)
              (* events it was told of                                     *)
  thread,     (* where each thread is; the lines SET_SIGNALS found and     *)
              (* stored; the events in its hands                           *)
  signalled   (* history: the lines raised as changed an odd number of times *)

lines == <<asserted, signalled>>
waits == <<queue, accepting, wait>>
vars == <<WaitMask, asserted, queue, accepting, wait, thread, signalled>>

Idle == [at |-> "idle", old |-> {}, new |-> {}, events |-> {}]
Unused == [at |-> "idle", mask |-> {}, result |-> {}]

Queued == Range(queue)

Init ==
  /\ WaitMask = {}
  /\ asserted = Line
  /\ queue = <<>>
  /\ accepting = TRUE
  /\ wait = [w \in Wait |-> Unused]
  /\ thread = [t \in Thread |-> Idle]
  /\ signalled = {}

\* The requests in W are answered with these events, none if they are cancelled.
Answered(W, events) ==
  [w \in Wait |-> IF w \in W THEN [Unused EXCEPT !.at = "done", !.result = events]
                             ELSE wait[w]]

-----------------------------------------------------------------------------
(* SET_WAIT_MASK.                                                          *)

\* The mask is stored under SignalLock.
StoreMask(t) ==
  /\ thread[t] = Idle
  /\ WaitMask' \in Masks
  /\ thread' = [thread EXCEPT ![t].at = "purge"]
  /\ UNCHANGED <<lines, waits>>

\* What a purge leaves in the queue, and what one that cancels the oldest wait
\* only would leave.
KeptYounger == IF queue = <<>> THEN <<>> ELSE Tail(queue)
Kept == <<>>

\* WdfIoQueuePurge, after the lock.  GcomSignalChanged, which follows, touches
\* nothing here.
PurgeWaits(t) ==
  /\ thread[t].at = "purge"
  /\ wait' = Answered(Queued \ Range(Kept), {})
  /\ queue' = Kept
  /\ accepting' = FALSE
  /\ thread' = [thread EXCEPT ![t] = Idle]
  /\ UNCHANGED <<WaitMask, lines>>

\* GcomQueuePurgeComplete
Restart ==
  /\ ~accepting
  /\ accepting' = TRUE
  /\ UNCHANGED <<WaitMask, lines, queue, wait, thread>>

-----------------------------------------------------------------------------
(* WAIT_ON_MASK and what becomes of it.                                    *)

WaitOnMask(w) ==
  /\ wait[w].at = "idle"
  /\ accepting
  /\ queue' = Append(queue, w)
  /\ wait' = [wait EXCEPT ![w] = [at |-> "queued", mask |-> WaitMask, result |-> {}]]
  /\ UNCHANGED <<WaitMask, lines, accepting, thread>>

\* Forwarding to a queue that is being purged fails, and so does the request.
WaitRefused(w) ==
  /\ wait[w].at = "idle"
  /\ ~accepting
  /\ wait' = Answered({w}, {})
  /\ UNCHANGED <<WaitMask, lines, queue, accepting, thread>>

\* The program cancels a wait, or its handle is closed.
CancelWait(w) ==
  /\ \E i \in 1..Len(queue) : queue[i] = w /\ queue' = RemoveAt(queue, i)
  /\ wait' = Answered({w}, {})
  /\ UNCHANGED <<WaitMask, lines, accepting, thread>>

\* The program has seen the answer and may wait again.
Acknowledge(w) ==
  /\ wait[w].at = "done"
  /\ wait' = [wait EXCEPT ![w] = Unused]
  /\ UNCHANGED <<WaitMask, lines, queue, accepting, thread>>

-----------------------------------------------------------------------------
(* The handlers that raise events, up to their call of GcomCheckWaitMask.  *)

\* A write that left bytes for the COM side or emptied its ring; a break.
RaiseData(t) ==
  /\ thread[t] = Idle
  /\ \E e \in DataEvent :
       thread' = [thread EXCEPT ![t] = [Idle EXCEPT !.at = "check", !.events = {e}]]
  /\ UNCHANGED <<WaitMask, lines, waits>>

\* SET_SIGNALS captures both lines and stores the new ones; if neither differs
\* that is all.
SetSignals(t) ==
  /\ thread[t] = Idle
  /\ \E S \in (SUBSET Line) \ {asserted} :
       /\ asserted' = S
       /\ thread' = [thread EXCEPT ![t] =
            [Idle EXCEPT !.at = "check", !.old = asserted, !.new = S]]
  /\ UNCHANGED <<WaitMask, waits, signalled>>

-----------------------------------------------------------------------------
(* GcomCheckWaitMask.                                                      *)

Differ(S, T) == (S \ T) \union (T \ S)

\* The lines SET_SIGNALS reports as changed, by the values it captured under the
\* lock; and by a comparison that reads CompDtr and CompRts once more.
ChangedReread(t) ==
  IF thread[t].old = thread[t].new THEN {} ELSE Differ(thread[t].old, asserted)
Changed(t) == Differ(thread[t].old, thread[t].new)

EventsOf(t) == thread[t].events \union UNION {Crossed[l] : l \in Changed(t)}

\* The bits waits will be given, those pended under another mask meanwhile too.
Matched(t) == EventsOf(t) \intersect WaitMask

\* The critical section: the mask and the queue's handle are read.
CheckMask(t) ==
  /\ thread[t].at = "check"
  /\ signalled' = Differ(signalled, Changed(t))
  /\ thread' = [thread EXCEPT ![t] =
       IF Matched(t) = {}
       THEN Idle ELSE [at |-> "complete", old |-> {}, new |-> {}, events |-> Matched(t)]]
  /\ UNCHANGED <<WaitMask, asserted, waits>>

\* What a retrieval leaves in the queue, and what a mere look at it does.
RestFound == queue
RestRetrieved == Tail(queue)

\* The loop, without the lock: each queued wait is given the matched bits.
CompleteWait(t) ==
  /\ thread[t].at = "complete"
  /\ queue # <<>>
  /\ queue' = RestRetrieved
  /\ wait' = Answered({Head(queue)}, thread[t].events)
  /\ UNCHANGED <<WaitMask, lines, accepting, thread>>

\* A loop that may end after any of them, and one that goes on until there
\* is none.
LoopMayEnd == TRUE
LoopEnds == queue = <<>>

CompleteEnd(t) ==
  /\ thread[t].at = "complete"
  /\ LoopEnds
  /\ thread' = [thread EXCEPT ![t] = Idle]
  /\ UNCHANGED <<WaitMask, lines, waits>>

-----------------------------------------------------------------------------
(* The specification.                                                      *)

\* What a thread goes on with once it is in a handler
Goes(t) == PurgeWaits(t) \/ CheckMask(t) \/ CompleteWait(t) \/ CompleteEnd(t)

Next ==
  \/ \E t \in Thread : StoreMask(t) \/ RaiseData(t) \/ SetSignals(t) \/ Goes(t)
  \/ \E w \in Wait : WaitOnMask(w) \/ WaitRefused(w) \/ CancelWait(w) \/ Acknowledge(w)
  \/ Restart

Spec == Init /\ [][Next]_vars

\* Handlers run to their end and the framework calls back; no program need
\* set a mask, wait, acknowledge, write or change a line.
Fairness == WF_vars(Restart) /\ \A t \in Thread : WF_vars(Goes(t))

FairSpec == Spec /\ Fairness

-----------------------------------------------------------------------------
(* Properties.                                                             *)

WaitState ==
  [at : {"idle", "queued", "done"}, mask : SUBSET Event, result : SUBSET Event]
ThreadState ==
  [at : {"idle", "purge", "check", "complete"}, old : SUBSET Line, new : SUBSET Line,
   events : SUBSET Event]

(* Every variable keeps its type, a thread carries nothing outside of its      *)
(* handler, and the queue holds each pended request once.                      *)
TypeOK ==
  /\ WaitMask \subseteq Event
  /\ asserted \subseteq Line
  /\ signalled \subseteq Line
  /\ accepting \in BOOLEAN
  /\ queue \in Seq(Wait)
  /\ wait \in [Wait -> WaitState]
  /\ thread \in [Thread -> ThreadState]
  /\ \A t \in Thread : thread[t].at \in {"idle", "purge"} => thread[t] = [Idle EXCEPT !.at = thread[t].at]
  /\ IsInjective(queue)
  /\ \A w \in Wait : wait[w].at = "queued" <=> w \in Queued

(* No wait outlives its mask: a queued wait was pended under the mask in force, *)
(* or a SET_WAIT_MASK has yet to purge it.  The comment in comport.c: "setting  *)
(* a new mask cancels previous waits".                                          *)
WaitsMatchMask ==
  \A w \in Wait : wait[w].at = "queued" /\ wait[w].mask # WaitMask
    => \E t \in Thread : thread[t].at = "purge"

\* The threads that are about to raise a change of l
Pending(l) == {t \in Thread : thread[t].at = "check" /\ l \in Differ(thread[t].old, thread[t].new)}

(* Every change of a line is raised once, however calls of SET_SIGNALS overlap: *)
(* a line is not as it was at first exactly when it has been raised, or is      *)
(* about to be, an odd number of times.  The comment in companion.c: "Compare   *)
(* using local variables captured under the lock, not by re-reading".           *)
LineChangesAreRaised ==
  \A l \in Line :
    l \notin asserted <=>
      (Cardinality(Pending(l)) + (IF l \in signalled THEN 1 ELSE 0)) % 2 = 1

(* A queued wait whose mask has an event that some thread is about to look up   *)
(* does not stay in the queue, whoever else waits, changes the mask or raises   *)
(* events meanwhile: it is completed by that thread or another, or cancelled.   *)
MatchedWaitEnds ==
  \A w \in Wait :
    w \in Queued /\ (\E t \in Thread : thread[t].at = "check" /\ Matched(t) # {})
      ~> w \notin Queued

=============================================================================
