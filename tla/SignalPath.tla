----------------------------- MODULE SignalPath ------------------------------
(***************************************************************************)
(* How a change on the COM side reaches the companion's signal watcher:    *)
(* GcomSignalChanged (portpair.c) called from the open, close and SET_*    *)
(* handlers of comport.c, IOCTL_GCOM_WAIT_SIGNAL_CHANGE (companion.c), and *)
(* the watcher thread of addon/src/signals.rs.                             *)
(*                                                                         *)
(* GcomSignalChanged is three critical sections apart: number the change   *)
(* and take a snapshot under SignalLock, complete the pended waits without *)
(* it, take it again to clear bits.  The COM queue dispatches in parallel, *)
(* so several callers are somewhere in it at once.  The port is active     *)
(* throughout; creation and destruction are another module's subject.      *)
(***************************************************************************)
EXTENDS Integers, Sequences, FiniteSets

CONSTANTS
  Caller,      (* threads that run COM-side handlers                       *)
  Setting,     (* what an application configures: baud rate, DTR, RTS, ... *)
  Value,       (* the values of a setting; 0 is the one a port starts with *)
  SetCalls,    (* the groups of settings one IOCTL stores together         *)
  MaxChanges,  (* changes signalled in all (bound)                         *)
  None         (* no notification yet                                      *)

OpenBit == "COM_OPEN"
CloseBit == "COM_CLOSE"

ASSUME SettingAssumption == Setting \cap {OpenBit, CloseBit} = {}
ASSUME ValueAssumption == 0 \in Value
ASSUME CallsAssumption == SetCalls \subseteq (SUBSET Setting) \ {{}}
ASSUME BoundAssumption == MaxChanges \in Nat
ASSUME CallerAssumption == IsFiniteSet(Caller)

VARIABLES
  comSide,         (* ComSideOpen, and whether the CREATE has completed    *)
  config,          (* the settings in SignalState                          *)
  SequenceNumber,
  ChangedMask,     (* a set of settings, OpenBit and CloseBit              *)
  caller,          (* where each thread is, what it changed, its snapshot  *)
  watcher,         (* between two waits, waiting in the queue, or woken    *)
  note,            (* the snapshot that woke the watcher                   *)
  heard,           (* the last two snapshots handed to the callback        *)
  log              (* history: per number, the bits changed and the state  *)

signalState == <<config, SequenceNumber, ChangedMask>>
watching == <<watcher, note, heard>>
vars == <<comSide, signalState, caller, watching, log>>

\* Changes begun so far: the handlers start no more than MaxChanges (bound).
Signalling == {t \in Caller : caller[t].at = "signal"}
Begun == Len(log) + Cardinality(Signalling)

Bit == Setting \cup {OpenBit, CloseBit}

Snapshot == [seq : 0..MaxChanges, mask : SUBSET Bit, config : [Setting -> Value]]

ASSUME NoneAssumption == None \notin Snapshot

Idle == [at |-> "idle", bits |-> {}, snapshot |-> None]

Init ==
  /\ comSide = "closed"
  /\ config = [s \in Setting |-> 0]
  /\ SequenceNumber = 0
  /\ ChangedMask = {}
  /\ caller = [t \in Caller |-> Idle]
  /\ watcher = "between"
  /\ note = None
  /\ heard = <<None, None>>
  /\ log = <<>>

\* The thread goes on to call GcomSignalChanged with these bits.
Signal(t, bits) ==
  caller' = [caller EXCEPT ![t] = [at |-> "signal", bits |-> bits, snapshot |-> None]]

-----------------------------------------------------------------------------
(* The handlers, up to their call of GcomSignalChanged.                    *)

\* GcomComEvtFileCreate: the exchange on ComSideOpen lets one open through.
FileCreate(t) ==
  /\ caller[t] = Idle
  /\ Begun < MaxChanges
  /\ comSide = "closed"
  /\ comSide' = "opening"
  /\ Signal(t, {OpenBit})
  /\ UNCHANGED <<signalState, watching, log>>

\* The bits a SET_* handler reports, and a handler that forgets one of two.
BitsOfOne(S) == {CHOOSE s \in S : TRUE}
BitsOf(S) == S

\* IOCTL_SERIAL_SET_*: store the settings under SignalLock, release it, signal.
SetSettings(t) ==
  /\ caller[t] = Idle
  /\ Begun < MaxChanges
  /\ comSide = "open"
  /\ \E S \in SetCalls : \E v \in [S -> Value] :
       /\ config' = [s \in Setting |-> IF s \in S THEN v[s] ELSE config[s]]
       /\ Signal(t, BitsOf(S))
  /\ UNCHANGED <<comSide, SequenceNumber, ChangedMask, watching, log>>

\* GcomComEvtFileClose, which the I/O manager runs when the handle's last
\* request is done: ComSideOpen is cleared first, the close signalled after.
FileClose(t) ==
  /\ caller[t] = Idle
  /\ Begun < MaxChanges
  /\ comSide = "open"
  /\ \A u \in Caller : caller[u].bits \cap Setting = {}
  /\ comSide' = "closed"
  /\ Signal(t, {CloseBit})
  /\ UNCHANGED <<signalState, watching, log>>

-----------------------------------------------------------------------------
(* GcomSignalChanged.                                                      *)

\* The snapshot, and two that are taken too early or counted twice.
TakenEarly(t) == [seq |-> SequenceNumber + 1, mask |-> ChangedMask, config |-> config]
TakenTwice(t) ==
  [seq |-> SequenceNumber + 2, mask |-> ChangedMask \cup caller[t].bits, config |-> config]
Taken(t) ==
  [seq |-> SequenceNumber + 1, mask |-> ChangedMask \cup caller[t].bits, config |-> config]

\* First critical section: number the change, add its bits, copy the state.
TakeSnapshot(t) ==
  /\ caller[t].at = "signal"
  /\ SequenceNumber' = Taken(t).seq
  /\ ChangedMask' = ChangedMask \cup caller[t].bits
  /\ caller' = [caller EXCEPT ![t] =
       [at |-> "complete", bits |-> caller[t].bits, snapshot |-> Taken(t)]]
  /\ log' = Append(log, [bits |-> caller[t].bits, config |-> config])
  /\ UNCHANGED <<comSide, config, watching>>

\* The loop over the queue, without the lock: the watcher's wait, if it is
\* there, completes with this thread's snapshot; the loop looks again.
CompleteWait(t) ==
  /\ caller[t].at = "complete"
  /\ watcher = "waiting"
  /\ watcher' = "woken"
  /\ note' = caller[t].snapshot
  /\ UNCHANGED <<comSide, signalState, caller, heard, log>>

\* A loop that may give up before it has looked, and one that may not.
QueueUnseen == TRUE
QueueEmpty == watcher # "waiting"

CompleteEnd(t) ==
  /\ caller[t].at = "complete"
  /\ QueueEmpty
  /\ caller' = [caller EXCEPT ![t].at = "clear"]
  /\ UNCHANGED <<comSide, signalState, watching, log>>

\* Second critical section: clear the bits of the snapshot, whether anybody
\* was waiting for it or not.
Remaining(t) == ChangedMask \ caller[t].snapshot.mask

\* The handler then completes its request; an open is now usable.
ClearBits(t) ==
  /\ caller[t].at = "clear"
  /\ ChangedMask' = Remaining(t)
  /\ comSide' = IF OpenBit \in caller[t].bits THEN "open" ELSE comSide
  /\ caller' = [caller EXCEPT ![t] = Idle]
  /\ UNCHANGED <<config, SequenceNumber, watching, log>>

-----------------------------------------------------------------------------
(* The watcher thread of signals.rs, one wait at a time.                   *)

\* The overlapped WAIT_SIGNAL_CHANGE reaches SignalWaitQueue.
WatcherWait ==
  /\ watcher = "between"
  /\ watcher' = "waiting"
  /\ UNCHANGED <<comSide, signalState, caller, note, heard, log>>

\* The thread wakes and hands the state to the JavaScript callback.
WatcherNotify ==
  /\ watcher = "woken"
  /\ watcher' = "between"
  /\ heard' = <<heard[2], note>>
  /\ note' = None
  /\ UNCHANGED <<comSide, signalState, caller, log>>

-----------------------------------------------------------------------------
SignalChanged(t) ==
  TakeSnapshot(t) \/ CompleteWait(t) \/ CompleteEnd(t) \/ ClearBits(t)

Next ==
  \/ \E t \in Caller : FileCreate(t) \/ SetSettings(t) \/ FileClose(t) \/ SignalChanged(t)
  \/ WatcherWait
  \/ WatcherNotify

Spec == Init /\ [][Next]_vars

\* A handler runs to its end and the watcher thread keeps going round its
\* loop; no application need open, set or close anything.
Fairness ==
  /\ \A t \in Caller : WF_vars(SignalChanged(t))
  /\ WF_vars(WatcherWait) /\ WF_vars(WatcherNotify)

FairSpec == Spec /\ Fairness

-----------------------------------------------------------------------------
TypeOK ==
  /\ comSide \in {"closed", "opening", "open"}
  /\ config \in [Setting -> Value]
  /\ SequenceNumber \in 0..MaxChanges
  /\ ChangedMask \subseteq Bit
  /\ caller \in [Caller -> [at : {"idle", "signal", "complete", "clear"},
                            bits : SUBSET Bit,
                            snapshot : Snapshot \cup {None}]]
  /\ watcher \in {"between", "waiting", "woken"}
  /\ note \in Snapshot \cup {None}
  /\ heard \in (Snapshot \cup {None}) \X (Snapshot \cup {None})
  /\ log \in Seq([bits : SUBSET Bit, config : [Setting -> Value]])

\* The callers past their first critical section, whose bits may be set.
InFlight == {t \in Caller : caller[t].at \in {"complete", "clear"}}

\* Why masks do not run ahead: the second critical section clears every bit the
\* first one set, delivered or not, so each bit of ChangedMask belongs to a call
\* still running.  (That is how a change between two waits is lost to the next.)
MaskIsInFlight == ChangedMask \subseteq UNION {caller[t].bits : t \in InFlight}

\* No setting changes silently: a stored value that differs from the last
\* numbered snapshot belongs to a handler that has yet to take its own, so
\* the highest-numbered snapshot is never stale for longer than that.
NoSilentChange ==
  \A s \in Setting :
    LET known == IF log = <<>> THEN 0 ELSE log[Len(log)].config[s]
    IN  config[s] # known => \E t \in Caller : caller[t].at = "signal" /\ s \in caller[t].bits

\* The mask of a call's snapshot reports at least the change the call was made
\* for, and the mask of any snapshot, in a caller's hands or the watcher's,
\* only changes numbered no later than it: merging the bits of concurrent
\* callers neither loses the caller's own nor runs ahead of the number.
Held == ({caller[t].snapshot : t \in Caller} \cup {note, heard[1], heard[2]}) \ {None}

MaskIsJustified ==
  /\ \A t \in InFlight : caller[t].bits \subseteq caller[t].snapshot.mask
  /\ \A snap \in Held : \A b \in snap.mask : \E k \in 1..snap.seq : b \in log[k].bits

\* What the proofs add: a snapshot is held exactly while its caller is in
\* flight, and no snapshot is numbered beyond the counter, which counts the
\* history and stays within the bound.
Numbering ==
  /\ SequenceNumber = Len(log)
  /\ Begun <= MaxChanges
  /\ \A t \in Caller : t \in InFlight <=> caller[t].snapshot # None
  /\ \A snap \in Held : snap.seq <= SequenceNumber

\* The inductive invariant.
SignalInv == TypeOK /\ Numbering /\ MaskIsInFlight /\ NoSilentChange /\ MaskIsJustified

\* A wait that is in the queue when a change is about to be signalled is
\* completed, by that call or by another: the comment in companion.c on
\* WAIT_SIGNAL_CHANGE, "It will be completed by GcomSignalChanged()".
ArmedWatcherIsNotified ==
  watcher = "waiting" /\ (\E t \in Caller : caller[t].at = "signal") ~> watcher # "waiting"

=============================================================================
