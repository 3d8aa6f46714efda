-------------------------- MODULE SignalPathProofs --------------------------
(***************************************************************************)
(* Proofs about SignalPath for any number of handler threads, settings and *)
(* changes: its type invariant, and what snapshots hold.                   *)
(***************************************************************************)
EXTENDS SignalPath, FiniteSetTheorems, TLAPS

USE ValueAssumption, CallsAssumption, BoundAssumption, CallerAssumption, NoneAssumption

-----------------------------------------------------------------------------
(* The types.                                                              *)

\* The parts of a snapshot that is about to be taken have their types.
LEMMA TakenType ==
  ASSUME TypeOK, Numbering, NEW t \in Caller, caller[t].at = "signal"
  PROVE  /\ SequenceNumber < MaxChanges
         /\ Taken(t) \in Snapshot
         /\ IsFiniteSet(Signalling) /\ Cardinality(Signalling) \in Nat \ {0}
<1>1. Signalling \subseteq Caller /\ t \in Signalling
  BY DEF Signalling
<1>2. IsFiniteSet(Signalling) /\ Cardinality(Signalling) \in Nat
  BY <1>1, FS_Subset, FS_CardinalityType
<1>3. Cardinality(Signalling) # 0
  BY <1>1, <1>2, FS_EmptySet
<1>4. SequenceNumber < MaxChanges
  <2>1. Len(log) \in Nat /\ Len(log) + Cardinality(Signalling) <= MaxChanges
    BY <1>2 DEF TypeOK, Numbering, Begun
  <2> QED  BY <1>2, <1>3, <2>1 DEF Numbering
<1>5. SequenceNumber + 1 \in 0..MaxChanges
  BY <1>4 DEF TypeOK
<1>6. /\ ChangedMask \cup caller[t].bits \in SUBSET Bit
      /\ config \in [Setting -> Value]
  BY DEF TypeOK
<1> QED  BY <1>2, <1>3, <1>4, <1>5, <1>6 DEF Taken, Snapshot

\* A handler that goes on to signal keeps the types of the threads.
LEMMA SignalType ==
  ASSUME TypeOK, NEW t \in Caller, NEW bits \in SUBSET Bit, Signal(t, bits)
  PROVE  caller' \in [Caller -> [at : {"idle", "signal", "complete", "clear"},
                                 bits : SUBSET Bit,
                                 snapshot : Snapshot \cup {None}]]
BY DEF TypeOK, Signal

LEMMA InitType == Init => TypeOK
BY DEF Init, TypeOK, Idle

LEMMA StepType ==
  ASSUME TypeOK, Numbering, [Next]_vars
  PROVE  TypeOK'
<1>1. ASSUME NEW t \in Caller, FileCreate(t)  PROVE TypeOK'
  <2>1. {OpenBit} \in SUBSET Bit
    BY DEF Bit
  <2> QED  BY <1>1, <2>1, SignalType DEF FileCreate, TypeOK, signalState, watching
<1>2. ASSUME NEW t \in Caller, SetSettings(t)  PROVE TypeOK'
  <2>0. PICK S \in SetCalls : \E v \in [S -> Value] :
           /\ config' = [s \in Setting |-> IF s \in S THEN v[s] ELSE config[s]]
           /\ Signal(t, BitsOf(S))
    BY <1>2 DEF SetSettings
  <2>1. PICK v \in [S -> Value] :
           /\ config' = [s \in Setting |-> IF s \in S THEN v[s] ELSE config[s]]
           /\ Signal(t, BitsOf(S))
    BY <2>0
  <2>2. S \subseteq Setting
    OBVIOUS
  <2>3. BitsOf(S) \in SUBSET Bit
    BY <2>2 DEF BitsOf, Bit
  <2>4. config' \in [Setting -> Value]
    BY <2>1, <2>2 DEF TypeOK
  <2> QED  BY <1>2, <2>1, <2>3, <2>4, SignalType DEF SetSettings, TypeOK, watching
<1>3. ASSUME NEW t \in Caller, FileClose(t)  PROVE TypeOK'
  <2>1. {CloseBit} \in SUBSET Bit
    BY DEF Bit
  <2> QED  BY <1>3, <2>1, SignalType DEF FileClose, TypeOK, signalState, watching
<1>4. ASSUME NEW t \in Caller, TakeSnapshot(t)  PROVE TypeOK'
  <2>1. caller[t].at = "signal"
    BY <1>4 DEF TakeSnapshot
  <2>2. Taken(t) \in Snapshot /\ SequenceNumber' \in 0..MaxChanges
    BY <1>4, <2>1, TakenType DEF TakeSnapshot, Snapshot
  <2>3. ChangedMask' \subseteq Bit
    BY <1>4 DEF TakeSnapshot, TypeOK
  <2>4. caller' \in [Caller -> [at : {"idle", "signal", "complete", "clear"},
                                bits : SUBSET Bit, snapshot : Snapshot \cup {None}]]
    BY <1>4, <2>2 DEF TakeSnapshot, TypeOK
  <2>5. log' \in Seq([bits : SUBSET Bit, config : [Setting -> Value]])
    <3> DEFINE entry == [bits |-> caller[t].bits, config |-> config]
               Entry == [bits : SUBSET Bit, config : [Setting -> Value]]
    <3>1. entry \in Entry /\ log \in Seq(Entry) /\ log' = Append(log, entry)
      BY <1>4 DEF TakeSnapshot, TypeOK
    <3> HIDE DEF entry, Entry
    <3>2. Append(log, entry) \in Seq(Entry)
      BY <3>1
    <3> QED  BY <3>1, <3>2 DEF Entry
  <2> QED  BY <1>4, <2>2, <2>3, <2>4, <2>5 DEF TakeSnapshot, TypeOK, watching
<1>5. ASSUME NEW t \in Caller, CompleteWait(t)  PROVE TypeOK'
  BY <1>5 DEF CompleteWait, TypeOK, signalState
<1>6. ASSUME NEW t \in Caller, CompleteEnd(t)  PROVE TypeOK'
  <2>1. caller' \in [Caller -> [at : {"idle", "signal", "complete", "clear"},
                                bits : SUBSET Bit, snapshot : Snapshot \cup {None}]]
    BY <1>6 DEF CompleteEnd, TypeOK
  <2> QED  BY <1>6, <2>1 DEF CompleteEnd, TypeOK, signalState, watching
<1>7. ASSUME NEW t \in Caller, ClearBits(t)  PROVE TypeOK'
  <2>1. Idle \in [at : {"idle", "signal", "complete", "clear"},
                 bits : SUBSET Bit, snapshot : Snapshot \cup {None}]
    BY DEF Idle
  <2>2. caller' = [caller EXCEPT ![t] = Idle] /\ ChangedMask' \subseteq ChangedMask
    BY <1>7 DEF ClearBits, Remaining
  <2>3. comSide' \in {"closed", "opening", "open"}
    BY <1>7 DEF ClearBits, TypeOK
  <2> QED  BY <1>7, <2>1, <2>2, <2>3 DEF ClearBits, TypeOK, watching
<1>8. CASE WatcherWait
  BY <1>8 DEF WatcherWait, TypeOK, signalState
<1>9. CASE WatcherNotify
  BY <1>9 DEF WatcherNotify, TypeOK, signalState
<1>10. CASE UNCHANGED vars
  BY <1>10 DEF vars, signalState, watching, TypeOK
<1> QED
  BY <1>1, <1>2, <1>3, <1>4, <1>5, <1>6, <1>7, <1>8, <1>9, <1>10 DEF Next, SignalChanged

-----------------------------------------------------------------------------
(* The inductive invariant.                                                *)

\* A handler that stores something and goes on to signal it keeps the
\* invariant: its bits cover what it stored, and the bound leaves room for it.
LEMMA BeginStep ==
  ASSUME SignalInv, NEW t \in Caller, NEW bits \in SUBSET Bit,
         caller[t] = Idle, Begun < MaxChanges, Signal(t, bits),
         \A s \in Setting : config'[s] # config[s] => s \in bits,
         UNCHANGED <<SequenceNumber, ChangedMask, watching, log>>
  PROVE  Numbering' /\ MaskIsInFlight' /\ NoSilentChange' /\ MaskIsJustified'
<1>1. /\ caller \in [Caller -> [at : {"idle", "signal", "complete", "clear"},
                                bits : SUBSET Bit, snapshot : Snapshot \cup {None}]]
      /\ caller' = [caller EXCEPT ![t] = [at |-> "signal", bits |-> bits, snapshot |-> None]]
      /\ caller[t].at = "idle" /\ caller[t].snapshot = None
  BY DEF SignalInv, TypeOK, Signal, Idle
<1>2. /\ caller'[t].at = "signal" /\ caller'[t].bits = bits /\ caller'[t].snapshot = None
      /\ \A u \in Caller : u # t => caller'[u] = caller[u]
      /\ \A u \in Caller : caller'[u].snapshot = caller[u].snapshot
  BY <1>1
<1>3. InFlight' = InFlight /\ \A u \in InFlight : caller'[u] = caller[u]
  BY <1>1, <1>2 DEF InFlight
<1>4. Held' = Held
  BY <1>2 DEF Held, watching
<1>5. Numbering'
  <2>1. Signalling' = Signalling \cup {t} /\ t \notin Signalling /\ Signalling \subseteq Caller
    BY <1>1, <1>2 DEF Signalling
  <2>2. IsFiniteSet(Signalling) /\ Cardinality(Signalling) \in Nat
    BY <2>1, FS_Subset, FS_CardinalityType
  <2>3. Cardinality(Signalling') = Cardinality(Signalling) + 1
    BY <2>1, <2>2, FS_AddElement
  <2>4. Len(log) \in Nat
    BY DEF SignalInv, TypeOK
  <2>5. Begun' <= MaxChanges
    BY <2>2, <2>3, <2>4 DEF Begun
  <2> QED  BY <1>2, <1>3, <1>4, <2>5 DEF SignalInv, Numbering
<1>6. MaskIsInFlight'
  BY <1>3 DEF SignalInv, MaskIsInFlight
<1>7. NoSilentChange'
  <2> SUFFICES ASSUME NEW s \in Setting,
                      config'[s] # IF log = <<>> THEN 0 ELSE log[Len(log)].config[s]
               PROVE  \E u \in Caller : caller'[u].at = "signal" /\ s \in caller'[u].bits
    BY DEF NoSilentChange
  <2>1. CASE config'[s] # config[s]
    BY <1>2, <2>1
  <2>2. CASE config'[s] = config[s]
    BY <1>1, <1>2, <2>2 DEF SignalInv, NoSilentChange
  <2> QED  BY <2>1, <2>2
<1>8. MaskIsJustified'
  BY <1>3, <1>4 DEF SignalInv, MaskIsJustified
<1> QED  BY <1>5, <1>6, <1>7, <1>8

\* So does the first critical section: the snapshot it takes has the caller's
\* bits, those of callers in flight, and the settings as they are.
LEMMA TakeSnapshotStep ==
  ASSUME SignalInv, NEW t \in Caller, TakeSnapshot(t)
  PROVE  Numbering' /\ MaskIsInFlight' /\ NoSilentChange' /\ MaskIsJustified'
<1> DEFINE entry == [bits |-> caller[t].bits, config |-> config]
           Entry == [bits : SUBSET Bit, config : [Setting -> Value]]
<1>1. /\ caller \in [Caller -> [at : {"idle", "signal", "complete", "clear"},
                                bits : SUBSET Bit, snapshot : Snapshot \cup {None}]]
      /\ caller' = [caller EXCEPT ![t] =
                      [at |-> "complete", bits |-> caller[t].bits, snapshot |-> Taken(t)]]
      /\ caller[t].at = "signal"
  BY DEF SignalInv, TypeOK, TakeSnapshot
<1>2. /\ caller'[t].at = "complete" /\ caller'[t].bits = caller[t].bits
      /\ caller'[t].snapshot = Taken(t)
      /\ \A u \in Caller : u # t => caller'[u] = caller[u]
  BY <1>1
<1>3. Taken(t) \in Snapshot /\ Taken(t) # None /\ SequenceNumber < MaxChanges
  BY <1>1, TakenType DEF SignalInv
<1>4. InFlight' = InFlight \cup {t} /\ t \notin InFlight
  BY <1>1, <1>2 DEF InFlight
<1>5. Held' \subseteq Held \cup {Taken(t)}
  BY <1>2 DEF Held, TakeSnapshot, watching
<1>6. /\ Taken(t).seq = SequenceNumber + 1
      /\ Taken(t).mask = ChangedMask \cup caller[t].bits
      /\ SequenceNumber' = SequenceNumber + 1
      /\ ChangedMask' = ChangedMask \cup caller[t].bits
      /\ SequenceNumber \in Nat /\ config' = config
  BY DEF TakeSnapshot, Taken, SignalInv, TypeOK
<1>7. /\ log \in Seq(Entry) /\ entry \in Entry /\ log' = Append(log, entry)
      /\ entry.bits = caller[t].bits /\ entry.config = config
  BY <1>1 DEF TakeSnapshot, SignalInv, TypeOK
<1> HIDE DEF entry, Entry
<1>8. /\ Len(log) \in Nat /\ Len(log') = Len(log) + 1
      /\ log'[Len(log) + 1] = entry
      /\ \A k \in 1..Len(log) : log'[k] = log[k]
      /\ log' # <<>>
  BY <1>7
<1>9. Len(log) = SequenceNumber
  BY DEF SignalInv, Numbering
<1>10. Numbering'
  <2>1. /\ Signalling' = Signalling \ {t} /\ t \in Signalling
        /\ IsFiniteSet(Signalling) /\ Cardinality(Signalling) \in Nat \ {0}
    BY <1>1, <1>2, TakenType DEF Signalling, SignalInv
  <2>2. Cardinality(Signalling') = Cardinality(Signalling) - 1
    BY <2>1, FS_RemoveElement
  <2>3. Begun' <= MaxChanges
    BY <1>8, <2>1, <2>2 DEF Begun, SignalInv, Numbering
  <2>4. \A u \in Caller : u \in InFlight' <=> caller'[u].snapshot # None
    BY <1>1, <1>2, <1>3, <1>4 DEF SignalInv, Numbering
  <2>5. \A snap \in Held' : snap.seq <= SequenceNumber'
    <3> SUFFICES ASSUME NEW snap \in Held'
                 PROVE  snap.seq <= SequenceNumber'
      OBVIOUS
    <3>1. CASE snap = Taken(t)
      BY <1>6, <3>1
    <3>2. CASE snap \in Held
      <4>1. snap \in Snapshot
        BY <3>2 DEF Held, SignalInv, TypeOK
      <4>2. snap.seq \in Nat /\ snap.seq <= SequenceNumber
        BY <3>2, <4>1 DEF Snapshot, SignalInv, Numbering
      <4> QED  BY <1>6, <4>2
    <3> QED  BY <1>5, <3>1, <3>2
  <2> QED  BY <1>6, <1>8, <1>9, <2>3, <2>4, <2>5 DEF Numbering
<1>11. MaskIsInFlight'
  BY <1>1, <1>2, <1>4, <1>6 DEF SignalInv, MaskIsInFlight, InFlight
<1>12. NoSilentChange'
  BY <1>6, <1>7, <1>8 DEF NoSilentChange
<1>13. MaskIsJustified'
  <2>1. \A u \in InFlight' : caller'[u].bits \subseteq caller'[u].snapshot.mask
    BY <1>1, <1>2, <1>4, <1>6 DEF SignalInv, MaskIsJustified, InFlight
  <2>2. \A snap \in Held : /\ snap \in Snapshot /\ snap.seq \in Nat
                           /\ snap.seq <= SequenceNumber
    BY DEF Held, SignalInv, TypeOK, Snapshot, Numbering
  <2>3. ASSUME NEW snap \in Held, NEW b \in snap.mask
        PROVE  \E k \in 1..snap.seq : b \in log'[k].bits
    <3>1. PICK k \in 1..snap.seq : b \in log[k].bits
      BY DEF SignalInv, MaskIsJustified
    <3>2. k \in 1..Len(log)
      BY <1>6, <1>9, <2>2, <3>1
    <3> QED  BY <1>8, <3>1, <3>2
  <2>4. ASSUME NEW b \in Taken(t).mask
        PROVE  \E k \in 1..Taken(t).seq : b \in log'[k].bits
    <3>1. CASE b \in caller[t].bits
      BY <1>6, <1>7, <1>8, <1>9, <3>1
    <3>2. CASE b \in ChangedMask
      <4>1. PICK u \in InFlight : b \in caller[u].bits
        BY <3>2 DEF SignalInv, MaskIsInFlight
      <4>2. b \in caller[u].snapshot.mask /\ caller[u].snapshot \in Held
        BY <4>1 DEF SignalInv, MaskIsJustified, Numbering, Held, InFlight
      <4>3. PICK k \in 1..caller[u].snapshot.seq : b \in log'[k].bits
        BY <2>3, <4>2
      <4>4. caller[u].snapshot.seq \in Nat /\ caller[u].snapshot.seq <= SequenceNumber
        BY <2>2, <4>2
      <4> QED  BY <1>6, <4>3, <4>4
    <3> QED  BY <1>6, <3>1, <3>2
  <2> QED  BY <1>5, <2>1, <2>3, <2>4 DEF MaskIsJustified
<1> QED  BY <1>10, <1>11, <1>12, <1>13

\* The second critical section clears the whole snapshot, hence the bits of
\* the caller that leaves.
LEMMA ClearBitsStep ==
  ASSUME SignalInv, NEW t \in Caller, ClearBits(t)
  PROVE  Numbering' /\ MaskIsInFlight' /\ NoSilentChange' /\ MaskIsJustified'
<1>1. /\ caller \in [Caller -> [at : {"idle", "signal", "complete", "clear"},
                                bits : SUBSET Bit, snapshot : Snapshot \cup {None}]]
      /\ caller' = [caller EXCEPT ![t] = Idle] /\ caller[t].at = "clear"
      /\ ChangedMask' = ChangedMask \ caller[t].snapshot.mask
      /\ UNCHANGED <<config, SequenceNumber, log, note, heard>>
  BY DEF SignalInv, TypeOK, ClearBits, Remaining, watching
<1>2. /\ caller'[t] = Idle
      /\ \A u \in Caller : u # t => caller'[u] = caller[u]
  BY <1>1
<1>3. InFlight' = InFlight \ {t} /\ t \in InFlight
  BY <1>1, <1>2 DEF InFlight, Idle
<1>4. Held' \subseteq Held
  <2>1. \A u \in Caller : caller'[u].snapshot \in {None, caller[u].snapshot}
    BY <1>2 DEF Idle
  <2> QED  BY <1>1, <2>1 DEF Held
<1>5. Numbering'
  <2>1. Signalling' = Signalling
    BY <1>1, <1>2 DEF Signalling, Idle
  <2>2. \A u \in Caller : u \in InFlight' <=> caller'[u].snapshot # None
    BY <1>2, <1>3 DEF SignalInv, Numbering, Idle
  <2> QED  BY <1>1, <1>4, <2>1, <2>2 DEF SignalInv, Numbering, Begun
<1>6. MaskIsInFlight'
  <2> SUFFICES ASSUME NEW b \in ChangedMask'
               PROVE  \E u \in InFlight' : b \in caller'[u].bits
    BY DEF MaskIsInFlight
  <2>1. PICK u \in InFlight : b \in caller[u].bits
    BY <1>1 DEF SignalInv, MaskIsInFlight
  <2>2. u # t
    BY <1>1, <2>1 DEF SignalInv, MaskIsJustified
  <2> QED  BY <1>2, <1>3, <2>1, <2>2 DEF InFlight
<1>7. NoSilentChange'
  BY <1>1, <1>2 DEF SignalInv, NoSilentChange
<1>8. MaskIsJustified'
  BY <1>1, <1>2, <1>3, <1>4 DEF SignalInv, MaskIsJustified, InFlight
<1> QED  BY <1>5, <1>6, <1>7, <1>8

\* Completing the wait, leaving the loop and the watcher's own steps only move
\* snapshots that are held already.
LEMMA HandOver ==
  ASSUME SignalInv, UNCHANGED <<config, SequenceNumber, ChangedMask, log>>,
         caller' \in [Caller -> [at : {"idle", "signal", "complete", "clear"},
                                 bits : SUBSET Bit, snapshot : Snapshot \cup {None}]],
         \A u \in Caller : /\ caller'[u].bits = caller[u].bits
                           /\ caller'[u].snapshot = caller[u].snapshot
                           /\ (caller'[u].at = "signal" <=> caller[u].at = "signal")
                           /\ (u \in InFlight' <=> u \in InFlight),
         Held' \subseteq Held
  PROVE  Numbering' /\ MaskIsInFlight' /\ NoSilentChange' /\ MaskIsJustified'
<1>1. InFlight' = InFlight /\ InFlight \subseteq Caller /\ Signalling' = Signalling
  BY DEF InFlight, Signalling
<1>2. Numbering'
  BY <1>1 DEF SignalInv, Numbering, Begun
<1>3. MaskIsInFlight'
  BY <1>1 DEF SignalInv, MaskIsInFlight
<1>4. NoSilentChange'
  BY DEF SignalInv, NoSilentChange
<1>5. MaskIsJustified'
  BY <1>1 DEF SignalInv, MaskIsJustified
<1> QED  BY <1>2, <1>3, <1>4, <1>5

LEMMA InitSignal == Init => SignalInv
<1> SUFFICES ASSUME Init  PROVE SignalInv
  OBVIOUS
<1>1. \A t \in Caller : caller[t] = Idle
  BY DEF Init
<1>2. InFlight = {} /\ Signalling = {} /\ Held = {}
  BY <1>1 DEF Init, InFlight, Signalling, Held, Idle
<1>3. Numbering
  BY <1>1, <1>2, FS_EmptySet DEF Init, Numbering, Begun, Idle
<1>4. MaskIsInFlight /\ NoSilentChange /\ MaskIsJustified
  BY <1>2 DEF Init, MaskIsInFlight, NoSilentChange, MaskIsJustified
<1> QED  BY <1>3, <1>4, InitType DEF SignalInv

LEMMA StepSignal ==
  ASSUME SignalInv, [Next]_vars
  PROVE  SignalInv'
<1> USE DEF SignalInv
<1>0. TypeOK'
  BY StepType
<1> DEFINE Rest == Numbering' /\ MaskIsInFlight' /\ NoSilentChange' /\ MaskIsJustified'
<1>1. ASSUME NEW t \in Caller, FileCreate(t)  PROVE Rest
  <2>1. {OpenBit} \in SUBSET Bit
    BY DEF Bit
  <2> QED  BY <1>1, <2>1, BeginStep DEF FileCreate, signalState
<1>2. ASSUME NEW t \in Caller, SetSettings(t)  PROVE Rest
  <2>1. PICK S \in SetCalls : \E v \in [S -> Value] :
           /\ config' = [s \in Setting |-> IF s \in S THEN v[s] ELSE config[s]]
           /\ Signal(t, BitsOf(S))
    BY <1>2 DEF SetSettings
  <2>2. S \in SUBSET Bit
    BY DEF Bit
  <2>3. \A s \in Setting : config'[s] # config[s] => s \in S
    BY <2>1
  <2>4. Signal(t, S)
    BY <2>1 DEF BitsOf
  <2> QED  BY <1>2, <2>2, <2>3, <2>4, BeginStep DEF SetSettings
<1>3. ASSUME NEW t \in Caller, FileClose(t)  PROVE Rest
  <2>1. {CloseBit} \in SUBSET Bit
    BY DEF Bit
  <2> QED  BY <1>3, <2>1, BeginStep DEF FileClose, signalState
<1>4. ASSUME NEW t \in Caller, TakeSnapshot(t)  PROVE Rest
  BY <1>4, TakeSnapshotStep
<1>5. ASSUME NEW t \in Caller, CompleteWait(t)  PROVE Rest
  <2>1. Held' \subseteq Held
    BY <1>5 DEF CompleteWait, Held
  <2> QED  BY <1>0, <1>5, <2>1, HandOver DEF CompleteWait, signalState, InFlight, TypeOK
<1>6. ASSUME NEW t \in Caller, CompleteEnd(t)  PROVE Rest
  <2>1. /\ caller' = [caller EXCEPT ![t].at = "clear"] /\ caller[t].at = "complete"
        /\ UNCHANGED <<config, SequenceNumber, ChangedMask, log, note, heard>>
    BY <1>6 DEF CompleteEnd, signalState, watching
  <2>2. \A u \in Caller : /\ caller'[u].bits = caller[u].bits
                          /\ caller'[u].snapshot = caller[u].snapshot
                          /\ (caller'[u].at = "signal" <=> caller[u].at = "signal")
                          /\ (u \in InFlight' <=> u \in InFlight)
    BY <2>1 DEF TypeOK, InFlight
  <2>3. Held' \subseteq Held
    BY <2>1, <2>2 DEF Held
  <2> QED  BY <1>0, <2>1, <2>2, <2>3, HandOver DEF TypeOK
<1>7. ASSUME NEW t \in Caller, ClearBits(t)  PROVE Rest
  BY <1>7, ClearBitsStep
<1>8. CASE WatcherWait
  <2>1. Held' \subseteq Held
    BY <1>8 DEF WatcherWait, Held
  <2> QED  BY <1>0, <1>8, <2>1, HandOver DEF WatcherWait, signalState, InFlight, TypeOK
<1>9. CASE WatcherNotify
  <2>1. Held' \subseteq Held
    BY <1>9 DEF WatcherNotify, Held
  <2> QED  BY <1>0, <1>9, <2>1, HandOver DEF WatcherNotify, signalState, InFlight, TypeOK
<1>10. CASE UNCHANGED vars
  <2>1. Held' \subseteq Held
    BY <1>10 DEF vars, signalState, watching, Held
  <2> QED  BY <1>0, <1>10, <2>1, HandOver DEF vars, signalState, watching, InFlight, TypeOK
<1>11. Rest
  BY <1>1, <1>2, <1>3, <1>4, <1>5, <1>6, <1>7, <1>8, <1>9, <1>10 DEF Next, SignalChanged
<1> QED  BY <1>0, <1>11

-----------------------------------------------------------------------------
(* The theorems.                                                           *)

\* Every variable keeps its type, and GcomSignalChanged its numbering.
THEOREM TypeCorrect == Spec => []TypeOK
<1>1. SignalInv => TypeOK
  BY DEF SignalInv
<1> QED  BY InitSignal, StepSignal, <1>1, PTL DEF Spec

\* A setting that differs from the newest snapshot has a handler on its way to
\* signal it.
THEOREM ChangesAreSignalled == Spec => []NoSilentChange
<1>1. SignalInv => NoSilentChange
  BY DEF SignalInv
<1> QED  BY InitSignal, StepSignal, <1>1, PTL DEF Spec

\* A notification's mask has the bits of the change it is for and none of a
\* change that comes after it.
THEOREM SnapshotsAreJustified == Spec => []MaskIsJustified
<1>1. SignalInv => MaskIsJustified
  BY DEF SignalInv
<1> QED  BY InitSignal, StepSignal, <1>1, PTL DEF Spec
=============================================================================
