------------------------ MODULE PortLifecycleProofs -------------------------
(***************************************************************************)
(* Proofs about PortLifecycle for any number of structures, COM numbers,   *)
(* slots and handles, whatever fails and whenever the driver stops, unless *)
(* a theorem says otherwise.                                               *)
(***************************************************************************)
EXTENDS PortLifecycle, FiniteSetTheorems, TLAPS

-----------------------------------------------------------------------------
(* The inductive invariant, in parts.                                      *)

\* Types, without the bound of the reference counts: it follows from what they count.
Structure ==
  [memory : {"unused", "allocated", "freed"}, number : Number \union {0},
   Active : BOOLEAN, RefCount : Int, open : SUBSET Side, locks : BOOLEAN,
   queues : SUBSET Side]
Job ==
  [at : ControlAt \union DestroyAt \union {"next", "stopped"},
   pair : Pair \union {NULL}, slot : Slot \union {0}, number : Number \union {0}]
Open == [at : HandleAt, pair : Pair \union {NULL}, side : Side]

Typed ==
  /\ Ports \in [Slot -> Pair \union {NULL, RESERVED}]
  /\ PortCount \in Int
  /\ pair \in [Pair -> Structure]
  /\ device \in [Pair -> [Side -> {"none", "building", "live", "deleted"}]]
  /\ work \in [Actor -> Job]
  /\ children \subseteq Number
  /\ todo \subseteq Pair
  /\ file \in [Handle -> Open]
  /\ twice \subseteq Pair

control == work["control"]
USE DEF control

\* Where a creation is: with a number and a slot only, with a structure that was put
\* in the table; and where an actor has no structure at all.
Reserving == {"reserved", "reservedAuto"}
Listing == {"Com", "ComRest", "Companion", "CompanionRest", "respond", "undoCom", "unlist"}
Published == Listing \union {"discard"}
Creating == Reserving \union Published \union {"allocated"}
Bare == Reserving \union {"idle", "next", "stopped"}

InTable(p) == \E i \in Slot : Ports[i] = p

\* An actor holds a structure exactly where it works on one, the two hold the same
\* only if the cleanup took it from a creation, and until the cleanup runs it has
\* taken nothing.
WorkInv ==
  /\ work["control"].at \in ControlAt \union DestroyAt \union {"stopped"}
  /\ work["cleanup"].at \in {"idle", "next", "stopped"} \union DestroyAt
  /\ \A a \in Actor : work[a].pair = NULL <=> work[a].at \in Bare
  /\ control.pair # NULL /\ control.pair = work["cleanup"].pair => control.at \in Published
  /\ work["cleanup"].at = "idle" => todo = {}

\* A creation's entry holds the sentinel, then the pair, which has its number, and
\* nothing once the cleanup has taken the pair.
EntryInv ==
  /\ control.at \in Creating => control.number \in Number
  /\ control.at \in Creating \ {"discard"} => control.slot \in Slot
  /\ control.at \in Reserving \union {"allocated"} => Ports[control.slot] = RESERVED
  /\ control.at \in Listing =>
       Ports[control.slot] = IF InTable(control.pair) THEN control.pair ELSE NULL
  /\ control.at \in Creating \ Reserving => pair[control.pair].number = control.number
  /\ control.at = "allocated" => pair[control.pair].Active

\* A pair has one entry at most; one that a destruction, the cleanup or an end of a
\* creation holds has none.
OneEntry == \A i, j \in Slot : Ports[i] \in Pair /\ Ports[i] = Ports[j] => i = j

Apart ==
  /\ \A a \in Actor : work[a].at \in DestroyAt \union {"allocated", "discard"}
                         => ~InTable(work[a].pair)
  /\ \A p \in todo : /\ ~InTable(p) /\ work["cleanup"].pair # p
                     /\ control.pair = p => control.at \in Published

\* What is held has been allocated, what is listed is active, what a destruction has
\* begun with is not, and a creation's pair that has left the table is the cleanup's.
OwnerInv ==
  /\ OneEntry
  /\ Apart
  /\ \A p \in Pair : Owned(p) \/ (\E a \in Actor : work[a].pair = p)
                      => pair[p].memory # "unused"
  /\ \A p \in Pair : InTable(p) => pair[p].Active
  /\ \A a \in Actor : work[a].at \in DestroyAt \ {"taken"} => ~pair[work[a].pair].Active
  /\ control.at \in Listing /\ pair[control.pair].Active =>
       \/ InTable(control.pair)
       \/ control.pair \in todo \/ work["cleanup"].pair = control.pair

\* References: a pair never allocated has none, an allocated one exactly those
\* counted, and a freed one at least these.
RefInv ==
  /\ \A h \in Handle : file[h].at = "none" <=> file[h].pair = NULL
  /\ \A p \in Pair : pair[p].memory = "unused" =>
       /\ pair[p].RefCount = 0
       /\ ~pair[p].Active
       /\ \A h \in Handle : file[h].pair # p
  /\ RefCountIsExact
  /\ \A p \in Pair : pair[p].memory = "freed" =>
       pair[p].RefCount >= Cardinality(Holders(p)) + (IF Owned(p) THEN 1 ELSE 0)

\* The count: a pair is counted out a second time at the end of its creation only.
CountInv ==
  /\ CountMatches
  /\ IsFiniteSet(twice)
  /\ \A p \in twice : /\ pair[p].memory # "unused"
                      /\ ~InTable(p)
                      /\ control.pair = p => control.at = "discard"

\* Numbers: the one a creation has reserved is not listed, and none is listed twice.
UniqueInv ==
  /\ OnePairPerNumber
  /\ control.at \in Reserving \union {"allocated"}
       => \A p \in Listed : pair[p].number # control.number

\* What holds as long as the cleanup takes no pair from its creation.
Calm ==
  /\ control.pair # NULL => control.pair # work["cleanup"].pair /\ control.pair \notin todo
  /\ control.at \in Listing => InTable(control.pair)
  /\ control.at \in Creating \ Reserving => pair[control.pair].Active /\ pair[control.pair].locks
  /\ \A p \in Pair : Owned(p) => pair[p].memory = "allocated"

\* Devices: a request in a handler keeps its device, a device that is there keeps
\* its structure and locks, and the COM device goes before the companion's.
DeviceInv ==
  /\ \A h \in Handle : file[h].at \in Serving => device[file[h].pair][file[h].side] = "live"
  /\ \A p \in Pair, s \in Side : device[p][s] = "live" => Owned(p) /\ pair[p].locks
  /\ \A p \in Pair : device[p]["Com"] = "live" => device[p]["Companion"] # "deleted"
  /\ \A p \in Pair, s \in Side : pair[p].memory = "unused" => device[p][s] = "none"

\* Devices: how far a creation or a destruction has got with them.
StageInv ==
  /\ control.at \in {"allocated", "Com"} => \A s \in Side : device[control.pair][s] = "none"
  /\ control.at = "ComRest" => device[control.pair]["Com"] = "building"
  /\ control.at \in {"ComRest", "Companion"} => device[control.pair]["Companion"] = "none"
  /\ control.at \in {"Companion", "CompanionRest", "respond"}
       => device[control.pair]["Com"] = "live"
  /\ control.at = "CompanionRest" => device[control.pair]["Companion"] = "building"
  /\ control.at = "respond" => device[control.pair]["Companion"] = "live"
  /\ control.at \in {"unlist", "discard"} => \A s \in Side : device[control.pair][s] # "live"
  /\ control.at = "undoCom" => device[control.pair]["Companion"] # "live"
  /\ \A a \in Actor : work[a].at \in {"taken", "inactive"} => device[work[a].pair]["Com"] = "live"
  /\ \A a \in Actor : work[a].at \in {"comDeleted", "bothDeleted", "unlocked"}
                         => device[work[a].pair]["Com"] # "live"
  /\ \A a \in Actor : work[a].at \in {"bothDeleted", "unlocked"}
                         => device[work[a].pair]["Companion"] # "live"
  /\ \A p \in todo : device[p]["Com"] = "live"

\* Numbers: no two live COM devices share one, and a listed pair that no creation
\* holds is ready.
NumberInv ==
  /\ \A p, q \in Pair : device[p]["Com"] = "live" /\ device[q]["Com"] = "live" /\ p # q
                           => pair[p].number # pair[q].number
  /\ \A p \in Listed \ {control.pair} :
       pair[p].number \in children /\ \A s \in Side : device[p][s] = "live"
  /\ control.at \in {"Companion", "CompanionRest", "respond"} => control.number \in children

\* Opens: a handle in use has its side's flag, and no two have the same.
Using(h) == file[h].at \in {"opening", "open", "serving", "holding"}

OpenInv ==
  /\ \A h \in Handle : Using(h) => file[h].side \in pair[file[h].pair].open
  /\ \A h, g \in Handle : Using(h) /\ Using(g) /\ file[h].pair = file[g].pair
                             /\ file[h].side = file[g].side => h = g

-----------------------------------------------------------------------------
(* The types.                                                              *)

LEMMA StructureUpdate ==
  ASSUME NEW r \in Structure
  PROVE  /\ [r EXCEPT !.memory = "freed"] \in Structure
         /\ \A b \in BOOLEAN : /\ [r EXCEPT !.Active = b] \in Structure
                              /\ [r EXCEPT !.locks = b] \in Structure
         /\ \A n \in Int : [r EXCEPT !.RefCount = n] \in Structure
         /\ \A S \in SUBSET Side : /\ [r EXCEPT !.open = S] \in Structure
                                  /\ [r EXCEPT !.queues = S] \in Structure
BY DEF Structure

LEMMA StructureFields ==
  ASSUME NEW r \in Structure
  PROVE  /\ r.memory \in {"unused", "allocated", "freed"} /\ r.number \in Number \union {0}
         /\ r.Active \in BOOLEAN /\ r.RefCount \in Int /\ r.open \in SUBSET Side
         /\ r.locks \in BOOLEAN /\ r.queues \in SUBSET Side
         /\ Freed(r) \in Structure /\ Released(r) \in Structure /\ Releases(r) \in Structure
<1>1. /\ r.memory \in {"unused", "allocated", "freed"} /\ r.number \in Number \union {0}
      /\ r.Active \in BOOLEAN /\ r.RefCount \in Int /\ r.open \in SUBSET Side
      /\ r.locks \in BOOLEAN /\ r.queues \in SUBSET Side
  BY DEF Structure
<1>2. Freed(r) \in Structure
  BY StructureUpdate DEF Freed
<1>3. Dropped(r) \in Structure
  <2>1. r.RefCount - 1 \in Int
    BY <1>1
  <2> QED  BY <2>1, StructureUpdate DEF Dropped
<1>4. Released(r) \in Structure
  BY <1>3, StructureUpdate DEF Released, Freed
<1> QED  BY <1>1, <1>2, <1>4 DEF Releases

LEMMA JobUpdate ==
  ASSUME NEW w \in Job
  PROVE  /\ \A to \in ControlAt \union DestroyAt \union {"next", "stopped"} :
              /\ [w EXCEPT !.at = to] \in Job
              /\ \A p \in Pair \union {NULL} : [w EXCEPT !.at = to, !.pair = p] \in Job
         /\ w.at \in ControlAt \union DestroyAt \union {"next", "stopped"}
         /\ w.pair \in Pair \union {NULL} /\ w.slot \in Slot \union {0}
         /\ w.number \in Number \union {0}
BY DEF Job

LEMMA OpenUpdate ==
  ASSUME NEW f \in Open
  PROVE  /\ \A to \in HandleAt : [f EXCEPT !.at = to] \in Open
         /\ \A to \in HandleAt : [f EXCEPT !.at = to, !.pair = NULL] \in Open
         /\ f.at \in HandleAt /\ f.pair \in Pair \union {NULL} /\ f.side \in Side
BY DEF Open

LEMMA MovesType ==
  ASSUME Typed, NEW h \in Handle
  PROVE  /\ Closed(h) \in [Handle -> Open]
         /\ \A to \in HandleAt : Moves(h, to) => file' \in [Handle -> Open]
<1>1. [file[h] EXCEPT !.at = "none", !.pair = NULL] \in Open
  BY OpenUpdate DEF Typed, HandleAt
<1>2. ASSUME NEW to \in HandleAt, Moves(h, to) PROVE file' \in [Handle -> Open]
  <2>1. [file[h] EXCEPT !.at = to] \in Open
    BY OpenUpdate DEF Typed
  <2> QED  BY <1>2, <2>1 DEF Typed, Moves
<1>3. Closed(h) \in [Handle -> Open]
  BY <1>1 DEF Closed, Typed
<1> QED  BY <1>2, <1>3

LEMMA GoesType ==
  ASSUME Typed, NEW a \in Actor,
         NEW to \in ControlAt \union DestroyAt \union {"next", "stopped"}, Goes(a, to)
  PROVE  work' \in [Actor -> Job]
<1>1. [work[a] EXCEPT !.at = to] \in Job
  BY JobUpdate DEF Typed
<1> QED  BY <1>1 DEF Typed, Goes

\* A pair's structure is replaced by one of the type.
LEMMA PairType ==
  ASSUME Typed, NEW p, NEW r \in Structure, pair' = [pair EXCEPT ![p] = r]
  PROVE  pair' \in [Pair -> Structure]
BY DEF Typed

\* So is a device's state.
LEMMA DeviceType ==
  ASSUME Typed, NEW p \in Pair, NEW s \in Side,
         NEW v \in {"none", "building", "live", "deleted"}
  PROVE  [device EXCEPT ![p][s] = v] \in
           [Pair -> [Side -> {"none", "building", "live", "deleted"}]]
<1>1. [device[p] EXCEPT ![s] = v] \in [Side -> {"none", "building", "live", "deleted"}]
  BY DEF Typed
<1> QED  BY <1>1 DEF Typed

\* An actor that is not bare holds a structure.
LEMMA Held ==
  ASSUME Typed, WorkInv, NEW a \in Actor
  PROVE  /\ work[a].pair \in Pair <=> work[a].at \notin Bare
         /\ work[a].pair \in Pair \union {NULL}
<1>1. work[a].pair \in Pair \union {NULL}
  BY JobUpdate DEF Typed
<1> QED  BY <1>1, SentinelAssumption DEF WorkInv

\* What is left of the table is a number.
LEMMA CountWithoutType ==
  ASSUME NEW S
  PROVE  /\ IsFiniteSet({i \in Slot : Ports[i] \in S})
         /\ Cardinality({i \in Slot : Ports[i] \in S}) \in Nat
<1>1. IsFiniteSet(Slot)
  BY SlotsAssumption, FS_Interval DEF Slot
<1>2. IsFiniteSet({i \in Slot : Ports[i] \in S})
  BY <1>1, FS_Subset
<1> QED  BY <1>2, FS_CardinalityType

LEMMA TableType ==
  ASSUME Typed, NEW S, NEW i
  PROVE  /\ Without(S) \in [Slot -> Pair \union {NULL, RESERVED}]
         /\ EntryCleared(i) \in [Slot -> Pair \union {NULL, RESERVED}]
         /\ CountWithout(S) \in Int
<1>1. /\ Without(S) \in [Slot -> Pair \union {NULL, RESERVED}]
      /\ EntryCleared(i) \in [Slot -> Pair \union {NULL, RESERVED}]
  BY DEF Typed, Without, EntryCleared
<1>2. CountWithout(S) \in Int
  <2>1. PortCount \in Int
    BY DEF Typed
  <2> QED  BY <2>1, CountWithoutType DEF CountWithout
<1> QED  BY <1>1, <1>2

LEMMA InitTyped == Init => Typed
<1> SUFFICES ASSUME Init PROVE Typed
  OBVIOUS
<1>1. pair \in [Pair -> Structure]
  BY DEF Init, Structure
<1>2. work \in [Actor -> Job]
  BY DEF Init, Job, ControlAt
<1>3. file \in [Handle -> Open]
  BY DEF Init, Open, HandleAt, Side
<1> QED  BY <1>1, <1>2, <1>3 DEF Init, Typed

\* A creation.
LEMMA CreateTyped ==
  ASSUME Typed, WorkInv, EntryInv, Create
  PROVE  Typed'
<1>0. "control" \in Actor
  BY DEF Actor
<1>1. CASE Reserve
  <2>1. PICK i \in Slot, n \in Number, to \in Reserving :
           /\ Ports' = [Ports EXCEPT ![i] = RESERVED]
           /\ work' = [work EXCEPT !["control"] =
                [at |-> to, pair |-> NULL, slot |-> i, number |-> n]]
    BY <1>1 DEF Reserve, Chosen, FreeNumbers, Reserving
  <2>2. [at |-> to, pair |-> NULL, slot |-> i, number |-> n] \in Job
    BY DEF Job, ControlAt, Reserving
  <2>3. UNCHANGED <<pair, device, children, todo, file, twice>> /\ PortCount' = PortCount + 1
    BY <1>1 DEF Reserve
  <2>4. Ports' \in [Slot -> Pair \union {NULL, RESERVED}]
    BY <2>1 DEF Typed
  <2>5. work' \in [Actor -> Job]
    BY <2>1, <2>2 DEF Typed
  <2> QED  BY <2>3, <2>4, <2>5 DEF Typed
<1>2. CASE Allocate
  <2>1. PICK p \in Pair :
           /\ pair' = [pair EXCEPT ![p] =
                [memory |-> "allocated", number |-> work["control"].number, Active |-> TRUE,
                 RefCount |-> 1, open |-> {}, locks |-> TRUE, queues |-> {}]]
           /\ work' = [work EXCEPT !["control"].at = "allocated", !["control"].pair = p]
    BY <1>2 DEF Allocate
  <2>2. [memory |-> "allocated", number |-> work["control"].number, Active |-> TRUE,
         RefCount |-> 1, open |-> {}, locks |-> TRUE, queues |-> {}] \in Structure
    <3>1. work["control"].number \in Number \union {0}
      BY <1>0, JobUpdate DEF Typed
    <3> QED  BY <3>1 DEF Structure
  <2>3. [work["control"] EXCEPT !.at = "allocated", !.pair = p] \in Job
    BY <1>0, JobUpdate DEF Typed, ControlAt
  <2> QED  BY <1>2, <2>1, <2>2, <2>3, PairType DEF Allocate, Typed
<1>3. CASE AllocateFails
  <2>1. Goes("control", "idle") /\ UNCHANGED <<pair, device, children, todo, file, twice>>
    BY <1>3 DEF AllocateFails
  <2>2. work' \in [Actor -> Job]
    BY <1>0, <2>1, GoesType DEF ControlAt
  <2>3. Ports' \in [Slot -> Pair \union {NULL, RESERVED}] /\ PortCount' \in Int
    <3>1. Ports' = EntryCleared(work["control"].slot) /\ PortCount' = PortCount - 1
      BY <1>3 DEF AllocateFails, EntryCleared
    <3>2. PortCount \in Int
      BY DEF Typed
    <3> QED  BY <3>1, <3>2, TableType
  <2> QED  BY <2>1, <2>2, <2>3 DEF Typed
<1>4. CASE Publish
  <2>1. work["control"].pair \in Pair
    BY <1>0, <1>4, JobUpdate DEF Publish, WorkInv, Typed, Bare, Reserving
  <2> QED  BY <1>0, <1>4, <2>1, GoesType DEF Publish, Typed, ControlAt
<1>5. CASE Respond
  <2>1. [work["control"] EXCEPT !.at = "idle", !.pair = NULL] \in Job
    BY <1>0, JobUpdate DEF Typed, ControlAt
  <2> QED  BY <1>5, <2>1 DEF Respond, Typed
<1>6. ASSUME NEW s \in Side, CreateDevice(s) PROVE Typed'
  <2>1. work' \in [Actor -> Job]
    BY <1>0, <1>6, GoesType DEF CreateDevice, ControlAt
  <2>2. device' \in [Pair -> [Side -> {"none", "building", "live", "deleted"}]]
    <3>1. work["control"].pair \in Pair
      BY <1>0, <1>6, Held DEF CreateDevice, Bare, Reserving, Side
    <3>2. device' = [device EXCEPT ![work["control"].pair][s] = "building"] \/ device' = device
      BY <1>6 DEF CreateDevice
    <3>3. [device EXCEPT ![work["control"].pair][s] = "building"] \in
            [Pair -> [Side -> {"none", "building", "live", "deleted"}]]
      BY <3>1, DeviceType
    <3>4. device \in [Pair -> [Side -> {"none", "building", "live", "deleted"}]]
      BY DEF Typed
    <3> QED  BY <3>2, <3>3, <3>4
  <2>3. UNCHANGED <<Ports, PortCount, pair, children, todo, file, twice>>
    BY <1>6 DEF CreateDevice
  <2> QED  BY <2>1, <2>2, <2>3 DEF Typed
<1>7. ASSUME NEW s \in Side, FinishDevice(s) PROVE Typed'
  <2>1. work' \in [Actor -> Job]
    BY <1>0, <1>7, GoesType DEF FinishDevice, ControlAt
  <2>2. work["control"].number \in Number
    BY <1>7 DEF FinishDevice, EntryInv, Creating, Published, Listing
  <2>3. PICK S \in SUBSET Side :
           pair' = [pair EXCEPT ![work["control"].pair].queues = @ \union S]
    BY <1>7 DEF FinishDevice
  <2>4. pair' \in [Pair -> Structure]
    <3>1. ASSUME work["control"].pair \in Pair
          PROVE  [pair[work["control"].pair] EXCEPT !.queues = @ \union S] \in Structure
      BY <3>1, StructureUpdate, StructureFields DEF Typed
    <3> QED  BY <2>3, <3>1 DEF Typed
  <2>5. device' \in [Pair -> [Side -> {"none", "building", "live", "deleted"}]]
    <3>1. work["control"].pair \in Pair
      BY <1>0, <1>7, Held DEF FinishDevice, Bare, Reserving
    <3>2. device' = [device EXCEPT ![work["control"].pair][s] = "live"] \/ device' = device
      BY <1>7 DEF FinishDevice
    <3>3. [device EXCEPT ![work["control"].pair][s] = "live"] \in
            [Pair -> [Side -> {"none", "building", "live", "deleted"}]]
      BY <3>1, DeviceType
    <3>4. device \in [Pair -> [Side -> {"none", "building", "live", "deleted"}]]
      BY DEF Typed
    <3> QED  BY <3>2, <3>3, <3>4
  <2>6. children' \subseteq Number /\ UNCHANGED <<Ports, PortCount, todo, file, twice>>
    BY <1>7, <2>2 DEF FinishDevice, Typed
  <2> QED  BY <2>1, <2>4, <2>5, <2>6 DEF Typed
<1>8. CASE UndoCom
  BY <1>0, <1>8, GoesType DEF UndoCom, DeleteDevice, Typed, ControlAt
<1>9. CASE Unlist
  <2>1. work' \in [Actor -> Job]
    BY <1>0, <1>9, GoesType DEF Unlist, ControlAt
  <2>2. EntryCleared(work["control"].slot) \in [Slot -> Pair \union {NULL, RESERVED}]
    BY TableType
  <2>3. twice' \subseteq Pair
    <3>1. control.pair \in Pair
      BY <1>0, <1>9, Held DEF Unlist, Bare, Reserving
    <3> QED  BY <1>9, <3>1 DEF Unlist, Typed
  <2> QED  BY <1>9, <2>1, <2>2, <2>3 DEF Unlist, Typed
<1>10. CASE Discard
  <2> DEFINE p == work["control"].pair
  <2>1. p \in Pair => Freed([pair[p] EXCEPT !.locks = FALSE]) \in Structure
    BY StructureUpdate, StructureFields DEF Typed
  <2>2. pair' \in [Pair -> Structure]
    BY <1>10, <2>1 DEF Discard, Typed
  <2>3. [work["control"] EXCEPT !.at = "idle", !.pair = NULL] \in Job
    BY <1>0, JobUpdate DEF Typed, ControlAt
  <2> QED  BY <1>10, <2>2, <2>3 DEF Discard, Typed
<1> QED  BY <1>1, <1>2, <1>3, <1>4, <1>5, <1>6, <1>7, <1>8, <1>9, <1>10 DEF Create

\* A destruction, by either actor, and the cleanup.
LEMMA DeleteType ==
  ASSUME Typed, NEW p \in Pair, NEW s \in Side, DeleteDevice(p, s)
  PROVE  device' \in [Pair -> [Side -> {"none", "building", "live", "deleted"}]]
<1>1. \/ device' = [device EXCEPT ![p][s] = "none"]
      \/ device' = [device EXCEPT ![p][s] = "deleted"]
  BY DEF DeleteDevice, Typed
<1> QED  BY <1>1, DeviceType

LEMMA DestroyTyped ==
  ASSUME Typed, WorkInv, NEW a \in Actor, Destroy(a)
  PROVE  Typed'
<1> DEFINE p == work[a].pair
<1>1. p \in Pair
  BY Held DEF Destroy, Deactivate, DetachQueues, DeleteFirst, DeleteSecond, DeleteLocks,
              ReleaseCreation, Bare, Reserving
<1>2. pair[p] \in Structure
  BY <1>1 DEF Typed
<1>3. CASE Deactivate(a)
  <2>1. [pair[p] EXCEPT !.Active = FALSE] \in Structure
    BY <1>2, StructureUpdate
  <2>2. pair' \in [Pair -> Structure]
    BY <1>3, <2>1, PairType DEF Deactivate
  <2>3. work' \in [Actor -> Job]
    BY <1>3, GoesType DEF Deactivate, DestroyAt
  <2>4. Ports' \in [Slot -> Pair \union {NULL, RESERVED}] /\ PortCount' \in Int
    <3>1. Ports' = Without({p}) /\ PortCount' = CountWithout({p})
      BY <1>3 DEF Deactivate
    <3> QED  BY <3>1, TableType
  <2> QED  BY <1>3, <2>2, <2>3, <2>4 DEF Deactivate, Typed
<1>4. CASE DetachQueues(a)
  <2>1. [pair[p] EXCEPT !.queues = {}] \in Structure
    BY <1>2, StructureUpdate
  <2>2. pair' \in [Pair -> Structure]
    BY <1>4, <2>1, PairType DEF DetachQueues
  <2>3. work' \in [Actor -> Job]
    BY <1>4, GoesType DEF DetachQueues, DestroyAt
  <2> QED  BY <1>4, <2>2, <2>3 DEF DetachQueues, Typed
<1>5. CASE DeleteFirst(a)
  <2>1. work' \in [Actor -> Job]
    BY <1>5, GoesType DEF DeleteFirst, DestroyAt
  <2>2. device' \in [Pair -> [Side -> {"none", "building", "live", "deleted"}]]
    BY <1>1, <1>5, DeleteType DEF DeleteFirst, First, Side
  <2> QED  BY <1>5, <2>1, <2>2 DEF DeleteFirst, Typed
<1>6. CASE DeleteSecond(a)
  <2>1. work' \in [Actor -> Job]
    BY <1>6, GoesType DEF DeleteSecond, DestroyAt
  <2>2. device' \in [Pair -> [Side -> {"none", "building", "live", "deleted"}]]
    BY <1>1, <1>6, DeleteType DEF DeleteSecond, Other, First, Side
  <2> QED  BY <1>6, <2>1, <2>2 DEF DeleteSecond, Typed
<1>7. CASE DeleteLocks(a)
  <2>1. [pair[p] EXCEPT !.locks = FALSE] \in Structure
    BY <1>2, StructureUpdate
  <2>2. pair' \in [Pair -> Structure]
    BY <1>7, <2>1, PairType DEF DeleteLocks
  <2>3. work' \in [Actor -> Job]
    BY <1>7, GoesType DEF DeleteLocks, DestroyAt
  <2> QED  BY <1>7, <2>2, <2>3 DEF DeleteLocks, Typed
<1>8. CASE ReleaseCreation(a)
  <2>1. pair' \in [Pair -> Structure]
    BY <1>2, <1>8, StructureFields, PairType DEF ReleaseCreation
  <2>2. PICK to \in {"idle", "next"} : work' = [work EXCEPT ![a].at = to, ![a].pair = NULL]
    BY <1>8 DEF ReleaseCreation
  <2>3. [work[a] EXCEPT !.at = to, !.pair = NULL] \in Job
    BY JobUpdate DEF Typed, ControlAt
  <2>4. work' \in [Actor -> Job]
    BY <2>2, <2>3 DEF Typed
  <2>5. UNCHANGED <<Ports, PortCount, device, children, todo, file, twice>>
    BY <1>8 DEF ReleaseCreation
  <2> QED  BY <2>1, <2>4, <2>5 DEF Typed
<1> QED  BY <1>3, <1>4, <1>5, <1>6, <1>7, <1>8 DEF Destroy

LEMMA TakeTyped ==
  ASSUME Typed, DestroyTake \/ Cleanup
  PROVE  Typed'
<1>0. "control" \in Actor /\ "cleanup" \in Actor
  BY DEF Actor
<1>1. CASE DestroyTake
  <2>1. PICK p \in Listed :
           /\ Ports' = Without({p})
           /\ PortCount' = CountWithout({p})
           /\ work' = [work EXCEPT !["control"].at = "taken", !["control"].pair = p]
    BY <1>1 DEF DestroyTake
  <2>2. [work["control"] EXCEPT !.at = "taken", !.pair = p] \in Job
    BY <1>0, JobUpdate DEF Typed, DestroyAt, Listed
  <2>3. Ports' \in [Slot -> Pair \union {NULL, RESERVED}] /\ PortCount' \in Int
    BY <2>1, TableType
  <2> QED  BY <1>1, <2>1, <2>2, <2>3 DEF DestroyTake, Typed
<1>2. CASE CleanupTake
  <2>1. work' \in [Actor -> Job]
    BY <1>0, <1>2, GoesType DEF CleanupTake
  <2>2. Ports' \in [Slot -> Pair \union {NULL, RESERVED}] /\ PortCount' \in Int
    <3>1. Ports' = Without(Listed) /\ PortCount' = CountWithout(Listed)
      BY <1>2 DEF CleanupTake
    <3> QED  BY <3>1, TableType
  <2>3. todo' \subseteq Pair
    BY <1>2 DEF CleanupTake, Listed
  <2> QED  BY <1>2, <2>1, <2>2, <2>3 DEF CleanupTake, Typed
<1>3. CASE CleanupNext
  <2>1. PICK p \in todo :
           /\ todo' = todo \ {p}
           /\ work' = [work EXCEPT !["cleanup"].at = "taken", !["cleanup"].pair = p]
    BY <1>3 DEF CleanupNext
  <2>2. [work["cleanup"] EXCEPT !.at = "taken", !.pair = p] \in Job
    BY <1>0, JobUpdate DEF Typed, DestroyAt
  <2> QED  BY <1>3, <2>1, <2>2 DEF CleanupNext, Typed
<1>4. CASE CleanupEnd
  <2>1. \A a \in Actor : [work[a] EXCEPT !.at = "stopped"] \in Job
    BY JobUpdate DEF Typed
  <2> QED  BY <1>4, <2>1 DEF CleanupEnd, Typed
<1> QED  BY <1>1, <1>2, <1>3, <1>4 DEF Cleanup

\* What an open claims, as one update of the structure.
LEMMA ClaimUpdate ==
  ASSUME NEW p, NEW A, NEW n
  PROVE  [pair EXCEPT ![p].open = A, ![p].RefCount = n]
           = [pair EXCEPT ![p] = [@ EXCEPT !.open = A, !.RefCount = n]]
OBVIOUS

\* The handles.
LEMMA HandleTyped ==
  ASSUME Typed, RefInv, NEW h \in Handle,
         OpenCheck(h) \/ IoBegin(h) \/ CloseCom(h) \/ CloseCompanion(h) \/ Callback(h)
  PROVE  Typed'
<1> DEFINE p == file[h].pair
<1>1. UNCHANGED <<Ports, PortCount, device, children, work, todo, twice>>
  BY DEF OpenCheck, IoBegin, CloseCom, CloseCompanion, Callback, OpenClaim, OpenSignal,
         IoSnapshot, IoUse, CloseCheck, CloseSnapshot, CloseNotify, CloseRelease
<1>2. ASSUME pair' \in [Pair -> Structure], file' \in [Handle -> Open] PROVE Typed'
  BY <1>1, <1>2 DEF Typed
<1>3. pair \in [Pair -> Structure] /\ file \in [Handle -> Open]
  BY DEF Typed
<1>4. file[h].at # "none" => p \in Pair /\ pair[p] \in Structure
  BY <1>3, OpenUpdate, SentinelAssumption DEF RefInv
<1>5. ASSUME UNCHANGED pair, NEW to \in HandleAt, Moves(h, to) PROVE Typed'
  BY <1>2, <1>3, <1>5, MovesType
<1>6. CASE OpenCheck(h)
  <2>1. PICK q \in Pair, s \in Side :
           file' = [file EXCEPT ![h] = [at |-> "checked", pair |-> q, side |-> s]]
    BY <1>6 DEF OpenCheck
  <2>2. [at |-> "checked", pair |-> q, side |-> s] \in Open
    BY DEF Open, HandleAt, Serving
  <2> QED  BY <1>2, <1>3, <1>6, <2>1, <2>2 DEF OpenCheck
<1>7. CASE IoBegin(h)
  BY <1>5, <1>7 DEF IoBegin, HandleAt, Serving
<1>8. CASE CloseCom(h)
  <2>1. [pair[p] EXCEPT !.open = @ \ {"Com"}] \in Structure
    BY <1>4, <1>8, StructureUpdate, StructureFields DEF CloseCom
  <2>2. pair' \in [Pair -> Structure]
    BY <1>8, <2>1, PairType DEF CloseCom
  <2> QED  BY <1>2, <1>8, <2>2, MovesType DEF CloseCom, HandleAt
<1>9. CASE CloseCompanion(h)
  <2>1. PICK S \in SUBSET Side : pair' = [pair EXCEPT ![p].open = S]
    BY <1>4, <1>9, StructureFields DEF CloseCompanion
  <2>2. [pair[p] EXCEPT !.open = S] \in Structure
    BY <1>4, <1>9, StructureUpdate DEF CloseCompanion
  <2>3. pair' \in [Pair -> Structure]
    BY <2>1, <2>2, PairType
  <2> QED  BY <1>2, <1>9, <2>3, MovesType DEF CloseCompanion, HandleAt
<1>10. CASE OpenClaim(h)
  <2>1. CASE UNCHANGED pair /\ file' = Closed(h)
    BY <1>2, <1>3, <2>1, MovesType
  <2>2. CASE /\ pair' = [pair EXCEPT ![p].open = @ \union {file[h].side},
                                     ![p].RefCount = @ + 1]
             /\ Moves(h, IF file[h].side = "Com" THEN "opening" ELSE "open")
    <3>1. pair[p].open \union {file[h].side} \in SUBSET Side /\ pair[p].RefCount + 1 \in Int
      <4>1. p \in Pair /\ pair[p] \in Structure
        BY <1>4, <1>10 DEF OpenClaim
      <4>2. file[h].side \in Side
        BY <1>3, OpenUpdate
      <4>3. pair[p].open \in SUBSET Side /\ pair[p].RefCount \in Int
        BY <4>1, StructureFields
      <4> QED  BY <4>2, <4>3
    <3>2. p \in Pair /\ pair[p] \in Structure
      BY <1>4, <1>10 DEF OpenClaim
    <3>3. [pair[p] EXCEPT !.open = @ \union {file[h].side}, !.RefCount = @ + 1] \in Structure
      BY <3>1, <3>2 DEF Structure
    <3>4. pair' \in [Pair -> Structure]
      <4>1. pair' = [pair EXCEPT ![p] = [pair[p] EXCEPT
                   !.open = pair[p].open \union {file[h].side},
                   !.RefCount = pair[p].RefCount + 1]]
        BY <2>2, <3>2, ClaimUpdate
      <4> QED  BY <3>3, <4>1, PairType
    <3> QED  BY <1>2, <2>2, <3>4, MovesType DEF HandleAt, Serving
  <2> QED  BY <1>10, <2>1, <2>2 DEF OpenClaim
<1>11. CASE OpenSignal(h) \/ IoSnapshot(h) \/ IoUse(h) \/ CloseCheck(h)
             \/ CloseSnapshot(h) \/ CloseNotify(h)
  BY <1>5, <1>11 DEF OpenSignal, IoSnapshot, IoUse, CloseCheck, CloseSnapshot, CloseNotify,
                     HandleAt, Serving
<1>12. CASE CloseRelease(h)
  <2>1. pair' \in [Pair -> Structure]
    BY <1>4, <1>12, StructureFields, PairType DEF CloseRelease
  <2> QED  BY <1>2, <1>12, <2>1, MovesType DEF CloseRelease
<1> QED  BY <1>6, <1>7, <1>8, <1>9, <1>10, <1>11, <1>12 DEF Callback

-----------------------------------------------------------------------------
(* Steps.                                                                  *)

\* Only control thread and cleanup change what they hold, the table, the devices
\* and the child list; the handles' steps keep all of that.
LEMMA HandleFrame ==
  ASSUME NEW h \in Handle,
         OpenCheck(h) \/ IoBegin(h) \/ CloseCom(h) \/ CloseCompanion(h) \/ Callback(h)
  PROVE  UNCHANGED <<Ports, PortCount, device, children, work, todo, twice>>
BY DEF OpenCheck, IoBegin, CloseCom, CloseCompanion, Callback, OpenClaim, OpenSignal,
       IoSnapshot, IoUse, CloseCheck, CloseSnapshot, CloseNotify, CloseRelease

\* What an actor's step does to its job and to the other's.
LEMMA GoesEffect ==
  ASSUME Typed, NEW a \in Actor, NEW to, Goes(a, to)
  PROVE  /\ work'[a].at = to /\ work'[a].pair = work[a].pair
         /\ work'[a].slot = work[a].slot /\ work'[a].number = work[a].number
         /\ \A b \in Actor \ {a} : work'[b] = work[b]
BY DEF Typed, Goes, Job

LEMMA HoldsEffect ==
  ASSUME Typed, NEW a \in Actor, NEW to, NEW p,
         work' = [work EXCEPT ![a].at = to, ![a].pair = p]
  PROVE  /\ work'[a].at = to /\ work'[a].pair = p
         /\ work'[a].slot = work[a].slot /\ work'[a].number = work[a].number
         /\ \A b \in Actor \ {a} : work'[b] = work[b]
BY DEF Typed, Job

LEMMA ReserveEffect ==
  ASSUME Typed, Reserve
  PROVE  \E i \in Slot, n \in Number, to \in Reserving :
           /\ Ports[i] = NULL
           /\ Ports' = [Ports EXCEPT ![i] = RESERVED]
           /\ \A p \in Listed : pair[p].number # n
           /\ work'["control"].at = to /\ work'["control"].pair = NULL
           /\ work'["control"].slot = i /\ work'["control"].number = n
           /\ work'["cleanup"] = work["cleanup"]
<1>1. PICK i \in Slot, auto \in BOOLEAN :
        \E n \in IF auto THEN Chosen ELSE {m \in Number : MayRequest(m)} :
          /\ Ports[i] = NULL
          /\ Ports' = [Ports EXCEPT ![i] = RESERVED]
          /\ work' = [work EXCEPT !["control"] =
               [at |-> IF auto THEN "reservedAuto" ELSE "reserved",
                pair |-> NULL, slot |-> i, number |-> n]]
  BY DEF Reserve
<1>2. PICK n \in Number :
          /\ \A p \in Listed : pair[p].number # n
          /\ Ports[i] = NULL
          /\ Ports' = [Ports EXCEPT ![i] = RESERVED]
          /\ work' = [work EXCEPT !["control"] =
               [at |-> IF auto THEN "reservedAuto" ELSE "reserved",
                pair |-> NULL, slot |-> i, number |-> n]]
  BY <1>1 DEF Chosen, FreeNumbers, MayRequest
<1>3. /\ work'["control"] = [at |-> IF auto THEN "reservedAuto" ELSE "reserved",
                             pair |-> NULL, slot |-> i, number |-> n]
      /\ work'["cleanup"] = work["cleanup"]
  BY <1>2 DEF Typed, Actor
<1>4. (IF auto THEN "reservedAuto" ELSE "reserved") \in Reserving
  BY DEF Reserving
<1>5. /\ work'["control"].at = (IF auto THEN "reservedAuto" ELSE "reserved")
      /\ work'["control"].pair = NULL
      /\ work'["control"].slot = i /\ work'["control"].number = n
  BY <1>3
<1> QED  BY <1>2, <1>3, <1>4, <1>5

\* The handles' steps change no more of a structure than its open flags and its
\* references, and free it only with the last one.
LEMMA HandleKeeps ==
  ASSUME Typed, NEW h \in Handle, NEW p \in Pair,
         OpenCheck(h) \/ IoBegin(h) \/ CloseCom(h) \/ CloseCompanion(h) \/ Callback(h)
  PROVE  /\ pair'[p].number = pair[p].number /\ pair'[p].Active = pair[p].Active
         /\ pair'[p].locks = pair[p].locks
         /\ \/ pair'[p].memory = pair[p].memory
            \/ /\ CloseRelease(h) /\ file[h].pair = p
               /\ pair[p].RefCount = 1 /\ pair'[p].memory = "freed"
<1>1. pair \in [Pair -> Structure] /\ pair[p] \in Structure
  BY DEF Typed
<1>2. CASE CloseCom(h) \/ CloseCompanion(h)
  BY <1>1, <1>2 DEF CloseCom, CloseCompanion, Structure
<1>3. CASE OpenClaim(h)
  <2>1. CASE UNCHANGED pair
    BY <2>1
  <2>2. CASE pair' = [pair EXCEPT ![file[h].pair].open = @ \union {file[h].side},
                                  ![file[h].pair].RefCount = @ + 1]
    <3>1. PICK A, n : pair' = [pair EXCEPT ![file[h].pair].open = A, ![file[h].pair].RefCount = n]
      BY <2>2
    <3>2. pair' = [pair EXCEPT ![file[h].pair] = [@ EXCEPT !.open = A, !.RefCount = n]]
      BY <3>1, ClaimUpdate
    <3>3. pair'[p] = pair[p] \/ pair'[p] = [pair[p] EXCEPT !.open = A, !.RefCount = n]
      BY <1>1, <3>2
    <3> QED  BY <1>1, <3>3 DEF Structure
  <2> QED  BY <1>3, <2>1, <2>2 DEF OpenClaim
<1>4. CASE CloseRelease(h)
  <2>1. pair' = [pair EXCEPT ![file[h].pair] = Released(@)]
    BY <1>4 DEF CloseRelease, Releases
  <2>2. file[h].pair # p => pair'[p] = pair[p]
    BY <1>1, <2>1
  <2>3. file[h].pair = p => pair'[p] = Released(pair[p])
    BY <1>1, <2>1
  <2>4. Released(pair[p]).memory = IF pair[p].RefCount = 1 THEN "freed" ELSE pair[p].memory
    BY <1>1 DEF Released, Freed, Dropped, Structure
  <2>5. /\ Released(pair[p]).number = pair[p].number /\ Released(pair[p]).Active = pair[p].Active
        /\ Released(pair[p]).locks = pair[p].locks
    BY <1>1 DEF Released, Freed, Dropped, Structure
  <2> QED  BY <1>4, <2>2, <2>3, <2>4, <2>5
<1>5. CASE UNCHANGED pair
  BY <1>5
<1> QED  BY <1>2, <1>3, <1>4, <1>5 DEF OpenCheck, IoBegin, Callback, OpenSignal, IoSnapshot,
                                       IoUse, CloseCheck, CloseSnapshot, CloseNotify

\* A structure never used is nobody's.
LEMMA UnusedIsFree ==
  ASSUME OwnerInv, NEW p \in Pair, pair[p].memory = "unused"
  PROVE  ~InTable(p) /\ p \notin todo /\ \A a \in Actor : work[a].pair # p
BY DEF OwnerInv, Owned, InTable, Actor

LEMMA WorkStep ==
  ASSUME Typed, WorkInv, OwnerInv, [Next]_vars
  PROVE  WorkInv'
<1>0. Actor = {"control", "cleanup"}
  BY DEF Actor
<1>1. ASSUME NEW to, Goes("control", to), todo' = todo, to \in Bare <=> work["control"].at \in Bare,
             work["control"].at \in Published => to \in Published,
             to \in ControlAt \union DestroyAt \union {"stopped"}
      PROVE  WorkInv'
  BY <1>0, <1>1, GoesEffect DEF WorkInv
<1>2. ASSUME NEW to, Goes("cleanup", to), to # "idle", to \in Bare <=> work["cleanup"].at \in Bare,
             to \in {"idle", "next", "stopped"} \union DestroyAt
      PROVE  WorkInv'
  BY <1>0, <1>2, GoesEffect DEF WorkInv
<1>3. ASSUME NEW to, NEW p, work' = [work EXCEPT !["control"].at = to, !["control"].pair = p],
             p = NULL <=> to \in Bare, p # NULL => p # work["cleanup"].pair, todo' = todo,
             to \in ControlAt \union DestroyAt \union {"stopped"}
      PROVE  WorkInv'
  <2>1. "control" \in Actor /\ "cleanup" \in Actor \ {"control"}
    BY <1>0
  <2>2. /\ work'["control"].at = to /\ work'["control"].pair = p
        /\ work'["cleanup"] = work["cleanup"]
    BY <1>3, <2>1 DEF Typed, Job
  <2> QED  BY <1>0, <1>3, <2>2 DEF WorkInv
<1>4. ASSUME NEW to, NEW p, work' = [work EXCEPT !["cleanup"].at = to, !["cleanup"].pair = p],
             p = NULL <=> to \in Bare,
             p # NULL /\ p = work["control"].pair => work["control"].at \in Published,
             to \in {"next", "stopped"} \union DestroyAt
      PROVE  WorkInv'
  <2>1. /\ work'["cleanup"].at = to /\ work'["cleanup"].pair = p
        /\ work'["control"] = work["control"]
    <3>1. work' = [work EXCEPT !["cleanup"].at = to, !["cleanup"].pair = p]
      BY <1>4
    <3> QED  BY <1>0, <3>1, HoldsEffect
  <2> QED  BY <1>0, <1>4, <2>1 DEF WorkInv, DestroyAt
<1>5. CASE Reserve
  BY <1>0, <1>5, ReserveEffect DEF Reserve, WorkInv, Reserving, Bare, ControlAt
<1>6. CASE Allocate
  <2>1. PICK p \in Pair :
           /\ pair[p].memory = "unused"
           /\ work' = [work EXCEPT !["control"].at = "allocated", !["control"].pair = p]
    BY <1>6 DEF Allocate
  <2>2. todo' = todo
    BY <1>6 DEF Allocate
  <2>3. p # NULL /\ p # work["cleanup"].pair
    BY <1>0, <2>1, UnusedIsFree, SentinelAssumption
  <2> QED  BY <1>3, <2>1, <2>2, <2>3 DEF Bare, Reserving, ControlAt
<1>7. CASE AllocateFails
  BY <1>1, <1>7 DEF AllocateFails, Bare, Reserving, ControlAt, Published, Listing
<1>8. CASE Publish
  BY <1>1, <1>8 DEF Publish, Bare, Reserving, ControlAt, Published, Listing
<1>9. CASE Respond \/ Discard
  BY <1>3, <1>9 DEF Respond, Discard, Bare, Reserving, ControlAt
<1>10. ASSUME NEW s \in Side, CreateDevice(s) PROVE WorkInv'
  BY <1>1, <1>10 DEF CreateDevice, Side, Bare, Reserving, ControlAt, Published, Listing
<1>11. ASSUME NEW s \in Side, FinishDevice(s) PROVE WorkInv'
  BY <1>1, <1>11 DEF FinishDevice, Bare, Reserving, ControlAt, Published, Listing
<1>12. CASE UndoCom \/ Unlist
  BY <1>1, <1>12 DEF UndoCom, Unlist, Bare, Reserving, ControlAt, Published, Listing
<1>13. CASE DestroyTake
  <2>1. PICK p \in Listed :
          work' = [work EXCEPT !["control"].at = "taken", !["control"].pair = p]
    BY <1>13 DEF DestroyTake
  <2>2. p \in Pair /\ InTable(p) /\ todo' = todo
    BY <1>13 DEF DestroyTake, Listed, InTable
  <2>3. p # work["cleanup"].pair
    BY <1>0, <2>2, SentinelAssumption DEF WorkInv, OwnerInv, Apart, Bare, Reserving
  <2> QED  BY <1>3, <2>1, <2>2, <2>3, SentinelAssumption DEF Bare, Reserving, DestroyAt
<1>14. CASE CleanupTake
  BY <1>2, <1>14 DEF CleanupTake, Bare, Reserving
<1>15. CASE CleanupNext
  <2>1. PICK p \in todo :
          work' = [work EXCEPT !["cleanup"].at = "taken", !["cleanup"].pair = p]
    BY <1>15 DEF CleanupNext
  <2>2. p \in Pair /\ (p = work["control"].pair => work["control"].at \in Published)
    BY DEF OwnerInv, Apart, Typed
  <2> QED  BY <1>4, <2>1, <2>2, SentinelAssumption DEF Bare, Reserving, DestroyAt
<1>16. CASE CleanupEnd
  <2>1. \A a \in Actor : work'[a].at = "stopped" /\ work'[a].pair = work[a].pair
    BY <1>16 DEF CleanupEnd, Typed, Job
  <2>2. \A a \in Actor : work[a].pair = NULL
    BY <1>0, <1>16 DEF CleanupEnd, WorkInv, Bare
  <2> QED  BY <1>0, <2>1, <2>2 DEF WorkInv, Bare
<1>17. ASSUME NEW a \in Actor, Deactivate(a) \/ DetachQueues(a) \/ DeleteFirst(a)
                                \/ DeleteSecond(a) \/ DeleteLocks(a)
       PROVE  WorkInv'
  <2>1. PICK to \in DestroyAt : Goes(a, to) /\ work[a].at \in DestroyAt /\ todo' = todo
    BY <1>17 DEF Deactivate, DetachQueues, DeleteFirst, DeleteSecond, DeleteLocks, DestroyAt
  <2>2. to \notin Bare /\ work[a].at \notin Bare \union Published /\ to # "idle"
    BY <2>1 DEF DestroyAt, Bare, Reserving, Published, Listing
  <2> QED  BY <1>0, <1>1, <1>2, <2>1, <2>2
<1>18. ASSUME NEW a \in Actor, ReleaseCreation(a) PROVE WorkInv'
  BY <1>0, <1>3, <1>4, <1>18 DEF ReleaseCreation, Bare, ControlAt
<1>19. CASE UNCHANGED <<work, todo>>
  BY <1>19 DEF WorkInv
<1> QED
  BY <1>5, <1>6, <1>7, <1>8, <1>9, <1>10, <1>11, <1>12, <1>13, <1>14, <1>15, <1>16, <1>17,
     <1>18, <1>19, HandleFrame DEF Next, vars, Create, Cleanup, Destroy

\* What becomes of the table when an entry that is no pair's is set, when a
\* pair is put in it, when its entry is cleared, and when pairs are taken out.
LEMMA EntrySet ==
  ASSUME Typed, OneEntry, NEW i \in Slot, NEW x, x \notin Pair, Ports[i] \notin Pair,
         Ports' = [Ports EXCEPT ![i] = x]
  PROVE  OneEntry' /\ \A p \in Pair : InTable(p)' <=> InTable(p)
<1>1. \A j \in Slot : Ports'[j] = IF j = i THEN x ELSE Ports[j]
  BY DEF Typed
<1> QED  BY <1>1 DEF OneEntry, InTable

LEMMA EntryPut ==
  ASSUME Typed, OneEntry, NEW i \in Slot, NEW q \in Pair, Ports[i] \notin Pair, ~InTable(q),
         Ports' = [Ports EXCEPT ![i] = q]
  PROVE  OneEntry' /\ \A p \in Pair : InTable(p)' <=> InTable(p) \/ p = q
<1>1. \A j \in Slot : Ports'[j] = IF j = i THEN q ELSE Ports[j]
  BY DEF Typed
<1> QED  BY <1>1 DEF OneEntry, InTable

LEMMA EntryDropped ==
  ASSUME Typed, OneEntry, NEW i \in Slot, NEW q \in Pair, Ports[i] = q,
         Ports' = [Ports EXCEPT ![i] = NULL]
  PROVE  OneEntry' /\ \A p \in Pair : InTable(p)' <=> InTable(p) /\ p # q
<1>1. \A j \in Slot : Ports'[j] = IF j = i THEN NULL ELSE Ports[j]
  BY DEF Typed
<1> QED  BY <1>1, SentinelAssumption DEF OneEntry, InTable

LEMMA TakenOut ==
  ASSUME Typed, OneEntry, NEW S \in SUBSET Pair, Ports' = Without(S)
  PROVE  OneEntry' /\ \A p \in Pair : InTable(p)' <=> InTable(p) /\ p \notin S
<1>1. \A j \in Slot : Ports'[j] = IF Ports[j] \in S THEN NULL ELSE Ports[j]
  BY DEF Without
<1> QED  BY <1>1, SentinelAssumption DEF OneEntry, InTable

\* A destruction changes its own pair, and no number.
LEMMA DestroyKeeps ==
  ASSUME Typed, NEW a \in Actor, Destroy(a)
  PROVE  \A q \in Pair : /\ pair'[q].number = pair[q].number
                         /\ pair'[q].Active => pair[q].Active
                         /\ q # work[a].pair => pair'[q] = pair[q]
<1> SUFFICES ASSUME NEW q \in Pair
             PROVE  /\ pair'[q].number = pair[q].number
                    /\ pair'[q].Active => pair[q].Active
                    /\ q # work[a].pair => pair'[q] = pair[q]
  OBVIOUS
<1>1. pair \in [Pair -> Structure] /\ pair[q] \in Structure
  BY DEF Typed
<1>2. CASE UNCHANGED pair
  BY <1>2
<1>3. CASE Deactivate(a)
  BY <1>1, <1>3 DEF Deactivate, Structure
<1>4. CASE DetachQueues(a)
  BY <1>1, <1>4 DEF DetachQueues, Structure
<1>5. CASE DeleteLocks(a)
  BY <1>1, <1>5 DEF DeleteLocks, Structure
<1>6. CASE ReleaseCreation(a)
  BY <1>1, <1>6 DEF ReleaseCreation, Released, Freed, Dropped, Structure
<1> QED  BY <1>2, <1>3, <1>4, <1>5, <1>6 DEF Destroy, DeleteFirst, DeleteSecond

LEMMA EntryStep ==
  ASSUME Typed, WorkInv, EntryInv, OwnerInv, [Next]_vars
  PROVE  EntryInv'
<1>0. Actor = {"control", "cleanup"}
  BY DEF Actor
<1>1. CASE Reserve
  <2>1. PICK i \in Slot, n \in Number, to \in Reserving :
           /\ Ports' = [Ports EXCEPT ![i] = RESERVED]
           /\ work'["control"].at = to
           /\ work'["control"].slot = i /\ work'["control"].number = n
    BY <1>1, ReserveEffect
  <2>2. Ports'[i] = RESERVED
    BY <2>1 DEF Typed
  <2> QED  BY <2>1, <2>2 DEF EntryInv, Creating, Published, Listing, Reserving
<1>2. CASE Allocate
  <2>1. PICK p \in Pair :
           /\ pair' = [pair EXCEPT ![p] =
                [memory |-> "allocated", number |-> control.number, Active |-> TRUE,
                 RefCount |-> 1, open |-> {}, locks |-> TRUE, queues |-> {}]]
           /\ work' = [work EXCEPT !["control"].at = "allocated", !["control"].pair = p]
    BY <1>2 DEF Allocate
  <2>2. pair'[p].number = control.number /\ pair'[p].Active
    BY <2>1 DEF Typed
  <2>3. /\ control'.at = "allocated" /\ control'.pair = p /\ control'.slot = control.slot
        /\ control'.number = control.number
    BY <1>0, <2>1, HoldsEffect
  <2>4. /\ control.number \in Number /\ control.slot \in Slot
        /\ Ports[control.slot] = RESERVED /\ Ports' = Ports
    BY <1>2 DEF Allocate, EntryInv, Creating, Published, Reserving
  <2> QED  BY <2>2, <2>3, <2>4 DEF EntryInv, Creating, Published, Listing, Reserving
<1>3. ASSUME control'.at \in ControlAt \union DestroyAt \union {"stopped"},
             control'.at \notin Creating PROVE EntryInv'
  BY <1>3 DEF EntryInv, Creating, Published
<1>4. CASE AllocateFails \/ Respond \/ Discard
  <2>1. control'.at = "idle"
    BY <1>0, <1>4, GoesEffect, HoldsEffect DEF AllocateFails, Respond, Discard
  <2> QED  BY <1>3, <2>1 DEF Creating, Published, Reserving, Listing, ControlAt
<1>5. CASE Publish
  <2>1. /\ control'.at = "Com" /\ control'.pair = control.pair /\ control'.slot = control.slot
        /\ control'.number = control.number
    BY <1>0, <1>5, GoesEffect DEF Publish
  <2>2. control.slot \in Slot /\ Ports' = [Ports EXCEPT ![control.slot] = control.pair]
        /\ pair' = pair
    BY <1>5 DEF Publish, EntryInv, Creating, Published
  <2>3. Ports'[control.slot] = control.pair
    BY <2>2 DEF Typed
  <2>4. InTable(control.pair)' /\ control.at = "allocated"
    BY <1>5, <2>1, <2>2, <2>3 DEF InTable, Publish
  <2> QED  BY <2>1, <2>2, <2>3, <2>4 DEF EntryInv, Creating, Published, Listing, Reserving
<1>6. ASSUME NEW to \in Listing \union {"discard"}, Goes("control", to), control.at \in Listing,
             to # "discard" => Ports' = Ports,
             pair'[control.pair].number = pair[control.pair].number
      PROVE  EntryInv'
  <2>1. /\ control'.at = to /\ control'.pair = control.pair /\ control'.slot = control.slot
        /\ control'.number = control.number
    BY <1>0, <1>6, GoesEffect
  <2>2. control.at \in Creating \ Reserving /\ control.at # "discard"
    BY <1>6 DEF Listing, Creating, Published, Reserving
  <2>3. to # "discard" => InTable(control.pair)' <=> InTable(control.pair)
    BY <1>6, <2>1 DEF InTable
  <2> QED  BY <1>6, <2>1, <2>2, <2>3 DEF EntryInv, Listing, Creating, Published, Reserving
<1>7. ASSUME NEW s \in Side, CreateDevice(s) PROVE EntryInv'
  <2>1. PICK to \in Listing : Goes("control", to) /\ control.at \in Listing
    BY <1>7 DEF CreateDevice, Listing, Side
  <2> QED  BY <1>6, <1>7, <2>1 DEF CreateDevice, Listing
<1>8. ASSUME NEW s \in Side, FinishDevice(s) PROVE EntryInv'
  <2>1. PICK to \in Listing : Goes("control", to) /\ control.at \in Listing
    BY <1>8 DEF FinishDevice, Listing, Side
  <2>2. PICK S : pair' = [pair EXCEPT ![control.pair].queues = S]
    BY <1>8 DEF FinishDevice
  <2>3. pair'[control.pair].number = pair[control.pair].number
    BY <2>2 DEF Typed, Structure
  <2> QED  BY <1>6, <1>8, <2>1, <2>3 DEF FinishDevice, Listing
<1>9. CASE UndoCom
  BY <1>6, <1>9 DEF UndoCom, Listing
<1>10. CASE Unlist
  BY <1>6, <1>10 DEF Unlist, Listing
<1>11. CASE DestroyTake
  <2>1. control'.at = "taken"
    BY <1>0, <1>11, HoldsEffect DEF DestroyTake
  <2> QED  BY <1>3, <2>1 DEF Creating, Published, Reserving, Listing, DestroyAt
<1>12. CASE CleanupTake
  <2>1. control' = control /\ pair' = pair /\ Ports' = Without(Listed)
    BY <1>0, <1>12, GoesEffect DEF CleanupTake
  <2>2. \A q \in Pair : InTable(q)' <=> InTable(q) /\ q \notin Listed
    BY <2>1, TakenOut DEF OwnerInv, Listed
  <2>3. \A i \in Slot : Ports'[i] = IF Ports[i] \in Listed THEN NULL ELSE Ports[i]
    BY <2>1 DEF Without
  <2>4. control.at \in Reserving \union {"allocated"} => Ports'[control.slot] = RESERVED
    BY <2>3, SentinelAssumption DEF EntryInv, Creating, Published, Reserving, Listed
  <2>5. control.at \in Listing =>
          Ports'[control.slot] = IF InTable(control.pair)' THEN control.pair ELSE NULL
    <3>1. control.at \in Listing => control.pair \in Pair /\ control.slot \in Slot
      BY <1>0, Held DEF EntryInv, Creating, Published, Listing, Reserving, Bare
    <3> QED  BY <2>1, <2>2, <2>3, <3>1, SentinelAssumption DEF EntryInv, Listed
  <2> QED  BY <2>1, <2>4, <2>5 DEF EntryInv
<1>13. CASE CleanupNext
  <2>1. control' = control /\ UNCHANGED <<Ports, pair>>
    <3>1. PICK q : work' = [work EXCEPT !["cleanup"].at = "taken", !["cleanup"].pair = q]
      BY <1>13 DEF CleanupNext
    <3> QED  BY <1>0, <1>13, <3>1, HoldsEffect DEF CleanupNext
  <2> QED  BY <2>1 DEF EntryInv, InTable
<1>14. CASE CleanupEnd
  <2>1. control'.at = "stopped"
    BY <1>0, <1>14 DEF CleanupEnd, Typed, Job
  <2> QED  BY <1>3, <2>1 DEF Creating, Published, Reserving, Listing
\* A destruction by the control thread is no creation; one by the cleanup is of a
\* pair that is not in the table.
<1>15. ASSUME NEW a \in Actor, Destroy(a) PROVE EntryInv'
  <2> DEFINE p == work[a].pair
  <2>1. /\ work[a].at \in DestroyAt
        /\ \E to \in DestroyAt \union {IF a = "control" THEN "idle" ELSE "next"} :
             Goes(a, to) \/ work' = [work EXCEPT ![a].at = to, ![a].pair = NULL]
    BY <1>15 DEF Destroy, Deactivate, DetachQueues, DeleteFirst, DeleteSecond, DeleteLocks,
                 ReleaseCreation, DestroyAt
  <2>2. CASE a = "control"
    <3>1. control'.at \in DestroyAt \union {"idle"}
      BY <2>1, <2>2, GoesEffect, HoldsEffect
    <3> QED  BY <1>3, <3>1 DEF Creating, Published, Reserving, Listing, ControlAt, DestroyAt
  <2>3. CASE a = "cleanup"
    <3>1. control' = control
      BY <1>0, <2>1, <2>3, GoesEffect, HoldsEffect
    <3>2. p \in Pair /\ ~InTable(p)
      BY <1>0, <2>1, <2>3, Held DEF OwnerInv, Apart, DestroyAt, Bare, Reserving
    <3>3. Ports' = Ports
      <4>1. Without({p}) = Ports
        BY <3>2 DEF Without, InTable, Typed
      <4> QED  BY <1>15, <4>1 DEF Destroy, Deactivate, DetachQueues, DeleteFirst,
                                  DeleteSecond, DeleteLocks, ReleaseCreation
    <3>4. \A q \in Pair : /\ pair'[q].number = pair[q].number
                          /\ q # p => pair'[q] = pair[q]
      BY <1>15, DestroyKeeps
    <3>5. control.at \in Creating \ Reserving => control.pair \in Pair
      <4>1. control.at \in Creating \ Reserving => control.at \notin Bare
        BY DEF Creating, Published, Reserving, Listing, Bare
      <4> QED  BY <1>0, <4>1, Held
    <3>6. control.at = "allocated" => control.pair # p
      BY <2>3, <3>2, SentinelAssumption DEF WorkInv, Published, Listing
    <3>7. InTable(control.pair)' <=> InTable(control.pair)
      BY <3>1, <3>3 DEF InTable
    <3>8. control.at \in Creating \ Reserving => pair'[control.pair].number = pair[control.pair].number
      BY <3>4, <3>5
    <3>9. control.at = "allocated" => pair'[control.pair].Active = pair[control.pair].Active
      BY <3>4, <3>5, <3>6 DEF Creating, Reserving
    <3> QED  BY <3>1, <3>3, <3>7, <3>8, <3>9 DEF EntryInv
  <2> QED  BY <1>0, <2>2, <2>3
\* Handles do not change what the creation keeps of its pair.
<1>16. ASSUME NEW h \in Handle,
              OpenCheck(h) \/ IoBegin(h) \/ CloseCom(h) \/ CloseCompanion(h) \/ Callback(h)
       PROVE  EntryInv'
  <2>1. UNCHANGED <<Ports, work>>
    BY <1>16, HandleFrame
  <2>2. \A p \in Pair : /\ pair'[p].number = pair[p].number
                        /\ pair'[p].Active = pair[p].Active
    BY <1>16, HandleKeeps
  <2>3. control.at \in Creating \ Reserving => control.pair \in Pair
    <3>1. control.at \in Creating \ Reserving => control.at \notin Bare
      BY DEF Creating, Published, Reserving, Listing, Bare
    <3> QED  BY <1>0, <3>1, Held
  <2>4. InTable(control.pair)' <=> InTable(control.pair)
    BY <2>1 DEF InTable
  <2> QED  BY <2>1, <2>2, <2>3, <2>4 DEF EntryInv, Creating, Published, Reserving
<1>17. CASE UNCHANGED vars
  BY <1>17 DEF vars, EntryInv, InTable
<1> QED
  BY <1>1, <1>2, <1>4, <1>5, <1>7, <1>8, <1>9, <1>10, <1>11, <1>12, <1>13, <1>14, <1>15,
     <1>16, <1>17 DEF Next, Create, Cleanup

-----------------------------------------------------------------------------
(* Who answers for a pair.                                                 *)

\* The control thread's and the cleanup's steps but the three that allocate or
\* free.
Quiet ==
  \/ Reserve \/ AllocateFails \/ Publish \/ Respond \/ UndoCom \/ Unlist
  \/ \E s \in Side : CreateDevice(s) \/ FinishDevice(s)
  \/ DestroyTake \/ Cleanup
  \/ \E a \in Actor : Deactivate(a) \/ DetachQueues(a) \/ DeleteFirst(a)
                       \/ DeleteSecond(a) \/ DeleteLocks(a)

\* They leave handles and references alone.
LEMMA QuietKeeps ==
  ASSUME Typed, Quiet
  PROVE  /\ file' = file
         /\ \A p \in Pair :
              /\ pair'[p].memory = pair[p].memory /\ pair'[p].number = pair[p].number
              /\ pair'[p].RefCount = pair[p].RefCount /\ pair'[p].open = pair[p].open
              /\ \/ pair'[p].Active = pair[p].Active
                 \/ /\ ~pair'[p].Active
                    /\ \E a \in Actor : work[a].at = "taken" /\ work[a].pair = p
              /\ \/ pair'[p].locks = pair[p].locks
                 \/ \E a \in Actor : work[a].at = "bothDeleted" /\ work[a].pair = p
<1>1. pair \in [Pair -> Structure]
  BY DEF Typed
<1>2. file' = file
  BY DEF Quiet, Reserve, AllocateFails, Publish, Respond, UndoCom, Unlist, CreateDevice,
         FinishDevice, DestroyTake, Cleanup, CleanupTake, CleanupNext, CleanupEnd,
         Deactivate, DetachQueues, DeleteFirst, DeleteSecond, DeleteLocks
<1>3. \/ UNCHANGED pair
      \/ \E q, S : pair' = [pair EXCEPT ![q].queues = S]
      \/ \E a \in Actor : Deactivate(a) \/ DeleteLocks(a)
  BY DEF Quiet, Reserve, AllocateFails, Publish, Respond, UndoCom, Unlist, CreateDevice,
         FinishDevice, DestroyTake, Cleanup, CleanupTake, CleanupNext, CleanupEnd,
         DetachQueues, DeleteFirst, DeleteSecond
<1> SUFFICES ASSUME NEW p \in Pair
             PROVE  /\ pair'[p].memory = pair[p].memory /\ pair'[p].number = pair[p].number
                    /\ pair'[p].RefCount = pair[p].RefCount /\ pair'[p].open = pair[p].open
                    /\ \/ pair'[p].Active = pair[p].Active
                       \/ /\ ~pair'[p].Active
                          /\ \E a \in Actor : work[a].at = "taken" /\ work[a].pair = p
                    /\ \/ pair'[p].locks = pair[p].locks
                       \/ \E a \in Actor : work[a].at = "bothDeleted" /\ work[a].pair = p
  BY <1>2
<1>4. CASE UNCHANGED pair
  BY <1>4
<1>5. ASSUME NEW q, NEW S, pair' = [pair EXCEPT ![q].queues = S]
      PROVE  \E T : pair'[p] = pair[p] \/ pair'[p] = [pair[p] EXCEPT !.queues = T]
  BY <1>1, <1>5
<1>6. ASSUME NEW a \in Actor, Deactivate(a)
      PROVE  /\ work[a].at = "taken"
             /\ IF p = work[a].pair THEN pair'[p] = [pair[p] EXCEPT !.Active = FALSE]
                ELSE pair'[p] = pair[p]
  BY <1>1, <1>6 DEF Deactivate
<1>7. ASSUME NEW a \in Actor, DeleteLocks(a)
      PROVE  /\ work[a].at = "bothDeleted"
             /\ IF p = work[a].pair THEN pair'[p] = [pair[p] EXCEPT !.locks = FALSE]
                ELSE pair'[p] = pair[p]
  BY <1>1, <1>7 DEF DeleteLocks
<1>8. pair[p] \in Structure
  BY <1>1
<1>9. CASE \E q, S : pair' = [pair EXCEPT ![q].queues = S]
  BY <1>5, <1>8, <1>9 DEF Structure
<1>10. CASE \E a \in Actor : Deactivate(a)
  BY <1>6, <1>8, <1>10 DEF Structure
<1>11. CASE \E a \in Actor : DeleteLocks(a)
  BY <1>7, <1>8, <1>11 DEF Structure
<1> QED  BY <1>3, <1>4, <1>9, <1>10, <1>11

\* Quiet steps hand pairs over without losing or sharing one.
LEMMA QuietOwned ==
  ASSUME Typed, WorkInv, EntryInv, OwnerInv, Quiet
  PROVE  /\ OneEntry' /\ Apart'
         /\ \A p \in Pair : /\ Owned(p)' <=> Owned(p)
                            /\ InTable(p)' => \/ InTable(p)
                                              \/ p = control.pair /\ control.at = "allocated"
<1> DEFINE c == work["control"]
           k == work["cleanup"]
           Goal == /\ OneEntry' /\ Apart'
                   /\ \A p \in Pair : /\ Owned(p)' <=> Owned(p)
                                      /\ InTable(p)' => \/ InTable(p)
                                                        \/ p = c.pair /\ c.at = "allocated"
<1>0. Actor = {"control", "cleanup"} /\ "control" \in Actor /\ "cleanup" \in Actor
  BY DEF Actor
<1>a. ASSUME NEW p \in Pair
      PROVE  /\ Owned(p) <=> \/ InTable(p) \/ p \in todo \/ k.pair = p
                             \/ c.pair = p /\ (c.at \in DestroyAt \/ pair[p].Active)
             /\ Owned(p)' <=> \/ InTable(p)' \/ p \in todo' \/ k'.pair = p
                              \/ c'.pair = p /\ (c'.at \in DestroyAt \/ pair'[p].Active)
  BY DEF Owned, InTable
<1>b. /\ OneEntry /\ Apart
      /\ c.at \in DestroyAt \union {"allocated", "discard"} => ~InTable(c.pair)
      /\ k.at \in DestroyAt => ~InTable(k.pair)
      /\ \A p \in todo : /\ p \in Pair /\ ~InTable(p) /\ k.pair # p
                         /\ c.pair = p => c.at \in Published
      /\ c.pair \in Pair \union {NULL} /\ k.pair \in Pair \union {NULL}
      /\ \A p \in Pair : InTable(p) => pair[p].Active
      /\ k.at \in {"idle", "next", "stopped"} \union DestroyAt
  BY <1>0, Held DEF OwnerInv, Apart, WorkInv, Typed
<1>c. ASSUME OneEntry',
             c'.at \in DestroyAt \union {"allocated", "discard"} => ~(InTable(c.pair)'),
             k'.at \in DestroyAt \union {"allocated", "discard"} => ~(InTable(k.pair)'),
             c'.pair = c.pair, k'.pair = k.pair, todo' = todo,
             c'.at \in DestroyAt <=> c.at \in DestroyAt, c.at \in Published => c'.at \in Published,
             \A p \in Pair : InTable(p)' <=> InTable(p)
      PROVE  Goal
  <2>1. Apart'
    BY <1>0, <1>b, <1>c DEF Apart, Typed
  <2>2. ASSUME NEW p \in Pair, c.pair = p, k.pair # p, c.at \notin DestroyAt
        PROVE  pair'[p].Active <=> pair[p].Active
    <3>1. ~\E a \in Actor : work[a].at = "taken" /\ work[a].pair = p
      BY <1>0, <2>2 DEF DestroyAt
    <3> QED  BY <3>1, QuietKeeps
  <2> QED  BY <1>a, <1>c, <2>1, <2>2
<1>1. CASE Reserve
  <2>1. PICK i \in Slot, n \in Number, to \in Reserving :
           /\ Ports[i] = NULL
           /\ Ports' = [Ports EXCEPT ![i] = RESERVED]
           /\ c'.at = to /\ c'.pair = NULL /\ k' = k
    BY <1>1, ReserveEffect
  <2>2. OneEntry' /\ \A p \in Pair : InTable(p)' <=> InTable(p)
    BY <1>b, <2>1, EntrySet, SentinelAssumption
  <2>3. todo' = todo /\ c.at = "idle"
    BY <1>1 DEF Reserve
  <2>4. c.pair = NULL
    BY <1>0, <2>3 DEF WorkInv, Bare
  <2>5. /\ c'.at \notin DestroyAt \union {"allocated", "discard"}
        /\ c.at \notin DestroyAt \union Published
    BY <2>1, <2>3 DEF Reserving, DestroyAt, Published, Listing
  <2>6. k'.at \in DestroyAt \union {"allocated", "discard"} => ~(InTable(k.pair)')
    <3>1. k'.at \in DestroyAt \union {"allocated", "discard"} => k.at \in DestroyAt /\ k.pair \in Pair
      BY <1>0, <1>b, <2>1, Held DEF DestroyAt, Bare, Reserving
    <3> QED  BY <1>b, <2>1, <2>2, <3>1
  <2> QED  BY <1>c, <2>1, <2>2, <2>3, <2>4, <2>5, <2>6
\* Where the table's pairs and what is held stay the same.
<1>d. ASSUME OneEntry', \A p \in Pair : InTable(p)' <=> InTable(p),
             NEW a \in Actor, NEW to, Goes(a, to), todo' = todo,
             to \in DestroyAt \union {"allocated", "discard"} =>
               work[a].at \in DestroyAt \union {"allocated", "discard"},
             to \in DestroyAt <=> work[a].at \in DestroyAt,
             a = "control" /\ work[a].at \in Published => to \in Published
      PROVE  Goal
  <2>1. c'.pair = c.pair /\ k'.pair = k.pair
    BY <1>0, <1>d, GoesEffect
  <2>2. ASSUME NEW b \in Actor, work'[b].at \in DestroyAt \union {"allocated", "discard"}
        PROVE  ~(InTable(work[b].pair)')
    <3>1. work[b].at \in DestroyAt \union {"allocated", "discard"}
      BY <1>d, <2>2, GoesEffect
    <3>2. work[b].pair \in Pair
      BY <3>1, Held DEF DestroyAt, Bare, Reserving
    <3> QED  BY <1>b, <1>d, <3>1, <3>2, GoesEffect DEF Apart
  <2>3. /\ c'.at \in DestroyAt <=> c.at \in DestroyAt
        /\ c.at \in Published => c'.at \in Published
    BY <1>0, <1>d, GoesEffect
  <2> QED  BY <1>0, <1>c, <1>d, <2>1, <2>2, <2>3
<1>e. Ports' = Ports => OneEntry' /\ \A p \in Pair : InTable(p)' <=> InTable(p)
  BY <1>b DEF OneEntry, InTable
<1>2. CASE AllocateFails
  <2>1. Ports[c.slot] \notin Pair /\ c.slot \in Slot /\ Ports' = [Ports EXCEPT ![c.slot] = NULL]
    BY <1>2, SentinelAssumption DEF AllocateFails, EntryInv, Creating, Published, Reserving
  <2>2. OneEntry' /\ \A p \in Pair : InTable(p)' <=> InTable(p)
    BY <1>b, <2>1, EntrySet, SentinelAssumption
  <2> QED  BY <1>0, <1>2, <1>d, <2>2 DEF AllocateFails, DestroyAt, Published, Listing
<1>3. CASE Publish
  <2>1. c.pair \in Pair /\ c.slot \in Slot /\ Ports[c.slot] \notin Pair
    BY <1>0, <1>3, Held, SentinelAssumption DEF Publish, EntryInv, Creating, Published, Bare, Reserving
  <2>2. ~InTable(c.pair) /\ c.at = "allocated"
    BY <1>3, <1>b DEF Publish
  <2>3. OneEntry' /\ \A p \in Pair : InTable(p)' <=> InTable(p) \/ p = c.pair
    BY <1>3, <1>b, <2>1, <2>2, EntryPut DEF Publish
  <2>4. /\ c'.at = "Com" /\ c'.pair = c.pair /\ k' = k /\ todo' = todo /\ pair' = pair
        /\ pair[c.pair].Active
    BY <1>0, <1>3, GoesEffect DEF Publish, EntryInv
  <2>5. k.at \in DestroyAt => ~(InTable(k.pair)')
    <3>1. k.at \in DestroyAt => k.pair \in Pair
      BY <1>0, Held DEF DestroyAt, Bare, Reserving
    <3>2. k.pair # c.pair
      BY <2>1, <2>2, SentinelAssumption DEF WorkInv, Published, Listing
    <3> QED  BY <1>b, <2>1, <2>3, <2>4, <3>1, <3>2
  <2>6. Apart'
    <3>1. \A p \in todo : p # c.pair
      BY <1>b, <2>2 DEF Published, Listing
    <3> QED  BY <1>0, <1>b, <2>1, <2>3, <2>4, <2>5, <3>1 DEF Apart, DestroyAt
  <2> QED  BY <1>a, <2>1, <2>2, <2>3, <2>4, <2>6
\* The pair of a creation that succeeds is the table's, or the cleanup's.
<1>4. CASE Respond
  <2>1. /\ c.pair \in Pair /\ c.at \notin DestroyAt
        /\ pair[c.pair].Active => InTable(c.pair) \/ c.pair \in todo \/ k.pair = c.pair
    BY <1>0, <1>4, Held DEF Respond, OwnerInv, Listing, Bare, Reserving, DestroyAt
  <2>2. c'.at = "idle" /\ c'.pair = NULL /\ k' = k /\ todo' = todo /\ pair' = pair
    BY <1>0, <1>4, HoldsEffect DEF Respond
  <2>3. OneEntry' /\ \A p \in Pair : InTable(p)' <=> InTable(p)
    BY <1>4, <1>e DEF Respond
  <2>4. k.at \in DestroyAt => ~(InTable(k.pair)')
    <3>1. k.at \in DestroyAt => k.pair \in Pair
      BY <1>0, Held DEF DestroyAt, Bare, Reserving
    <3> QED  BY <1>b, <2>2, <2>3, <3>1
  <2>5. Apart'
    BY <1>0, <1>b, <2>2, <2>3, <2>4, SentinelAssumption DEF Apart, DestroyAt
  <2> QED  BY <1>a, <2>1, <2>2, <2>3, <2>5, SentinelAssumption
<1>5. ASSUME NEW s \in Side, CreateDevice(s) \/ FinishDevice(s) PROVE Goal
  <2>1. PICK to \in Listing : Goes("control", to) /\ Ports' = Ports /\ todo' = todo
    BY <1>5 DEF CreateDevice, FinishDevice, Listing
  <2>2. /\ to \notin DestroyAt \union {"allocated", "discard"} /\ to \in Published
        /\ c.at \notin DestroyAt
    BY <1>5 DEF Listing, DestroyAt, Published, CreateDevice, FinishDevice, Side
  <2> QED  BY <1>0, <1>d, <1>e, <2>1, <2>2
<1>6. CASE UndoCom
  BY <1>0, <1>6, <1>d, <1>e DEF UndoCom, DestroyAt, Published, Listing
<1>7. CASE Unlist
  <2>1. /\ c.pair \in Pair /\ c.slot \in Slot /\ Ports' = [Ports EXCEPT ![c.slot] = NULL]
        /\ Ports[c.slot] = IF InTable(c.pair) THEN c.pair ELSE NULL
        /\ c.at = "unlist" /\ c.at \notin DestroyAt
    BY <1>0, <1>7, Held DEF Unlist, EntryInv, Creating, Published, Listing, Bare, Reserving,
                            EntryCleared, DestroyAt
  <2>2. OneEntry' /\ \A p \in Pair : InTable(p)' <=> InTable(p) /\ p # c.pair
    <3>1. CASE InTable(c.pair)
      BY <1>b, <2>1, <3>1, EntryDropped
    <3>2. CASE ~InTable(c.pair)
      BY <1>b, <2>1, <3>2, EntrySet, SentinelAssumption
    <3> QED  BY <3>1, <3>2
  <2>3. c'.at = "discard" /\ c'.pair = c.pair /\ k' = k /\ todo' = todo /\ pair' = pair
    BY <1>0, <1>7, GoesEffect DEF Unlist
  <2>4. k.at \in DestroyAt => ~(InTable(k.pair)')
    <3>1. k.at \in DestroyAt => k.pair \in Pair
      BY <1>0, Held DEF DestroyAt, Bare, Reserving
    <3> QED  BY <1>b, <2>2, <2>3, <3>1
  <2>5. Apart'
    BY <1>0, <1>b, <2>1, <2>2, <2>3, <2>4 DEF Apart, Published, DestroyAt
  <2>6. InTable(c.pair) => pair[c.pair].Active
    BY <1>b, <2>1
  <2>7. "discard" \notin DestroyAt
    BY DEF DestroyAt
  <2> QED  BY <1>a, <2>1, <2>2, <2>3, <2>5, <2>6, <2>7
<1>8. CASE DestroyTake
  <2>1. PICK q \in Listed :
           /\ Ports' = Without({q})
           /\ work' = [work EXCEPT !["control"].at = "taken", !["control"].pair = q]
    BY <1>8 DEF DestroyTake
  <2>2. q \in Pair /\ InTable(q) /\ todo' = todo /\ c.at = "idle"
    BY <1>8 DEF Listed, InTable, DestroyTake
  <2>3. OneEntry' /\ \A p \in Pair : InTable(p)' <=> InTable(p) /\ p # q
    BY <1>b, <2>1, <2>2, TakenOut
  <2>4. c'.at = "taken" /\ c'.pair = q /\ k' = k /\ "taken" \in DestroyAt
    BY <1>0, <2>1, HoldsEffect DEF DestroyAt
  <2>5. c.pair = NULL
    BY <1>0, <2>2 DEF WorkInv, Bare
  <2>6. k.at \in DestroyAt => ~(InTable(k.pair)')
    <3>1. k.at \in DestroyAt => k.pair \in Pair
      BY <1>0, Held DEF DestroyAt, Bare, Reserving
    <3> QED  BY <1>b, <2>3, <2>4, <3>1
  <2>7. Apart'
    <3>1. \A p \in todo : p # q
      BY <1>b, <2>2
    <3> QED  BY <1>0, <1>b, <2>2, <2>3, <2>4, <2>6, <3>1 DEF Apart
  <2> QED  BY <1>a, <2>2, <2>3, <2>4, <2>5, <2>7, SentinelAssumption
<1>9. CASE CleanupTake
  <2>1. /\ Ports' = Without(Listed) /\ todo' = Listed /\ Goes("cleanup", "next")
        /\ k.at = "idle" /\ pair' = pair
    BY <1>9 DEF CleanupTake
  <2>2. OneEntry' /\ \A p \in Pair : InTable(p)' <=> InTable(p) /\ p \notin Listed
    BY <1>b, <2>1, TakenOut DEF Listed
  <2>3. k'.at = "next" /\ k'.pair = k.pair /\ c' = c
    BY <1>0, <2>1, GoesEffect
  <2>4. k.pair = NULL
    BY <1>0, <2>1 DEF WorkInv, Bare
  <2>5. Listed \subseteq Pair /\ \A p \in Pair : p \in Listed <=> InTable(p)
    BY <1>b DEF Listed, InTable
\* There is only one cleanup, with nothing left of an earlier one.
  <2>6. todo = {}
    BY <2>1 DEF WorkInv
\* Of the pairs that an actor holds only a creation's is in the table.
  <2>7. c.pair \in Listed => c.at \in Published
    <3>1. c.pair \in Listed => c.at \notin DestroyAt \union {"allocated", "discard"} \union Bare
      BY <1>0, <1>b, <2>5, Held
    <3> QED  BY <3>1 DEF WorkInv, ControlAt, DestroyAt, Bare, Reserving, Published, Listing
  <2>8. c.at \in DestroyAt \union {"allocated", "discard"} => ~(InTable(c.pair)')
    <3>1. c.at \in DestroyAt \union {"allocated", "discard"} => c.pair \in Pair
      BY <1>0, Held DEF DestroyAt, Bare, Reserving
    <3> QED  BY <1>b, <2>2, <2>3, <3>1
  <2>9. Apart'
    BY <1>0, <2>1, <2>2, <2>3, <2>4, <2>5, <2>7, <2>8, SentinelAssumption DEF Apart, DestroyAt
  <2> QED  BY <1>a, <1>b, <2>1, <2>2, <2>3, <2>4, <2>5, <2>6, <2>9, SentinelAssumption
<1>10. CASE CleanupNext
  <2>1. PICK q \in todo :
           /\ todo' = todo \ {q}
           /\ work' = [work EXCEPT !["cleanup"].at = "taken", !["cleanup"].pair = q]
    BY <1>10 DEF CleanupNext
  <2>2. k'.at = "taken" /\ k'.pair = q /\ c' = c
    BY <1>0, <2>1, HoldsEffect
  <2>3. k.pair = NULL /\ Ports' = Ports /\ pair' = pair
    BY <1>0, <1>10 DEF CleanupNext, WorkInv, Bare
  <2>4. OneEntry' /\ \A p \in Pair : InTable(p)' <=> InTable(p)
    BY <1>e, <2>3
  <2>5. c.at \in DestroyAt \union {"allocated", "discard"} => ~(InTable(c.pair)')
    <3>1. c.at \in DestroyAt \union {"allocated", "discard"} => c.pair \in Pair
      BY <1>0, Held DEF DestroyAt, Bare, Reserving
    <3> QED  BY <1>b, <2>2, <2>4, <3>1
  <2>6. Apart'
    BY <1>0, <1>b, <2>1, <2>2, <2>4, <2>5 DEF Apart
  <2> QED  BY <1>a, <1>b, <2>1, <2>2, <2>3, <2>4, <2>6, SentinelAssumption
<1>11. CASE CleanupEnd
  <2>1. c'.at = "stopped" /\ c'.pair = c.pair /\ k'.at = "stopped" /\ k'.pair = k.pair
    BY <1>0, <1>11 DEF CleanupEnd, Typed, Job
  <2> QED  BY <1>11, <1>c, <1>e, <2>1 DEF CleanupEnd, DestroyAt, Published, Listing
<1>12. ASSUME NEW a \in Actor, Deactivate(a) PROVE Goal
  <2>1. work[a].pair \in Pair /\ ~InTable(work[a].pair) /\ work[a].at \in DestroyAt
    BY <1>12, <1>b, Held DEF Deactivate, Apart, DestroyAt, Bare, Reserving
  <2>2. Ports' = Without({work[a].pair}) /\ Goes(a, "inactive") /\ todo' = todo
    BY <1>12 DEF Deactivate
  <2>3. OneEntry' /\ \A p \in Pair : InTable(p)' <=> InTable(p)
    <3>1. OneEntry' /\ \A p \in Pair : InTable(p)' <=> InTable(p) /\ p \notin {work[a].pair}
      BY <1>b, <2>1, <2>2, TakenOut
    <3> QED  BY <2>1, <3>1
  <2>4. "inactive" \in DestroyAt /\ work[a].at \notin Published
    BY <2>1 DEF DestroyAt, Published, Listing
  <2> QED  BY <1>d, <2>1, <2>2, <2>3, <2>4
<1>13. ASSUME NEW a \in Actor,
              DetachQueues(a) \/ DeleteFirst(a) \/ DeleteSecond(a) \/ DeleteLocks(a)
       PROVE  Goal
  <2>1. PICK to \in DestroyAt :
           Goes(a, to) /\ work[a].at \in DestroyAt /\ todo' = todo /\ Ports' = Ports
    BY <1>13 DEF DetachQueues, DeleteFirst, DeleteSecond, DeleteLocks, DestroyAt
  <2>2. work[a].at \notin Published
    BY <2>1 DEF DestroyAt, Published, Listing
  <2> QED  BY <1>d, <1>e, <2>1, <2>2
<1> QED
  BY <1>1, <1>2, <1>3, <1>4, <1>5, <1>6, <1>7, <1>8, <1>9, <1>10, <1>11, <1>12, <1>13
     DEF Quiet, Cleanup

\* The three others: an allocation makes the control thread the owner, the ends of a
\* failed creation and of a destruction leave the pair without one.
LEMMA AllocateOwned ==
  ASSUME Typed, WorkInv, EntryInv, OwnerInv, Allocate
  PROVE  \E p \in Pair :
           /\ pair[p].memory = "unused"
           /\ pair' = [pair EXCEPT ![p] =
                [memory |-> "allocated", number |-> control.number, Active |-> TRUE,
                 RefCount |-> 1, open |-> {}, locks |-> TRUE, queues |-> {}]]
           /\ control'.at = "allocated" /\ control'.pair = p
           /\ work'["cleanup"] = work["cleanup"]
           /\ OneEntry' /\ Apart'
           /\ \A q \in Pair : /\ Owned(q)' <=> Owned(q) \/ q = p
                              /\ InTable(q)' <=> InTable(q)
<1>0. Actor = {"control", "cleanup"} /\ "control" \in Actor /\ "cleanup" \in Actor
  BY DEF Actor
<1>1. PICK p \in Pair :
        /\ pair[p].memory = "unused"
        /\ pair' = [pair EXCEPT ![p] =
             [memory |-> "allocated", number |-> control.number, Active |-> TRUE,
              RefCount |-> 1, open |-> {}, locks |-> TRUE, queues |-> {}]]
        /\ work' = [work EXCEPT !["control"].at = "allocated", !["control"].pair = p]
  BY DEF Allocate
<1>2. /\ work'["control"].at = "allocated" /\ work'["control"].pair = p
      /\ work'["cleanup"] = work["cleanup"]
  BY <1>0, <1>1 DEF Typed, Job
<1>3. Ports' = Ports /\ todo' = todo /\ control.at \in Reserving
  BY DEF Allocate, Reserving
<1>4. OneEntry' /\ \A q \in Pair : InTable(q)' <=> InTable(q)
  BY <1>3 DEF OneEntry, InTable, OwnerInv
<1>5. ~InTable(p) /\ p \notin todo /\ work["cleanup"].pair # p
  BY <1>0, <1>1, UnusedIsFree
<1>6. control.pair = NULL
  BY <1>0, <1>3 DEF WorkInv, Bare
<1>7. Apart'
  <2>1. work["cleanup"].at \in DestroyAt \union {"allocated", "discard"}
          => ~(InTable(work["cleanup"].pair)')
    <3>1. work["cleanup"].at \in DestroyAt \union {"allocated", "discard"}
            => work["cleanup"].pair \in Pair
      BY <1>0, Held DEF DestroyAt, Bare, Reserving
    <3> QED  BY <1>0, <1>2, <1>4, <3>1 DEF OwnerInv, Apart
  <2> QED  BY <1>0, <1>2, <1>3, <1>4, <1>5, <2>1 DEF Apart, OwnerInv, Typed
<1>8. \A q \in Pair : Owned(q)' <=> Owned(q) \/ q = p
  <2>1. ASSUME NEW q \in Pair
        PROVE  /\ Owned(q) <=> \/ InTable(q) \/ q \in todo \/ work["cleanup"].pair = q
                               \/ /\ control.pair = q
                                  /\ control.at \in DestroyAt \/ pair[q].Active
               /\ Owned(q)' <=> \/ InTable(q)' \/ q \in todo' \/ work'["cleanup"].pair = q
                                \/ /\ control'.pair = q
                                   /\ control'.at \in DestroyAt \/ pair'[q].Active
    BY DEF Owned, InTable
  <2>2. pair'[p].Active
    BY <1>1 DEF Typed
  <2> QED  BY <1>2, <1>3, <1>4, <1>6, <2>1, <2>2, SentinelAssumption
<1> QED  BY <1>1, <1>2, <1>4, <1>7, <1>8

LEMMA DropOwned ==
  ASSUME Typed, WorkInv, EntryInv, OwnerInv, NEW a \in Actor, NEW to \in {"idle", "next"},
         work' = [work EXCEPT ![a].at = to, ![a].pair = NULL],
         work[a].at \in {"discard", "unlocked"}, UNCHANGED <<Ports, todo>>,
         \A q \in Pair : pair'[q].Active = pair[q].Active
  PROVE  /\ work[a].pair \in Pair
         /\ OneEntry' /\ Apart'
         /\ \A q \in Pair : /\ Owned(q)' => Owned(q)
                            /\ q # work[a].pair => (Owned(q)' <=> Owned(q))
                            /\ InTable(q)' <=> InTable(q)
         /\ work[a].at = "unlocked"
              => \A q \in Pair : q = work[a].pair => Owned(q) /\ ~(Owned(q)')
<1>0. Actor = {"control", "cleanup"} /\ "control" \in Actor /\ "cleanup" \in Actor
  BY DEF Actor
<1>1. PICK b \in Actor : b # a /\ \A d \in Actor : d = a \/ d = b
  BY <1>0
<1>2. work'[a].at = to /\ work'[a].pair = NULL /\ work'[b] = work[b]
  BY <1>1 DEF Typed, Job
<1>3. work[a].pair \in Pair
  BY Held DEF Bare, Reserving
<1>4. OneEntry' /\ \A q \in Pair : InTable(q)' <=> InTable(q)
  BY DEF OneEntry, InTable, OwnerInv
<1>5. ~InTable(work[a].pair)
  BY <1>0 DEF OwnerInv, Apart, DestroyAt
<1>6. Apart'
  <2>1. work[b].at \in DestroyAt \union {"allocated", "discard"} => ~(InTable(work[b].pair)')
    <3>1. work[b].at \in DestroyAt \union {"allocated", "discard"} => work[b].pair \in Pair
      BY <1>0, Held DEF DestroyAt, Bare, Reserving
    <3> QED  BY <1>2, <1>4, <3>1 DEF OwnerInv, Apart
  <2> QED  BY <1>0, <1>1, <1>2, <1>4, <2>1, SentinelAssumption DEF Apart, OwnerInv, Typed, DestroyAt
<1>a. ASSUME NEW q \in Pair
      PROVE  /\ Owned(q) <=> \/ InTable(q) \/ q \in todo \/ work["cleanup"].pair = q
                             \/ control.pair = q /\ (control.at \in DestroyAt \/ pair[q].Active)
             /\ Owned(q)' <=> \/ InTable(q)' \/ q \in todo' \/ work'["cleanup"].pair = q
                              \/ control'.pair = q /\ (control'.at \in DestroyAt \/ pair'[q].Active)
  BY DEF Owned, InTable
<1>7. CASE a = "control"
  <2>1. control'.pair = NULL /\ work'["cleanup"] = work["cleanup"]
    BY <1>0, <1>1, <1>2, <1>7
  <2>2. \A q \in Pair : (Owned(q)' => Owned(q)) /\ (q # control.pair => (Owned(q)' <=> Owned(q)))
    BY <1>4, <1>7, <1>a, <2>1, SentinelAssumption
  <2>3. ASSUME control.at = "unlocked", NEW q \in Pair, q = control.pair
        PROVE  Owned(q) /\ ~(Owned(q)')
    <3>1. control.at \in DestroyAt /\ control.at \notin Published
      BY <2>3 DEF DestroyAt, Published, Listing
    <3>2. q # work["cleanup"].pair /\ q \notin todo
      BY <2>3, <3>1, SentinelAssumption DEF WorkInv, OwnerInv, Apart
    <3>3. ~(InTable(q)')
      BY <1>4, <1>5, <1>7, <2>3
    <3> QED  BY <1>a, <2>1, <2>3, <3>1, <3>2, <3>3, SentinelAssumption
  <2> QED  BY <1>3, <1>4, <1>6, <1>7, <2>2, <2>3
<1>8. CASE a = "cleanup"
  <2> DEFINE p == work["cleanup"].pair
  <2>1. work'["cleanup"].pair = NULL /\ control' = control /\ work["cleanup"].at = "unlocked"
    BY <1>0, <1>1, <1>2, <1>8 DEF WorkInv, DestroyAt
  <2>2. \A q \in Pair : (Owned(q)' => Owned(q)) /\ (q # p => (Owned(q)' <=> Owned(q)))
    BY <1>4, <1>8, <1>a, <2>1, SentinelAssumption
  <2>3. Owned(p)
    BY <1>3, <1>8, <1>a
  <2>4. p \in Pair /\ p \notin todo /\ ~pair'[p].Active
    BY <1>0, <1>3, <1>8, <2>1 DEF OwnerInv, Apart, DestroyAt
  <2>5. control.pair = p => control.at \notin DestroyAt
    BY <2>4, SentinelAssumption DEF WorkInv, DestroyAt, Published, Listing
  <2>6. ASSUME NEW q \in Pair, q = p PROVE ~(Owned(q)')
    <3>1. ~(InTable(q)')
      BY <1>4, <1>5, <1>8, <2>6
    <3> QED  BY <1>a, <2>1, <2>4, <2>5, <2>6, <3>1, SentinelAssumption
  <2> QED  BY <1>3, <1>4, <1>6, <1>8, <2>2, <2>3, <2>6
<1> QED  BY <1>0, <1>7, <1>8

\* The handles of a pair can be counted.
LEMMA HoldersFinite ==
  ASSUME NEW p
  PROVE  IsFiniteSet(Holders(p)) /\ Cardinality(Holders(p)) \in Nat
<1>1. Holders(p) \subseteq Handle
  BY DEF Holders
<1> QED  BY <1>1, HandleAssumption, FS_Subset, FS_CardinalityType

\* The last reference is a handle's only if nobody owns the pair any more.
LEMMA LastReference ==
  ASSUME Typed, OwnerInv, RefInv, NEW h \in Handle, NEW p \in Pair,
         file[h].at \notin {"none", "checked"}, file[h].pair = p, pair[p].RefCount = 1
  PROVE  /\ ~Owned(p)
         /\ Cardinality(Holders(p)) = 1
<1>1. h \in Holders(p)
  BY DEF Holders
<1>2. Cardinality(Holders(p)) \in Nat \ {0}
  BY <1>1, HoldersFinite, FS_EmptySet
<1>3. pair[p].memory = "allocated"
        => pair[p].RefCount = Cardinality(Holders(p)) + (IF Owned(p) THEN 1 ELSE 0)
  BY DEF RefInv, RefCountIsExact
<1>4. pair[p].memory = "freed"
        => pair[p].RefCount >= Cardinality(Holders(p)) + (IF Owned(p) THEN 1 ELSE 0)
  BY DEF RefInv
<1>5. pair[p].memory \in {"allocated", "freed"}
  BY <1>1, StructureFields DEF RefInv, Typed
<1> QED  BY <1>2, <1>3, <1>4, <1>5

LEMMA HandleOwned ==
  ASSUME OwnerInv, UNCHANGED <<Ports, work, todo>>,
         \A p \in Pair : pair'[p].Active = pair[p].Active
  PROVE  OneEntry' /\ Apart' /\ \A p \in Pair : /\ Owned(p)' <=> Owned(p)
                                                /\ InTable(p)' <=> InTable(p)
BY DEF OwnerInv, OneEntry, Apart, Owned, InTable

\* What they hand over had an owner, and a pair in the table or with the cleanup
\* stays with one of them while its creation goes on.
LEMMA QuietHeld ==
  ASSUME Typed, WorkInv, EntryInv, OwnerInv, Quiet
  PROVE  /\ \A a \in Actor, p \in Pair : work'[a].pair = p => work[a].pair = p \/ Owned(p)
         /\ \A a \in Actor : work'[a].at \in DestroyAt \ {"taken"}
              => /\ work'[a].pair = work[a].pair
                 /\ work[a].at \in DestroyAt \ {"taken"} \/ Deactivate(a)
         /\ control'.at \in Listing =>
              /\ control'.pair = control.pair
              /\ \/ control.at = "allocated" /\ InTable(control.pair)'
                 \/ control.at \in Listing
         /\ control'.at \in Listing /\ control.at \in Listing =>
              \A p \in Pair : InTable(p) \/ p \in todo \/ work["cleanup"].pair = p
                => InTable(p)' \/ p \in todo' \/ work'["cleanup"].pair = p
<1> DEFINE Goal ==
         /\ \A a \in Actor, p \in Pair : work'[a].pair = p => work[a].pair = p \/ Owned(p)
         /\ \A a \in Actor : work'[a].at \in DestroyAt \ {"taken"}
              => /\ work'[a].pair = work[a].pair
                 /\ work[a].at \in DestroyAt \ {"taken"} \/ Deactivate(a)
         /\ control'.at \in Listing =>
              /\ control'.pair = control.pair
              /\ \/ control.at = "allocated" /\ InTable(control.pair)'
                 \/ control.at \in Listing
         /\ control'.at \in Listing /\ control.at \in Listing =>
              \A p \in Pair : InTable(p) \/ p \in todo \/ work["cleanup"].pair = p
                => InTable(p)' \/ p \in todo' \/ work'["cleanup"].pair = p
<1>0. /\ Actor = {"control", "cleanup"} /\ "control" \in Actor /\ "cleanup" \in Actor
      /\ \A x \in Listing : x \notin DestroyAt \union {"idle", "taken", "stopped", "allocated"}
  BY DEF Actor, Listing, DestroyAt
<1>1. Ports' = Ports => \A p \in Pair : InTable(p)' <=> InTable(p)
  BY DEF InTable
\* The control thread, within a creation.
<1>2. ASSUME NEW to, Goes("control", to), todo' = todo, to \notin DestroyAt,
             to \in Listing => control.at \in Listing /\ Ports' = Ports
      PROVE  Goal
  <2>1. /\ control'.at = to /\ control'.pair = control.pair
        /\ work'["cleanup"] = work["cleanup"]
    BY <1>0, <1>2, GoesEffect
  <2> QED  BY <1>0, <1>1, <1>2, <2>1
<1>3. CASE Reserve
  <2>1. \E to \in Reserving : /\ control'.at = to /\ control'.pair = NULL
                              /\ work'["cleanup"] = work["cleanup"]
    BY <1>3, ReserveEffect
  <2> QED  BY <1>0, <2>1, SentinelAssumption DEF Reserving, DestroyAt, Listing
<1>4. CASE AllocateFails
  BY <1>2, <1>4 DEF AllocateFails, DestroyAt, Listing
<1>5. CASE Publish
  <2>1. /\ control'.at = "Com" /\ control'.pair = control.pair
        /\ work'["cleanup"] = work["cleanup"] /\ control.at = "allocated"
    BY <1>0, <1>5, GoesEffect DEF Publish
  <2>2. InTable(control.pair)'
    <3>1. control.slot \in Slot /\ Ports' = [Ports EXCEPT ![control.slot] = control.pair]
      BY <1>5 DEF Publish, EntryInv, Creating, Reserving
    <3>2. Ports'[control.slot] = control.pair
      BY <3>1 DEF Typed
    <3> QED  BY <2>1, <3>1, <3>2 DEF InTable
  <2> QED  BY <1>0, <2>1, <2>2 DEF DestroyAt, Listing
<1>6. CASE Respond
  <2>1. control'.at = "idle" /\ control'.pair = NULL /\ work'["cleanup"] = work["cleanup"]
    BY <1>0, <1>6, HoldsEffect DEF Respond
  <2> QED  BY <1>0, <2>1, SentinelAssumption DEF DestroyAt, Listing
<1>7. ASSUME NEW s \in Side, CreateDevice(s) PROVE Goal
  <2>1. PICK to \in Listing : Goes("control", to) /\ control.at \in Listing
    BY <1>7 DEF CreateDevice, Listing, Side
  <2> QED  BY <1>0, <1>2, <1>7, <2>1 DEF CreateDevice
<1>8. ASSUME NEW s \in Side, FinishDevice(s) PROVE Goal
  <2>1. PICK to \in Listing : Goes("control", to) /\ control.at \in Listing
    BY <1>8 DEF FinishDevice, Listing, Side
  <2> QED  BY <1>0, <1>2, <1>8, <2>1 DEF FinishDevice
<1>9. CASE UndoCom
  BY <1>2, <1>9 DEF UndoCom, DestroyAt, Listing
<1>10. CASE Unlist
  BY <1>2, <1>10 DEF Unlist, DestroyAt, Listing
<1>11. CASE DestroyTake
  <2>1. PICK q \in Listed :
          work' = [work EXCEPT !["control"].at = "taken", !["control"].pair = q]
    BY <1>11 DEF DestroyTake
  <2>2. /\ control'.at = "taken" /\ control'.pair = q /\ work'["cleanup"] = work["cleanup"]
        /\ Owned(q)
    <3>1. Owned(q)
      BY DEF Listed, Owned
    <3> QED  BY <1>0, <2>1, <3>1, HoldsEffect
  <2> QED  BY <1>0, <2>2 DEF Listing
\* The cleanup.
<1>12. CASE CleanupTake
  <2>1. /\ work'["cleanup"].at = "next" /\ work'["cleanup"].pair = work["cleanup"].pair
        /\ control' = control
    BY <1>0, <1>12, GoesEffect DEF CleanupTake
  <2>2. \A p \in Pair : InTable(p) => p \in todo'
    BY <1>12 DEF CleanupTake, Listed, InTable, OwnerInv
  <2>3. todo = {}
    BY <1>12 DEF CleanupTake, WorkInv
  <2> QED  BY <1>0, <2>1, <2>2, <2>3 DEF DestroyAt, Listing
<1>13. CASE CleanupNext
  <2>1. PICK q \in todo :
          /\ todo' = todo \ {q}
          /\ work' = [work EXCEPT !["cleanup"].at = "taken", !["cleanup"].pair = q]
    BY <1>13 DEF CleanupNext
  <2>2. /\ work'["cleanup"].at = "taken" /\ work'["cleanup"].pair = q /\ control' = control
        /\ Ports' = Ports /\ work["cleanup"].pair = NULL /\ Owned(q)
    <3>1. Owned(q)
      BY DEF Owned
    <3>2. Ports' = Ports /\ work["cleanup"].pair = NULL
      BY <1>0, <1>13 DEF CleanupNext, WorkInv, Bare
    <3> QED  BY <1>0, <2>1, <3>1, <3>2, HoldsEffect
  <2> QED  BY <1>0, <1>1, <2>1, <2>2, SentinelAssumption DEF Listing
<1>14. CASE CleanupEnd
  <2>1. \A a \in Actor : work'[a].at = "stopped" /\ work'[a].pair = work[a].pair
    BY <1>14 DEF CleanupEnd, Typed, Job
  <2> QED  BY <1>0, <2>1 DEF DestroyAt, Listing
<1>15. ASSUME NEW a \in Actor, Deactivate(a) \/ DetachQueues(a) \/ DeleteFirst(a)
                               \/ DeleteSecond(a) \/ DeleteLocks(a)
       PROVE  Goal
  <2>1. PICK to \in DestroyAt \ {"taken"} :
           /\ Goes(a, to) /\ work[a].at \in DestroyAt /\ todo' = todo
           /\ work[a].at # "taken" \/ Deactivate(a)
    BY <1>15 DEF Deactivate, DetachQueues, DeleteFirst, DeleteSecond, DeleteLocks, DestroyAt
  <2>2. /\ work'[a].at = to /\ work'[a].pair = work[a].pair
        /\ \A b \in Actor \ {a} : work'[b] = work[b]
    BY <2>1, GoesEffect
  <2>3. \A p \in Pair : InTable(p)' <=> InTable(p)
    <3>1. work[a].pair \in Pair /\ ~InTable(work[a].pair)
      BY <2>1, Held DEF OwnerInv, Apart, DestroyAt, Bare, Reserving
    <3>2. Without({work[a].pair}) = Ports
      BY <3>1 DEF Without, InTable, Typed
    <3>3. Ports' = Ports
      BY <1>15, <3>2 DEF Deactivate, DetachQueues, DeleteFirst, DeleteSecond, DeleteLocks
    <3> QED  BY <1>1, <3>3
  <2>4. work'["cleanup"].pair = work["cleanup"].pair /\ control'.pair = control.pair
    BY <1>0, <2>2
  <2>5. control'.at \in Listing => control.at \in Listing
    BY <1>0, <2>1, <2>2
  <2>6. \A b \in Actor : work'[b].at \in DestroyAt \ {"taken"}
           => work[b].at \in DestroyAt \ {"taken"} \/ Deactivate(b)
    BY <2>1, <2>2
  <2> QED  BY <1>0, <2>1, <2>3, <2>4, <2>5, <2>6
<1> QED
  BY <1>3, <1>4, <1>5, <1>6, <1>7, <1>8, <1>9, <1>10, <1>11, <1>12, <1>13, <1>14, <1>15
     DEF Quiet, Cleanup

LEMMA OwnerStep ==
  ASSUME Typed, WorkInv, EntryInv, OwnerInv, RefInv, [Next]_vars
  PROVE  OwnerInv'
<1>0. /\ Actor = {"control", "cleanup"} /\ "control" \in Actor /\ "cleanup" \in Actor
      /\ \A x \in Listing : x \notin Bare \union DestroyAt
      /\ \A x \in DestroyAt : x \notin Bare
  BY DEF Actor, Listing, Bare, Reserving, DestroyAt
<1>1. CASE Quiet
  <2>1. \A p \in Pair : Owned(p)' \/ (\E a \in Actor : work'[a].pair = p)
                          => pair'[p].memory # "unused"
    BY <1>1, QuietOwned, QuietHeld, QuietKeeps DEF OwnerInv
  <2>2. ASSUME NEW p \in Pair, InTable(p)' PROVE pair'[p].Active
    <3>1. InTable(p) \/ (p = control.pair /\ control.at = "allocated")
      BY <1>1, <2>2, QuietOwned
    <3>2. pair[p].Active
      BY <3>1 DEF OwnerInv, EntryInv, Creating, Reserving
    <3>3. ~\E a \in Actor : work[a].at = "taken" /\ work[a].pair = p
      BY <1>0, <3>1, SentinelAssumption DEF OwnerInv, Apart, WorkInv, DestroyAt, Published, Listing
    <3> QED  BY <1>1, <3>2, <3>3, QuietKeeps
  <2>3. ASSUME NEW a \in Actor, work'[a].at \in DestroyAt \ {"taken"}
        PROVE  ~pair'[work'[a].pair].Active
    <3>1. /\ work'[a].pair = work[a].pair
          /\ work[a].at \in DestroyAt \ {"taken"} \/ Deactivate(a)
      BY <1>1, <2>3, QuietHeld
    <3>2. work[a].at \in DestroyAt
      BY <3>1 DEF Deactivate, DestroyAt
    <3>3. work[a].pair \in Pair
      BY <1>0, <3>2, Held
    <3>4. CASE Deactivate(a)
      BY <3>1, <3>3, <3>4 DEF Deactivate, Typed, Structure
    <3>5. CASE work[a].at \in DestroyAt \ {"taken"}
      BY <1>1, <3>1, <3>3, <3>5, QuietKeeps DEF OwnerInv
    <3> QED  BY <3>1, <3>4, <3>5
  <2>4. ASSUME control'.at \in Listing, pair'[control'.pair].Active
        PROVE  InTable(control.pair)' \/ control'.pair \in todo'
                 \/ work'["cleanup"].pair = control'.pair
    <3>1. control'.pair = control.pair
      BY <1>1, <2>4, QuietHeld
    <3>2. CASE control.at = "allocated" /\ InTable(control.pair)'
      BY <3>1, <3>2
    <3>3. CASE control.at \in Listing
      <4>1. control.pair \in Pair
        BY <1>0, <3>3, Held
      <4>2. pair[control.pair].Active
        BY <1>1, <2>4, <3>1, <4>1, QuietKeeps
      <4>3. InTable(control.pair) \/ control.pair \in todo \/ work["cleanup"].pair = control.pair
        BY <3>3, <4>2 DEF OwnerInv
      <4> QED  BY <1>1, <2>4, <3>1, <3>3, <4>1, <4>3, QuietHeld
    <3> QED  BY <1>1, <2>4, <3>2, <3>3, QuietHeld
  <2>5. OneEntry' /\ Apart'
    BY <1>1, QuietOwned
  <2> QED  BY <2>1, <2>2, <2>3, <2>4, <2>5 DEF OwnerInv
<1>2. CASE Allocate
  <2>1. PICK p \in Pair :
          /\ pair[p].memory = "unused"
          /\ pair' = [pair EXCEPT ![p] =
               [memory |-> "allocated", number |-> control.number, Active |-> TRUE,
                RefCount |-> 1, open |-> {}, locks |-> TRUE, queues |-> {}]]
          /\ control'.at = "allocated" /\ control'.pair = p
          /\ work'["cleanup"] = work["cleanup"]
          /\ OneEntry' /\ Apart'
          /\ \A q \in Pair : /\ Owned(q)' <=> Owned(q) \/ q = p
                             /\ InTable(q)' <=> InTable(q)
    BY <1>2, AllocateOwned
  <2>2. /\ pair'[p].memory = "allocated" /\ pair'[p].Active
        /\ \A q \in Pair \ {p} : pair'[q] = pair[q]
    BY <2>1 DEF Typed
  <2>3. ~InTable(p) /\ \A a \in Actor : work[a].pair # p
    BY <2>1, UnusedIsFree
  <2>4. \A q \in Pair : Owned(q)' \/ (\E a \in Actor : work'[a].pair = q)
                          => pair'[q].memory # "unused"
    BY <1>0, <2>1, <2>2 DEF OwnerInv
  <2>5. \A q \in Pair : InTable(q)' => pair'[q].Active
    BY <2>1, <2>2 DEF OwnerInv
  <2>6. \A a \in Actor : work'[a].at \in DestroyAt \ {"taken"} => ~pair'[work'[a].pair].Active
    <3>1. work["cleanup"].at \in DestroyAt \ {"taken"}
            => work["cleanup"].pair \in Pair \ {p} /\ ~pair[work["cleanup"].pair].Active
      BY <1>0, <2>3, Held DEF OwnerInv
    <3> QED  BY <1>0, <2>1, <2>2, <3>1 DEF DestroyAt
  <2> QED  BY <2>1, <2>4, <2>5, <2>6 DEF OwnerInv, Listing
<1>3. ASSUME NEW a \in Actor, (a = "control" /\ Discard) \/ ReleaseCreation(a) PROVE OwnerInv'
  <2>1. PICK to \in {"idle", "next"} : work' = [work EXCEPT ![a].at = to, ![a].pair = NULL]
    BY <1>3 DEF Discard, ReleaseCreation
  <2>2. work[a].at \in {"discard", "unlocked"} /\ UNCHANGED <<Ports, todo>>
    BY <1>3 DEF Discard, ReleaseCreation
  <2>3. /\ work'[a].at = to /\ work'[a].pair = NULL
        /\ \A b \in Actor \ {a} : work'[b] = work[b]
    BY <2>1 DEF Typed, Job
  <2>4. \A q \in Pair : /\ pair'[q].Active = pair[q].Active
                        /\ pair[q].memory # "unused" => pair'[q].memory # "unused"
    <3> SUFFICES ASSUME NEW q \in Pair
                 PROVE  /\ pair'[q].Active = pair[q].Active
                        /\ pair[q].memory # "unused" => pair'[q].memory # "unused"
      OBVIOUS
    <3>1. pair \in [Pair -> Structure] /\ pair[q] \in Structure
      BY DEF Typed
    <3>2. CASE Discard
      BY <3>1, <3>2 DEF Discard, Freed, Structure
    <3>3. CASE ReleaseCreation(a)
      BY <3>1, <3>3 DEF ReleaseCreation, Released, Freed, Dropped, Structure
    <3> QED  BY <1>3, <3>2, <3>3
  <2>5. /\ OneEntry' /\ Apart'
        /\ \A q \in Pair : /\ Owned(q)' => Owned(q)
                           /\ InTable(q)' <=> InTable(q)
    BY <2>1, <2>2, <2>4, DropOwned
  <2>6. \A q \in Pair : Owned(q)' \/ (\E b \in Actor : work'[b].pair = q)
                          => pair'[q].memory # "unused"
    BY <2>3, <2>4, <2>5, SentinelAssumption DEF OwnerInv
  <2>7. \A q \in Pair : InTable(q)' => pair'[q].Active
    BY <2>4, <2>5 DEF OwnerInv
  <2>8. ASSUME NEW b \in Actor, work'[b].at \in DestroyAt \ {"taken"}
        PROVE  ~pair'[work'[b].pair].Active
    <3>1. b # a /\ work'[b] = work[b]
      BY <2>3, <2>8 DEF DestroyAt
    <3>2. work[b].pair \in Pair
      BY <1>0, <2>8, <3>1, Held
    <3> QED  BY <2>4, <2>8, <3>1, <3>2 DEF OwnerInv
  <2>9. ASSUME control'.at \in Listing, pair'[control'.pair].Active
        PROVE  InTable(control.pair)' \/ control'.pair \in todo'
                 \/ work'["cleanup"].pair = control'.pair
    <3>1. a = "cleanup" /\ control' = control
      BY <1>0, <2>3, <2>9 DEF Listing
    <3>2. control.pair \in Pair
      BY <1>0, <2>9, <3>1, Held
    <3>3. InTable(control.pair) \/ control.pair \in todo \/ work["cleanup"].pair = control.pair
      BY <2>4, <2>9, <3>1, <3>2 DEF OwnerInv
    <3>4. work["cleanup"].at \in DestroyAt \ {"taken"}
      BY <1>0, <2>2, <3>1 DEF WorkInv, DestroyAt
    <3>5. work["cleanup"].pair # control.pair
      BY <1>0, <2>4, <2>9, <3>1, <3>2, <3>4 DEF OwnerInv
    <3>6. InTable(control.pair)' <=> InTable(control.pair)
      BY <2>5, <3>1, <3>2
    <3> QED  BY <2>2, <3>1, <3>3, <3>5, <3>6
  <2> QED  BY <2>5, <2>6, <2>7, <2>8, <2>9 DEF OwnerInv
<1>4. ASSUME UNCHANGED <<Ports, work, todo>>,
             \A p \in Pair : /\ pair'[p].Active = pair[p].Active
                             /\ pair[p].memory # "unused" => pair'[p].memory # "unused"
      PROVE  OwnerInv'
  <2>1. OneEntry' /\ Apart' /\ \A p \in Pair : /\ Owned(p)' <=> Owned(p)
                                               /\ InTable(p)' <=> InTable(p)
    BY <1>4, HandleOwned
  <2>2. \A p \in Pair : Owned(p)' \/ (\E a \in Actor : work'[a].pair = p)
                          => pair'[p].memory # "unused"
    BY <1>4, <2>1 DEF OwnerInv
  <2>3. \A p \in Pair : InTable(p)' => pair'[p].Active
    BY <1>4, <2>1 DEF OwnerInv
  <2>4. \A a \in Actor : work'[a].at \in DestroyAt \ {"taken"} => ~pair'[work'[a].pair].Active
    <3>1. \A a \in Actor : work[a].at \in DestroyAt => work[a].pair \in Pair
      BY <1>0, Held
    <3> QED  BY <1>4, <3>1 DEF OwnerInv
  <2>5. control.at \in Listing => control.pair \in Pair
    BY <1>0, Held
  <2>6. control'.at \in Listing /\ pair'[control'.pair].Active =>
           InTable(control.pair)' \/ control'.pair \in todo'
             \/ work'["cleanup"].pair = control'.pair
    BY <1>4, <2>1, <2>5 DEF OwnerInv
  <2> QED  BY <2>1, <2>2, <2>3, <2>4, <2>6 DEF OwnerInv
<1>5. ASSUME NEW h \in Handle,
             OpenCheck(h) \/ IoBegin(h) \/ CloseCom(h) \/ CloseCompanion(h) \/ Callback(h)
      PROVE  OwnerInv'
  BY <1>4, <1>5, HandleFrame, HandleKeeps
<1>6. CASE UNCHANGED vars
  BY <1>4, <1>6 DEF vars
<1> QED
  BY <1>0, <1>1, <1>2, <1>3, <1>5, <1>6 DEF Next, Create, Destroy, Quiet

-----------------------------------------------------------------------------
(* References.                                                             *)

\* What RefInv says of one pair.
RefOf(p) ==
  /\ pair[p].memory = "unused" =>
       pair[p].RefCount = 0 /\ ~pair[p].Active /\ \A h \in Handle : file[h].pair # p
  /\ pair[p].memory = "allocated"
       => pair[p].RefCount = Cardinality(Holders(p)) + (IF Owned(p) THEN 1 ELSE 0)
  /\ pair[p].memory = "freed"
       => pair[p].RefCount >= Cardinality(Holders(p)) + (IF Owned(p) THEN 1 ELSE 0)

NoneIsNull == \A h \in Handle : file[h].at = "none" <=> file[h].pair = NULL

LEMMA RefInvIs == RefInv <=> NoneIsNull /\ \A p \in Pair : RefOf(p)
BY DEF RefInv, RefOf, RefCountIsExact, NoneIsNull

\* A handle that moves on among the places with a reference changes no set of
\* holders, one that gets its reference joins its pair's, one that gives it back
\* leaves it.
LEMMA HoldersMove ==
  ASSUME Typed, NEW h \in Handle, NEW to \in HandleAt \ {"none", "checked"},
         Moves(h, to), file[h].at # "none"
  PROVE  /\ \A g \in Handle : /\ file'[g].pair = file[g].pair /\ file'[g].side = file[g].side
                             /\ file'[g].at = IF g = h THEN to ELSE file[g].at
         /\ \A p \in Pair : Holders(p)' = IF p = file[h].pair THEN Holders(p) \union {h}
                                        ELSE Holders(p)
<1>1. \A g \in Handle : /\ file'[g].pair = file[g].pair /\ file'[g].side = file[g].side
                       /\ file'[g].at = IF g = h THEN to ELSE file[g].at
  BY DEF Typed, Open, Moves
<1> QED  BY <1>1 DEF Holders

LEMMA HoldersClosed ==
  ASSUME Typed, NEW h \in Handle, file' = Closed(h)
  PROVE  /\ file'[h].at = "none" /\ file'[h].pair = NULL
         /\ \A g \in Handle \ {h} : file'[g] = file[g]
         /\ \A p \in Pair : Holders(p)' = Holders(p) \ {h}
<1>1. /\ file'[h].at = "none" /\ file'[h].pair = NULL
      /\ \A g \in Handle \ {h} : file'[g] = file[g]
  BY DEF Typed, Open, Closed
<1> QED  BY <1>1 DEF Holders

LEMMA RefStep ==
  ASSUME Typed, WorkInv, EntryInv, OwnerInv, RefInv, [Next]_vars
  PROVE  RefInv'
<1>0. Actor = {"control", "cleanup"} /\ "control" \in Actor /\ "cleanup" \in Actor
  BY DEF Actor
<1>a. /\ NoneIsNull /\ \A p \in Pair : RefOf(p) /\ pair[p] \in Structure
      /\ pair \in [Pair -> Structure]
  BY RefInvIs DEF Typed
<1>b. SUFFICES NoneIsNull' /\ \A p \in Pair : RefOf(p)'
  BY DEF RefInv, RefOf, RefCountIsExact, NoneIsNull
<1>c. file' = file => NoneIsNull' /\ \A p \in Pair : Holders(p)' = Holders(p)
  BY <1>a DEF NoneIsNull, Holders
\* A pair of which only what does not count here changes.
<1>d. ASSUME NEW p \in Pair, Holders(p)' = Holders(p), Owned(p)' <=> Owned(p),
             pair'[p].memory = pair[p].memory, pair'[p].RefCount = pair[p].RefCount,
             pair'[p].Active => pair[p].Active,
             pair[p].memory # "unused" \/ \A h \in Handle : file'[h].pair # p
      PROVE  RefOf(p)'
  BY <1>a, <1>d DEF RefOf
<1>1. CASE Quiet
  <2>1. file' = file
    BY <1>1, QuietKeeps
  <2>2. ASSUME NEW p \in Pair PROVE RefOf(p)'
    BY <1>1, <1>a, <1>c, <1>d, <2>1, QuietKeeps, QuietOwned DEF RefOf
  <2> QED  BY <1>c, <2>1, <2>2
<1>2. CASE Allocate
  <2>1. PICK p \in Pair :
          /\ pair[p].memory = "unused"
          /\ pair' = [pair EXCEPT ![p] =
               [memory |-> "allocated", number |-> control.number, Active |-> TRUE,
                RefCount |-> 1, open |-> {}, locks |-> TRUE, queues |-> {}]]
          /\ \A q \in Pair : Owned(q)' <=> Owned(q) \/ q = p
    BY <1>2, AllocateOwned
  <2>2. /\ pair'[p].memory = "allocated" /\ pair'[p].RefCount = 1
        /\ \A q \in Pair \ {p} : pair'[q] = pair[q]
    BY <1>a, <2>1
  <2>3. file' = file
    BY <1>2 DEF Allocate
  <2>4. Holders(p)' = {} /\ Cardinality({}) = 0
    BY <1>a, <2>1, <2>3, FS_EmptySet DEF Holders, RefOf
  <2>5. RefOf(p)'
    BY <2>1, <2>2, <2>4 DEF RefOf
  <2>6. ASSUME NEW q \in Pair \ {p} PROVE RefOf(q)'
    BY <1>a, <1>c, <1>d, <2>1, <2>2, <2>3, <2>6 DEF RefOf
  <2> QED  BY <1>c, <2>3, <2>5, <2>6
<1>3. ASSUME NEW a \in Actor, (a = "control" /\ Discard) \/ ReleaseCreation(a)
      PROVE  NoneIsNull' /\ \A p \in Pair : RefOf(p)'
\* The pair as it is now; in RefOf(p)' the actor would hold another.
  <2>p. PICK p : p = work[a].pair
    OBVIOUS
  <2>1. PICK to \in {"idle", "next"} : work' = [work EXCEPT ![a].at = to, ![a].pair = NULL]
    BY <2>p, <1>3 DEF Discard, ReleaseCreation
  <2>2. work[a].at \in {"discard", "unlocked"} /\ UNCHANGED <<Ports, todo, file>>
    BY <2>p, <1>3 DEF Discard, ReleaseCreation
  <2>3. p \in Pair
    BY <1>0, <2>p, <2>2, Held DEF Bare, Reserving
  <2>a. \A q \in Pair : q # p => pair'[q] = pair[q]
    BY <1>3, <1>a, <2>p DEF Discard, ReleaseCreation
  <2>b. ASSUME a = "control" /\ Discard
        PROVE  /\ pair'[p].memory = "freed" /\ pair'[p].RefCount = pair[p].RefCount
               /\ pair'[p].Active = pair[p].Active
    <3>1. pair'[p] = Freed([pair[p] EXCEPT !.locks = FALSE])
      BY <2>p, <1>a, <2>3, <2>b DEF Discard
    <3> QED  BY <1>a, <2>3, <3>1 DEF Freed, Structure
  <2>c. ASSUME ReleaseCreation(a)
        PROVE  /\ pair'[p].RefCount = pair[p].RefCount - 1
               /\ pair'[p].memory = IF pair[p].RefCount = 1 THEN "freed" ELSE pair[p].memory
               /\ pair'[p].Active = pair[p].Active
    <3>1. pair'[p] = Released(pair[p])
      BY <2>p, <1>a, <2>3, <2>c DEF ReleaseCreation
    <3> QED  BY <1>a, <2>3, <3>1 DEF Released, Freed, Dropped, Structure
  <2>d. \A q \in Pair : pair'[q].Active = pair[q].Active
    BY <1>3, <2>a, <2>b, <2>c
  <2>4. /\ \A q \in Pair : /\ Owned(q)' => Owned(q)
                           /\ q # p => (Owned(q)' <=> Owned(q))
        /\ work[a].at = "unlocked" => Owned(p) /\ ~(Owned(p)')
    BY <2>p, <2>1, <2>2, <2>3, <2>d, DropOwned
  <2>5. /\ pair[p].memory \in {"allocated", "freed"} /\ pair[p].RefCount \in Int
        /\ Holders(p)' = Holders(p)
    BY <1>0, <1>a, <1>c, <2>p, <2>2, <2>3, StructureFields DEF OwnerInv
  <2>6. ASSUME NEW q \in Pair, q # p PROVE RefOf(q)'
    <3>1. pair'[q] = pair[q]
      BY <2>6, <2>a
    <3> QED  BY <1>a, <1>c, <1>d, <2>2, <2>4, <2>6, <3>1 DEF RefOf
  <2>7. CASE a = "control" /\ Discard
    <3>1. RefOf(p)'
      BY <1>a, <2>3, <2>4, <2>5, <2>7, <2>b, HoldersFinite DEF RefOf
    <3> QED  BY <1>c, <2>2, <2>6, <3>1
  <2>8. CASE ReleaseCreation(a)
    <3>1. work[a].at = "unlocked"
      BY <2>8 DEF ReleaseCreation
    <3>2. /\ pair[p].RefCount >= Cardinality(Holders(p)) + 1
          /\ pair[p].memory = "allocated" => pair[p].RefCount = Cardinality(Holders(p)) + 1
      BY <1>a, <2>3, <2>4, <2>5, <3>1 DEF RefOf
    <3>3. /\ pair'[p].RefCount >= Cardinality(Holders(p)')
          /\ pair'[p].memory = "allocated" => pair'[p].RefCount = Cardinality(Holders(p)')
          /\ Cardinality(Holders(p)') \in Nat /\ pair'[p].RefCount \in Int
          /\ pair'[p].memory # "unused"
      BY <2>5, <2>8, <2>c, <3>2, HoldersFinite
    <3>4. RefOf(p)'
      BY <2>4, <3>1, <3>3 DEF RefOf
    <3> QED  BY <1>c, <2>2, <2>6, <3>4
  <2> QED  BY <1>3, <2>7, <2>8
<1>4. ASSUME NEW h \in Handle,
             OpenCheck(h) \/ IoBegin(h) \/ CloseCom(h) \/ CloseCompanion(h) \/ Callback(h)
      PROVE  NoneIsNull' /\ \A p \in Pair : RefOf(p)'
  <2>p. PICK p : p = file[h].pair
    OBVIOUS
  <2>2. \A q \in Pair : pair'[q].Active = pair[q].Active
    BY <2>p, <1>4, HandleKeeps
  <2>1. \A q \in Pair : Owned(q)' <=> Owned(q)
    BY <2>p, <2>2, <1>4, HandleFrame, HandleOwned
  <2>3. file[h].at # "none" => p \in Pair /\ pair[p].memory # "unused"
    BY <2>p, <1>a, OpenUpdate DEF NoneIsNull, RefOf, Typed
  <2>4. CASE OpenCheck(h)
    <3>1. PICK q \in Pair, s \in Side :
            /\ pair[q].Active
            /\ file' = [file EXCEPT ![h] = [at |-> "checked", pair |-> q, side |-> s]]
      BY <2>p, <2>4 DEF OpenCheck
    <3>2. /\ file'[h] = [at |-> "checked", pair |-> q, side |-> s]
          /\ \A g \in Handle \ {h} : file'[g] = file[g]
      BY <2>p, <3>1 DEF Typed
    <3>3. file[h].at = "none" /\ pair' = pair
      BY <2>p, <2>4 DEF OpenCheck
    <3>4. NoneIsNull'
      BY <2>p, <1>a, <3>2, SentinelAssumption DEF NoneIsNull
    <3>5. \A r \in Pair : Holders(r)' = Holders(r)
      BY <2>p, <3>2, <3>3 DEF Holders
    <3>6. \A r \in Pair : pair[r].memory # "unused" \/ \A g \in Handle : file'[g].pair # r
      BY <2>p, <1>a, <3>1, <3>2 DEF RefOf
    <3> QED  BY <2>p, <1>d, <2>1, <3>3, <3>4, <3>5, <3>6
\* Steps that neither take nor give back a reference
  <2>5. ASSUME NEW to \in HandleAt \ {"none", "checked"}, Moves(h, to),
               file[h].at \notin {"none", "checked"},
               \A q \in Pair : /\ pair'[q].memory = pair[q].memory
                              /\ pair'[q].RefCount = pair[q].RefCount
        PROVE  NoneIsNull' /\ \A q \in Pair : RefOf(q)'
    <3>1. \A q \in Pair : Holders(q)' = Holders(q)
      <4>1. h \in Holders(p)
        BY <2>p, <2>5 DEF Holders
      <4> QED  BY <2>p, <2>5, <4>1, HoldersMove
    <3>2. \A g \in Handle : /\ file'[g].pair = file[g].pair
                           /\ file'[g].at = IF g = h THEN to ELSE file[g].at
      BY <2>p, <2>5, HoldersMove
    <3>3. NoneIsNull'
      BY <2>p, <1>a, <2>5, <3>2 DEF NoneIsNull
    <3> QED  BY <2>p, <1>a, <1>d, <2>1, <2>2, <2>5, <3>1, <3>2, <3>3 DEF RefOf
  <2>6. CASE OpenClaim(h)
    <3>1. CASE UNCHANGED pair /\ file' = Closed(h)
      <4>1. NoneIsNull'
        BY <2>p, <1>a, <3>1, HoldersClosed DEF NoneIsNull
      <4>2. \A q \in Pair : Holders(q)' = Holders(q)
        <5>1. \A q \in Pair : h \notin Holders(q)
          BY <2>p, <2>6 DEF OpenClaim, Holders
        <5> QED  BY <2>p, <3>1, <5>1, HoldersClosed
      <4>3. \A q \in Pair, g \in Handle : file[g].pair # q => file'[g].pair # q
        BY <2>p, <3>1, HoldersClosed, SentinelAssumption
      <4> QED  BY <2>p, <1>a, <1>d, <2>1, <3>1, <4>1, <4>2, <4>3 DEF RefOf
    <3>2. CASE /\ pair' = [pair EXCEPT ![p].open = @ \union {file[h].side},
                                       ![p].RefCount = @ + 1]
               /\ Moves(h, IF file[h].side = "Com" THEN "opening" ELSE "open")
      <4>1. p \in Pair /\ pair[p].memory # "unused" /\ file[h].at = "checked"
        BY <2>p, <2>3, <2>6 DEF OpenClaim
      <4>2. PICK to \in HandleAt \ {"none", "checked"} : Moves(h, to)
        BY <2>p, <3>2 DEF HandleAt, Serving
      <4>3. /\ \A g \in Handle : /\ file'[g].pair = file[g].pair
                                /\ file'[g].at = IF g = h THEN to ELSE file[g].at
            /\ \A q \in Pair : Holders(q)' = IF q = p THEN Holders(q) \union {h} ELSE Holders(q)
        BY <2>p, <4>1, <4>2, HoldersMove
      <4>4. NoneIsNull'
        BY <2>p, <1>a, <4>1, <4>3 DEF NoneIsNull
      <4>5. /\ pair'[p].memory = pair[p].memory
            /\ pair'[p].RefCount = pair[p].RefCount + 1
            /\ \A q \in Pair \ {p} : pair'[q] = pair[q]
        <5>1. pair' = [pair EXCEPT ![p] = [pair[p] EXCEPT
                         !.open = pair[p].open \union {file[h].side},
                         !.RefCount = pair[p].RefCount + 1]]
          BY <2>p, <3>2, ClaimUpdate
        <5> QED  BY <2>p, <1>a, <4>1, <5>1 DEF Structure
      <4>6. Cardinality(Holders(p)') = Cardinality(Holders(p)) + 1
        <5>1. h \notin Holders(p)
          BY <2>p, <4>1 DEF Holders
        <5> QED  BY <2>p, <4>1, <4>3, <5>1, HoldersFinite, FS_AddElement
      <4>7. RefOf(p)'
        <5>1. pair[p].RefCount \in Int
          BY <2>p, <1>a, <4>1, StructureFields
        <5> QED  BY <2>p, <1>a, <2>1, <4>1, <4>5, <4>6, <5>1, HoldersFinite DEF RefOf
      <4>8. ASSUME NEW q \in Pair, q # p PROVE RefOf(q)'
        BY <2>p, <1>a, <1>d, <2>1, <4>3, <4>5, <4>8 DEF RefOf
      <4> QED  BY <2>p, <4>4, <4>7, <4>8
    <3> QED  BY <2>p, <2>6, <3>1, <3>2 DEF OpenClaim
  <2>7. CASE CloseCom(h) \/ CloseCompanion(h)
    <3>1. PICK to \in HandleAt \ {"none", "checked"} : Moves(h, to) /\ file[h].at = "open"
      BY <2>p, <2>7 DEF CloseCom, CloseCompanion, HandleAt
    <3>2. \A q \in Pair : /\ pair'[q].memory = pair[q].memory
                         /\ pair'[q].RefCount = pair[q].RefCount
      <4>1. PICK S : pair' = [pair EXCEPT ![p].open = S]
        BY <2>p, <2>7 DEF CloseCom, CloseCompanion
      <4> QED  BY <2>p, <1>a, <4>1 DEF Structure
    <3> QED  BY <2>p, <2>5, <3>1, <3>2
  <2>8. CASE IoBegin(h) \/ OpenSignal(h) \/ IoSnapshot(h) \/ IoUse(h) \/ CloseCheck(h)
               \/ CloseSnapshot(h) \/ CloseNotify(h)
    <3>1. PICK to \in HandleAt \ {"none", "checked"} :
            Moves(h, to) /\ file[h].at \notin {"none", "checked"}
      BY <2>p, <2>8 DEF IoBegin, OpenSignal, IoSnapshot, IoUse, CloseCheck, CloseSnapshot,
                  CloseNotify, HandleAt, Serving
    <3>2. pair' = pair
      BY <2>p, <2>8 DEF IoBegin, OpenSignal, IoSnapshot, IoUse, CloseCheck, CloseSnapshot,
                  CloseNotify
    <3> QED  BY <2>p, <2>5, <3>1, <3>2
  <2>9. CASE CloseRelease(h)
    <3>1. p \in Pair /\ pair[p].memory # "unused" /\ h \in Holders(p)
      BY <2>p, <2>3, <2>9 DEF CloseRelease, Holders
    <3>2. /\ pair' = [pair EXCEPT ![p] = Released(@)] /\ file' = Closed(h)
      BY <2>p, <2>9 DEF CloseRelease, Releases
    <3>3. /\ pair'[p].RefCount = pair[p].RefCount - 1
          /\ pair'[p].memory = IF pair[p].RefCount = 1 THEN "freed" ELSE pair[p].memory
          /\ \A q \in Pair \ {p} : pair'[q] = pair[q]
      BY <2>p, <1>a, <3>1, <3>2 DEF Released, Freed, Dropped, Structure
    <3>4. NoneIsNull'
      BY <2>p, <1>a, <3>2, HoldersClosed DEF NoneIsNull
    <3>5. Cardinality(Holders(p)') = Cardinality(Holders(p)) - 1
      BY <2>p, <3>1, <3>2, HoldersClosed, HoldersFinite, FS_RemoveElement
    <3>6. RefOf(p)'
      <4>1. pair[p].RefCount \in Int /\ pair[p].memory \in {"allocated", "freed"}
        BY <2>p, <1>a, <3>1, StructureFields
      <4>2. CASE pair[p].RefCount = 1
        <5>1. Cardinality(Holders(p)) = 1 /\ ~(Owned(p)')
          BY <2>p, <2>1, <2>9, <3>1, <4>2, LastReference DEF CloseRelease
        <5> QED  BY <2>p, <3>3, <3>5, <4>2, <5>1 DEF RefOf
      <4>3. CASE pair[p].RefCount # 1
        BY <2>p, <1>a, <2>1, <3>1, <3>3, <3>5, <4>1, <4>3, HoldersFinite DEF RefOf
      <4> QED  BY <2>p, <4>2, <4>3
    <3>7. ASSUME NEW q \in Pair, q # p PROVE RefOf(q)'
      <4>1. Holders(q)' = Holders(q)
        <5>1. h \notin Holders(q)
          BY <2>p, <3>7 DEF Holders
        <5> QED  BY <2>p, <3>2, <5>1, HoldersClosed
      <4>2. \A g \in Handle : file[g].pair # q => file'[g].pair # q
        BY <2>p, <3>2, HoldersClosed, SentinelAssumption
      <4> QED  BY <2>p, <1>a, <1>d, <2>1, <3>3, <3>7, <4>1, <4>2 DEF RefOf
    <3> QED  BY <2>p, <3>4, <3>6, <3>7
  <2> QED  BY <2>p, <1>4, <2>4, <2>6, <2>7, <2>8, <2>9 DEF Callback
<1>5. CASE UNCHANGED vars
  <2>1. UNCHANGED <<Ports, work, todo, file, pair>>
    BY <1>5 DEF vars
  <2>2. \A p \in Pair : Owned(p)' <=> Owned(p)
    BY <2>1, HandleOwned
  <2> QED  BY <1>a, <1>c, <1>d, <2>1, <2>2 DEF RefOf
<1> QED
  BY <1>0, <1>1, <1>2, <1>3, <1>4, <1>5 DEF Next, Create, Destroy, Quiet

-----------------------------------------------------------------------------
(* The count of the table.                                                 *)

Used == {i \in Slot : Ports[i] # NULL}

LEMMA UsedFinite == IsFiniteSet(Slot) /\ IsFiniteSet(Used) /\ Cardinality(Used) \in Nat
<1>1. IsFiniteSet(Slot)
  BY SlotsAssumption, FS_Interval DEF Slot
<1>2. IsFiniteSet(Used)
  BY <1>1, FS_Subset DEF Used
<1> QED  BY <1>1, <1>2, FS_CardinalityType

\* Entries that pairs are taken from are counted out one by one.
LEMMA WithoutCounts ==
  ASSUME Typed, NEW S \in SUBSET Pair, Ports' = Without(S), PortCount' = CountWithout(S)
  PROVE  PortCount' - PortCount = Cardinality(Used') - Cardinality(Used)
<1> DEFINE T == {i \in Slot : Ports[i] \in S}
<1>1. T \subseteq Used
  BY SentinelAssumption DEF Used
<1>2. Used' = Used \ T
  <2>1. \A i \in Slot : Ports'[i] = IF Ports[i] \in S THEN NULL ELSE Ports[i]
    BY DEF Without
  <2> QED  BY <2>1 DEF Used
<1>3. Cardinality(Used') = Cardinality(Used) - Cardinality(Used \cap T)
  BY <1>2, UsedFinite, FS_Difference
<1>4. Used \cap T = T
  BY <1>1
<1>5. Cardinality(T) \in Nat
  BY UsedFinite, FS_Subset, FS_CardinalityType
<1>6. PortCount' = PortCount - Cardinality(T)
  BY DEF CountWithout
<1>7. Cardinality(Used') = Cardinality(Used) - Cardinality(T)
  BY <1>3, <1>4
<1>8. PortCount \in Int /\ Cardinality(Used) \in Nat
  BY UsedFinite DEF Typed
<1> HIDE DEF T
<1> QED  BY <1>5, <1>6, <1>7, <1>8

\* The count follows the table, but for the end of a creation whose pair is no
\* longer in it.
LEMMA CountStep ==
  ASSUME Typed, WorkInv, EntryInv, OwnerInv, CountInv, [Next]_vars
  PROVE  CountMatches' /\ IsFiniteSet(twice')
<1>a. /\ CountMatches <=> PortCount = Cardinality(Used) - Cardinality(twice)
      /\ CountMatches' <=> PortCount' = Cardinality(Used') - Cardinality(twice')
  BY DEF CountMatches, Used
<1>b. /\ IsFiniteSet(twice) /\ Cardinality(twice) \in Nat /\ PortCount \in Int
      /\ PortCount = Cardinality(Used) - Cardinality(twice) /\ Cardinality(Used) \in Nat
  BY <1>a, UsedFinite, FS_CardinalityType DEF CountInv, Typed
<1>c. ASSUME twice' = twice, PortCount' - PortCount = Cardinality(Used') - Cardinality(Used),
             PortCount' \in Int, Cardinality(Used') \in Nat
      PROVE  CountMatches' /\ IsFiniteSet(twice')
  BY <1>a, <1>b, <1>c
<1>2. CASE Reserve
  <2>1. PICK i \in Slot : Ports[i] = NULL /\ Ports' = [Ports EXCEPT ![i] = RESERVED]
    BY <1>2 DEF Reserve
  <2>2. Used' = Used \union {i} /\ i \notin Used
    BY <2>1, SentinelAssumption DEF Used, Typed
  <2>3. Cardinality(Used') = Cardinality(Used) + 1
    BY <2>2, UsedFinite, FS_AddElement
  <2>4. PortCount' = PortCount + 1 /\ twice' = twice
    BY <1>2 DEF Reserve
  <2> QED  BY <1>b, <1>c, <2>3, <2>4
<1>3. ASSUME NEW i \in Slot, Ports' = [Ports EXCEPT ![i] = NULL], Ports[i] # NULL,
             PortCount' = PortCount - 1, twice' = twice
      PROVE  CountMatches' /\ IsFiniteSet(twice')
  <2>1. Used' = Used \ {i} /\ i \in Used
    BY <1>3 DEF Used, Typed
  <2>2. Cardinality(Used') = Cardinality(Used) - 1
    BY <2>1, UsedFinite, FS_RemoveElement
  <2>3. Cardinality(Used') \in Nat
    BY <2>1, UsedFinite, FS_RemoveElement, FS_CardinalityType
  <2> QED  BY <1>3, <1>b, <1>c, <2>2, <2>3
<1>4. CASE AllocateFails
  <2>1. control.slot \in Slot /\ Ports[control.slot] # NULL
    BY <1>4, SentinelAssumption DEF AllocateFails, EntryInv, Creating, Reserving
  <2> QED  BY <1>3, <1>4, <2>1 DEF AllocateFails
<1>5. CASE Unlist
  <2>1. /\ control.slot \in Slot /\ control.pair \in Pair /\ control.at = "unlist"
        /\ Ports[control.slot] = IF InTable(control.pair) THEN control.pair ELSE NULL
    BY <1>5, Held DEF Unlist, EntryInv, Creating, Published, Listing, Actor, Bare, Reserving
  <2>2. /\ Ports' = [Ports EXCEPT ![control.slot] = NULL] /\ PortCount' = PortCount - 1
        /\ twice' = IF Ports[control.slot] = NULL THEN twice \union {control.pair} ELSE twice
    BY <1>5 DEF Unlist, EntryCleared
  <2>3. CASE Ports[control.slot] # NULL
    BY <1>3, <2>1, <2>2, <2>3
  <2>4. CASE Ports[control.slot] = NULL
    <3>1. Used' = Used
      BY <2>2, <2>4 DEF Used, Typed
    <3>2. control.pair \notin twice
      BY <2>1 DEF CountInv
    <3>3. /\ Cardinality(twice') = Cardinality(twice) + 1 /\ IsFiniteSet(twice')
      BY <1>b, <2>2, <2>4, <3>2, FS_AddElement
    <3> QED  BY <1>a, <1>b, <2>2, <3>1, <3>3
  <2> QED  BY <2>3, <2>4
<1>6. CASE Publish
  <2>1. control.pair \in Pair
    BY <1>6, Held DEF Publish, Actor, Bare, Reserving
  <2>2. control.slot \in Slot /\ Ports[control.slot] = RESERVED
    BY <1>6 DEF Publish, EntryInv, Creating, Reserving
  <2>3. Used' = Used
    BY <1>6, <2>1, <2>2, SentinelAssumption DEF Publish, Used, Typed
  <2>4. PortCount' = PortCount /\ twice' = twice
    BY <1>6 DEF Publish
  <2> QED  BY <1>a, <1>b, <2>3, <2>4
<1>d. ASSUME NEW S \in SUBSET Pair, Ports' = Without(S), PortCount' = CountWithout(S),
             twice' = twice
      PROVE  CountMatches' /\ IsFiniteSet(twice')
  <2>1. PortCount' - PortCount = Cardinality(Used') - Cardinality(Used)
    BY <1>d, WithoutCounts
  <2>2. PortCount' \in Int
    <3>1. Cardinality({i \in Slot : Ports[i] \in S}) \in Nat
      BY UsedFinite, FS_Subset, FS_CardinalityType
    <3> QED  BY <1>b, <1>d, <3>1 DEF CountWithout
  <2>3. Cardinality(Used') \in Nat
    BY UsedFinite, FS_Subset, FS_CardinalityType DEF Used, Slot
  <2> QED  BY <1>c, <1>d, <2>1, <2>2, <2>3
<1>7. CASE DestroyTake
  BY <1>7, <1>d DEF DestroyTake, Listed
<1>8. CASE CleanupTake
  BY <1>8, <1>d DEF CleanupTake, Listed
<1>9. ASSUME NEW a \in Actor, Deactivate(a) PROVE CountMatches' /\ IsFiniteSet(twice')
  <2>1. work[a].pair \in Pair
    BY <1>9, Held DEF Deactivate, Bare, Reserving
  <2> QED  BY <1>9, <1>d, <2>1 DEF Deactivate
<1>10. CASE UNCHANGED <<Ports, PortCount, twice>>
  BY <1>10 DEF CountInv, CountMatches
<1>11. \/ UNCHANGED <<Ports, PortCount, twice>> \/ Reserve \/ AllocateFails \/ Unlist
       \/ Publish \/ DestroyTake \/ CleanupTake \/ \E a \in Actor : Deactivate(a)
  BY DEF Next, vars, Create, Allocate, Respond, CreateDevice, FinishDevice, UndoCom, Discard,
         Cleanup, CleanupNext, CleanupEnd, Destroy, DetachQueues, DeleteFirst,
         DeleteSecond, DeleteLocks, ReleaseCreation, OpenCheck, IoBegin, CloseCom,
         CloseCompanion, Callback, OpenClaim, OpenSignal, IoSnapshot, IoUse, CloseCheck,
         CloseSnapshot, CloseNotify, CloseRelease
<1> QED  BY <1>2, <1>4, <1>5, <1>6, <1>7, <1>8, <1>9, <1>10, <1>11

-----------------------------------------------------------------------------
(* Open flags.                                                             *)

\* A handle that comes into use brings its flag with it, and nobody else clears it.
LEMMA OpenStep ==
  ASSUME Typed, WorkInv, EntryInv, OwnerInv, RefInv, OpenInv, [Next]_vars
  PROVE  OpenInv'
<1>0. Actor = {"control", "cleanup"} /\ "control" \in Actor /\ "cleanup" \in Actor
  BY DEF Actor
<1>a. pair \in [Pair -> Structure] /\ file \in [Handle -> Open]
  BY DEF Typed
<1>b. ASSUME NEW h \in Handle, file[h].at # "none"
      PROVE  file[h].pair \in Pair /\ pair[file[h].pair].memory # "unused" /\ file[h].side \in Side
  BY <1>a, <1>b, OpenUpdate DEF RefInv
<1>c. ASSUME file' = file, \A p \in Pair : pair[p].memory # "unused" => pair'[p].open = pair[p].open
      PROVE  OpenInv'
  BY <1>b, <1>c DEF OpenInv, Using
<1>1. CASE Quiet
  BY <1>1, <1>c, QuietKeeps
<1>2. CASE Allocate
  <2>1. PICK p \in Pair : /\ pair[p].memory = "unused"
                          /\ \E r : pair' = [pair EXCEPT ![p] = r]
    BY <1>2 DEF Allocate
  <2> QED  BY <1>2, <1>a, <1>c, <2>1 DEF Allocate
<1>3. CASE Discard
  <2>1. \A p \in Pair : pair'[p].open = pair[p].open
    BY <1>3, <1>a DEF Discard, Freed, Structure
  <2> QED  BY <1>3, <1>c, <2>1 DEF Discard
<1>4. ASSUME NEW a \in Actor, ReleaseCreation(a) PROVE OpenInv'
  <2>1. \A p \in Pair : pair'[p].open = pair[p].open
    BY <1>4, <1>a DEF ReleaseCreation, Released, Freed, Dropped, Structure
  <2> QED  BY <1>4, <1>c, <2>1 DEF ReleaseCreation
<1>5. ASSUME NEW h \in Handle,
             OpenCheck(h) \/ IoBegin(h) \/ CloseCom(h) \/ CloseCompanion(h) \/ Callback(h)
      PROVE  OpenInv'
  <2> DEFINE p == file[h].pair
\* Nothing that comes into use
  <2>a. ASSUME NEW f \in Open, file' = [file EXCEPT ![h] = f],
               f.at \notin {"opening", "open", "serving", "holding"}
                 \/ (Using(h) /\ f.pair = file[h].pair /\ f.side = file[h].side),
               \A g \in Handle \ {h} : Using(g) =>
                 file[g].side \in pair'[file[g].pair].open,
               f.at \in {"opening", "open", "serving", "holding"} => f.side \in pair'[f.pair].open
        PROVE  OpenInv'
    <3>1. file'[h] = f /\ \A g \in Handle \ {h} : file'[g] = file[g]
      BY <1>a, <2>a
    <3> QED  BY <2>a, <3>1 DEF OpenInv, Using
  <2>1. CASE OpenCheck(h)
    <3>1. PICK q \in Pair, s \in Side :
            file' = [file EXCEPT ![h] = [at |-> "checked", pair |-> q, side |-> s]]
      BY <2>1 DEF OpenCheck
    <3>2. [at |-> "checked", pair |-> q, side |-> s] \in Open /\ pair' = pair
      BY <2>1 DEF OpenCheck, Open, HandleAt, Serving
    <3> QED  BY <2>a, <3>1, <3>2 DEF OpenInv
  <2>2. CASE pair' = pair /\ file' = Closed(h)
    <3>1. [file[h] EXCEPT !.at = "none", !.pair = NULL] \in Open
      BY <1>a, OpenUpdate DEF HandleAt
    <3>2. [file[h] EXCEPT !.at = "none", !.pair = NULL].at = "none"
      BY <1>a DEF Open
    <3>3. file' = [file EXCEPT ![h] = [file[h] EXCEPT !.at = "none", !.pair = NULL]]
      BY <1>a, <2>2 DEF Closed
    <3> QED  BY <2>2, <2>a, <3>1, <3>2, <3>3 DEF OpenInv
  <2>b. ASSUME NEW to \in HandleAt, Moves(h, to)
        PROVE  /\ [file[h] EXCEPT !.at = to] \in Open
               /\ file' = [file EXCEPT ![h] = [file[h] EXCEPT !.at = to]]
               /\ [file[h] EXCEPT !.at = to].at = to
               /\ [file[h] EXCEPT !.at = to].pair = file[h].pair
               /\ [file[h] EXCEPT !.at = to].side = file[h].side
    BY <1>a, <2>b DEF Moves, Open
  <2>3. CASE /\ file[h].at = "checked" /\ MayClaim(p, file[h].side)
             /\ pair' = [pair EXCEPT ![p].open = @ \union {file[h].side},
                                     ![p].RefCount = @ + 1]
             /\ Moves(h, IF file[h].side = "Com" THEN "opening" ELSE "open")
    <3>1. PICK to \in {"opening", "open"} : Moves(h, to)
      BY <2>3
    <3>2. file'[h] = [file[h] EXCEPT !.at = to] /\ \A g \in Handle \ {h} : file'[g] = file[g]
      BY <1>a, <3>1 DEF Moves
    <3>3. /\ file'[h].at = to /\ file'[h].pair = p /\ file'[h].side = file[h].side
      BY <1>a, <3>2 DEF Open
    <3>4. p \in Pair
      BY <1>b, <2>3
    <3>5. /\ pair'[p].open = pair[p].open \union {file[h].side}
          /\ \A q \in Pair \ {p} : pair'[q] = pair[q]
      <4>1. pair' = [pair EXCEPT ![p] = [pair[p] EXCEPT
                       !.open = pair[p].open \union {file[h].side},
                       !.RefCount = pair[p].RefCount + 1]]
        BY <2>3, ClaimUpdate
      <4> QED  BY <1>a, <3>4, <4>1 DEF Structure
    <3>6. \A g \in Handle : Using(g) => file[g].pair \in Pair
      BY <1>b DEF Using
    <3>7. \A g \in Handle : Using(g) /\ file[g].pair = p => file[g].side # file[h].side
      BY <2>3 DEF OpenInv, MayClaim
    <3>8. \A g \in Handle \ {h} : Using(g)' <=> Using(g)
      BY <3>2 DEF Using
    <3>9. ASSUME NEW g \in Handle, Using(g)' PROVE (file[g].side \in pair[file[g].pair].open)'
      <4>1. CASE g = h
        <5>1. file'[h].side \in pair'[p].open
          BY <3>3, <3>5
        <5> QED  BY <3>3, <4>1, <5>1
      <4>2. CASE g # h
        <5>1. Using(g) /\ file'[g] = file[g] /\ file[g].pair \in Pair
          BY <3>2, <3>6, <3>8, <3>9, <4>2
        <5>2. file[g].side \in pair[file[g].pair].open
          BY <5>1 DEF OpenInv
        <5>3. file[g].side \in pair'[file[g].pair].open
          BY <3>5, <5>1, <5>2
        <5> QED  BY <5>1, <5>3
      <4> QED  BY <4>1, <4>2
    <3>10. ASSUME NEW g \in Handle, NEW k \in Handle, Using(g)', Using(k)',
                  (file[g].pair = file[k].pair)', (file[g].side = file[k].side)'
           PROVE  g = k
      <4>1. ASSUME NEW i \in Handle \ {h}, Using(i)'
            PROVE  Using(i) /\ file'[i] = file[i]
                   /\ ~(file[i].pair = p /\ file[i].side = file[h].side)
        BY <3>2, <3>7, <3>8, <4>1
      <4>2. CASE g # h /\ k # h
        BY <3>10, <4>1, <4>2 DEF OpenInv
      <4>3. CASE g = h /\ k # h
        BY <3>3, <3>10, <4>1, <4>3
      <4>4. CASE g # h /\ k = h
        BY <3>3, <3>10, <4>1, <4>4
      <4> QED  BY <4>2, <4>3, <4>4
    <3> QED  BY <3>9, <3>10 DEF OpenInv
  <2>4. CASE CloseCom(h) \/ CloseCompanion(h)
    <3>1. PICK to \in {"closing", "releasing"} : Moves(h, to)
      BY <2>4 DEF CloseCom, CloseCompanion
    <3>2. PICK S : pair' = [pair EXCEPT ![p].open = S]
                   /\ \A s \in Side : s # file[h].side /\ s \in pair[p].open => s \in S
      <4>1. CASE CloseCom(h)
        <5>1. \A s \in Side : s # file[h].side /\ s \in pair[p].open => s \in pair[p].open \ {"Com"}
          BY <4>1 DEF CloseCom
        <5> QED  BY <4>1, <5>1 DEF CloseCom
      <4>2. CASE CloseCompanion(h)
        <5>1. \A s \in Side : s # file[h].side /\ s \in pair[p].open =>
                s \in IF pair[p].Active THEN pair[p].open \ {"Companion"} ELSE pair[p].open
          BY <4>2 DEF CloseCompanion
        <5> QED  BY <4>2, <5>1 DEF CloseCompanion
      <4> QED  BY <2>4, <4>1, <4>2
    <3>3. Using(h) /\ p \in Pair
      BY <1>b, <2>4 DEF CloseCom, CloseCompanion, Using
    <3>4. pair'[p].open = S /\ \A q \in Pair \ {p} : pair'[q] = pair[q]
      BY <1>a, <3>2, <3>3 DEF Structure
    <3>5. ASSUME NEW g \in Handle \ {h}, Using(g) PROVE file[g].side \in pair'[file[g].pair].open
      <4>1. file[g].pair \in Pair /\ file[g].side \in Side
        BY <1>b, <3>5 DEF Using
      <4>2. file[g].pair = p => file[g].side # file[h].side
        BY <3>3, <3>5 DEF OpenInv
      <4> QED  BY <3>2, <3>4, <3>5, <4>1, <4>2 DEF OpenInv
    <3>6. to \in HandleAt
      BY DEF HandleAt
    <3> QED  BY <2>a, <2>b, <3>1, <3>5, <3>6
  <2>6. CASE IoBegin(h) \/ OpenSignal(h) \/ IoSnapshot(h) \/ IoUse(h) \/ CloseCheck(h)
               \/ CloseSnapshot(h) \/ CloseNotify(h)
    <3>1. PICK to \in HandleAt : /\ Moves(h, to)
                                 /\ to \in {"opening", "open", "serving", "holding"} => Using(h)
      BY <2>6 DEF IoBegin, OpenSignal, IoSnapshot, IoUse, CloseCheck, CloseSnapshot,
                  CloseNotify, HandleAt, Serving, Using
    <3>2. pair' = pair
      BY <2>6 DEF IoBegin, OpenSignal, IoSnapshot, IoUse, CloseCheck, CloseSnapshot,
                  CloseNotify
    <3> DEFINE f == [file[h] EXCEPT !.at = to]
    <3>3. /\ f \in Open /\ file' = [file EXCEPT ![h] = f] /\ f.at = to
          /\ f.pair = file[h].pair /\ f.side = file[h].side
      BY <3>1, <2>b
    <3> HIDE DEF f
    <3> QED  BY <2>a, <3>1, <3>2, <3>3 DEF OpenInv
  <2>7. CASE CloseRelease(h)
    <3>1. [file[h] EXCEPT !.at = "none", !.pair = NULL] \in Open
      BY <1>a, OpenUpdate DEF HandleAt
    <3>2. [file[h] EXCEPT !.at = "none", !.pair = NULL].at = "none"
      BY <1>a DEF Open
    <3>3. file' = [file EXCEPT ![h] = [file[h] EXCEPT !.at = "none", !.pair = NULL]]
      BY <1>a, <2>7 DEF CloseRelease, Closed
    <3>4. \A q \in Pair : pair'[q].open = pair[q].open
      BY <1>a, <2>7 DEF CloseRelease, Releases, Released, Freed, Dropped, Structure
    <3>5. \A g \in Handle : Using(g) => file[g].pair \in Pair
      BY <1>b DEF Using
    <3> QED  BY <2>a, <3>1, <3>2, <3>3, <3>4, <3>5 DEF OpenInv
  <2> QED  BY <1>5, <2>1, <2>2, <2>3, <2>4, <2>6, <2>7 DEF Callback, OpenClaim
<1>6. CASE UNCHANGED vars
  BY <1>6, <1>c DEF vars
<1> QED
  BY <1>0, <1>1, <1>2, <1>3, <1>4, <1>5, <1>6 DEF Next, Create, Destroy, Quiet

-----------------------------------------------------------------------------
(* What a step keeps of a structure, and of what the control thread holds. *)

LEMMA PairFate ==
  ASSUME Typed, WorkInv, EntryInv, OwnerInv, RefInv, [Next]_vars, NEW p \in Pair
  PROVE  /\ pair[p].memory # "unused" => pair'[p].number = pair[p].number
         /\ pair'[p].memory = "unused" => pair[p].memory = "unused"
         /\ pair[p].memory # "unused" /\ pair[p].locks =>
              \/ pair'[p].locks
              \/ \E a \in Actor : work[a].at \in {"bothDeleted", "discard"} /\ work[a].pair = p
         /\ Owned(p) =>
              \/ Owned(p)'
              \/ \E a \in Actor : work[a].at \in {"unlocked", "discard"} /\ work[a].pair = p
         /\ InTable(p)' => InTable(p) \/ (p = control.pair /\ control.at = "allocated")
         /\ pair'[p].Active => pair[p].Active \/ ~InTable(p)'
<1>0. /\ "control" \in Actor /\ "cleanup" \in Actor
      /\ pair \in [Pair -> Structure] /\ pair[p] \in Structure
  BY DEF Actor, Typed
<1>1. CASE Quiet
  <2>1. /\ pair'[p].memory = pair[p].memory /\ pair'[p].number = pair[p].number
        /\ \/ pair'[p].Active = pair[p].Active
           \/ ~pair'[p].Active
        /\ \/ pair'[p].locks = pair[p].locks
           \/ \E a \in Actor : work[a].at = "bothDeleted" /\ work[a].pair = p
    BY <1>0, <1>1, QuietKeeps
  <2>2. /\ Owned(p)' <=> Owned(p)
        /\ InTable(p)' => InTable(p) \/ (p = control.pair /\ control.at = "allocated")
    BY <1>0, <1>1, QuietOwned
  <2> QED  BY <2>1, <2>2
<1>2. CASE Allocate
  <2>1. PICK q \in Pair :
            /\ pair[q].memory = "unused"
            /\ pair' = [pair EXCEPT ![q] =
                 [memory |-> "allocated", number |-> control.number, Active |-> TRUE,
                  RefCount |-> 1, open |-> {}, locks |-> TRUE, queues |-> {}]]
            /\ Owned(p)' <=> Owned(p) \/ p = q
            /\ InTable(p)' <=> InTable(p)
    BY <1>0, <1>2, AllocateOwned
  <2>2. pair'[q].memory = "allocated" /\ (p # q => pair'[p] = pair[p])
    BY <1>0, <2>1
  <2>3. ~InTable(q)
    BY <1>0, <2>1, UnusedIsFree
  <2>4. CASE p = q
    BY <2>1, <2>2, <2>3, <2>4
  <2>5. CASE p # q
    BY <2>1, <2>2, <2>5
  <2> QED  BY <2>4, <2>5
<1>3. ASSUME NEW a \in Actor, ReleaseCreation(a) \/ (a = "control" /\ Discard),
             p = work[a].pair \/ p # work[a].pair
      PROVE  /\ pair'[p].number = pair[p].number
             /\ pair'[p].memory = "unused" => pair[p].memory = "unused"
             /\ pair'[p].Active = pair[p].Active
             /\ pair'[p].locks = pair[p].locks \/ (a = "control" /\ Discard /\ work[a].pair = p)
             /\ Owned(p) => Owned(p)' \/ p = work[a].pair
             /\ InTable(p)' <=> InTable(p)
             /\ work[a].at \in {"unlocked", "discard"}
             /\ Discard /\ a = "control" => work[a].at = "discard"
  <2>1. PICK to \in {"idle", "next"} : work' = [work EXCEPT ![a].at = to, ![a].pair = NULL]
    BY <1>3 DEF ReleaseCreation, Discard
  <2>2. work[a].at \in {"discard", "unlocked"} /\ UNCHANGED <<Ports, todo>>
    BY <1>3 DEF ReleaseCreation, Discard
  <2>d. \A q \in Pair : pair'[q].Active = pair[q].Active
    <3>1. ASSUME NEW q \in Pair PROVE pair'[q].Active = pair[q].Active
      <4>1. pair[q] \in Structure
        BY <1>0
      <4>2. CASE ReleaseCreation(a)
        BY <1>0, <4>1, <4>2 DEF ReleaseCreation, Released, Freed, Dropped, Structure
      <4>3. CASE Discard
        BY <1>0, <4>1, <4>3 DEF Discard, Freed, Structure
      <4> QED  BY <1>3, <4>2, <4>3
    <3> QED  BY <3>1
  <2>3. /\ Owned(p) => Owned(p)' \/ p = work[a].pair
        /\ InTable(p)' <=> InTable(p)
    BY <1>0, <2>1, <2>2, <2>d, DropOwned
  <2>4. CASE ReleaseCreation(a)
    <3>1. /\ pair'[p].number = pair[p].number
          /\ pair'[p].memory = "unused" => pair[p].memory = "unused"
          /\ pair'[p].Active = pair[p].Active /\ pair'[p].locks = pair[p].locks
      BY <1>0, <2>4 DEF ReleaseCreation, Released, Freed, Dropped, Structure
    <3> QED  BY <2>2, <2>3, <2>4, <3>1 DEF Discard
  <2>5. CASE a = "control" /\ Discard
    <3>1. /\ pair'[p].number = pair[p].number
          /\ pair'[p].memory = "unused" => pair[p].memory = "unused"
          /\ pair'[p].Active = pair[p].Active
          /\ p # work[a].pair => pair'[p].locks = pair[p].locks
      BY <1>0, <2>5 DEF Discard, Freed, Structure
    <3> QED  BY <2>2, <2>3, <2>5, <3>1 DEF Discard
  <2> QED  BY <1>3, <2>4, <2>5
<1>4. ASSUME NEW h \in Handle,
             OpenCheck(h) \/ IoBegin(h) \/ CloseCom(h) \/ CloseCompanion(h) \/ Callback(h)
      PROVE  /\ pair'[p].number = pair[p].number
             /\ pair'[p].memory = "unused" => pair[p].memory = "unused"
             /\ pair'[p].Active = pair[p].Active
             /\ pair'[p].locks = pair[p].locks
             /\ Owned(p)' <=> Owned(p)
             /\ InTable(p)' <=> InTable(p)
  <2>1. UNCHANGED <<Ports, work, todo>>
    BY <1>4, HandleFrame
  <2> QED  BY <1>0, <1>4, <2>1, HandleKeeps, HandleOwned
<1>5. CASE UNCHANGED vars
  <2>1. UNCHANGED <<Ports, work, todo>> /\ pair' = pair
    BY <1>5 DEF vars
  <2>2. /\ Owned(p)' <=> Owned(p)
        /\ InTable(p)' <=> InTable(p)
    BY <1>0, <2>1, HandleOwned
  <2> QED  BY <2>1, <2>2
<1>6. CASE Discard
  BY <1>0, <1>3, <1>6
<1>7. ASSUME NEW a \in Actor, ReleaseCreation(a)
      PROVE  /\ pair'[p].number = pair[p].number
             /\ pair'[p].memory = "unused" => pair[p].memory = "unused"
             /\ pair'[p].Active = pair[p].Active
             /\ (pair'[p].locks = pair[p].locks \/ (work[a].at = "discard" /\ work[a].pair = p))
             /\ Owned(p) => Owned(p)' \/ p = work[a].pair
             /\ InTable(p)' <=> InTable(p)
             /\ work[a].at \in {"unlocked", "discard"}
  BY <1>3, <1>7
<1> QED
  BY <1>0, <1>1, <1>2, <1>4, <1>5, <1>6, <1>7 DEF Next, Create, Destroy, Quiet

\* What the control thread holds it held before, or has allocated, or has taken from
\* the table, and it holds what it discards to the end.
LEMMA HoldStep ==
  ASSUME Typed, WorkInv, [Next]_vars, NEW p \in Pair, control'.pair = p
  PROVE  \/ control.pair = p /\ (control.at = "discard" => control'.at = "discard")
         \/ pair[p].memory = "unused" \/ InTable(p)
<1>0. /\ Actor = {"control", "cleanup"} /\ "control" \in Actor /\ "cleanup" \in Actor
      /\ p # NULL
  BY SentinelAssumption DEF Actor
<1>1. ASSUME NEW to, Goes("control", to), control.at # "discard"
      PROVE  control.pair = p /\ control.at # "discard"
  BY <1>0, <1>1, GoesEffect
<1>2. ASSUME NEW to, work' = [work EXCEPT !["control"].at = to, !["control"].pair = NULL]
      PROVE  FALSE
  BY <1>0, <1>2 DEF Typed, Job
<1>3. CASE Reserve
  BY <1>0, <1>3, ReserveEffect
<1>4. CASE Allocate
  <2>1. PICK q \in Pair :
          /\ pair[q].memory = "unused"
          /\ work' = [work EXCEPT !["control"].at = "allocated", !["control"].pair = q]
    BY <1>4 DEF Allocate
  <2>2. control'.pair = q
    BY <1>0, <2>1 DEF Typed, Job
  <2> QED  BY <2>1, <2>2
<1>5. CASE Respond \/ Discard \/ ReleaseCreation("control")
  BY <1>2, <1>5 DEF Respond, Discard, ReleaseCreation
<1>6. CASE AllocateFails \/ Publish \/ UndoCom \/ Unlist
  BY <1>1, <1>6 DEF AllocateFails, Publish, UndoCom, Unlist
<1>7. CASE \E s \in Side : CreateDevice(s) \/ FinishDevice(s)
  BY <1>1, <1>7 DEF CreateDevice, FinishDevice, Side
<1>8. CASE DestroyTake
  <2>1. PICK q \in Listed : work' = [work EXCEPT !["control"].at = "taken", !["control"].pair = q]
    BY <1>8 DEF DestroyTake
  <2>2. control'.pair = q
    BY <1>0, <2>1, HoldsEffect
  <2> QED  BY <2>2 DEF Listed, InTable
<1>9. CASE CleanupEnd
  <2>1. control'.pair = control.pair /\ control.at = "idle"
    BY <1>0, <1>9 DEF CleanupEnd, Typed, Job
  <2> QED  BY <2>1
<1>10. CASE CleanupTake \/ CleanupNext
  <2>1. control' = control
    BY <1>0, <1>10 DEF CleanupTake, CleanupNext, Goes, Typed
  <2> QED  BY <2>1
<1>11. ASSUME NEW a \in Actor, Destroy(a), ~ReleaseCreation("control")
       PROVE  control.pair = p /\ (control.at = "discard" => control'.at = "discard")
  <2>1. CASE a = "control"
    <3>1. \E to : Goes("control", to) /\ control.at # "discard"
      BY <1>11, <2>1 DEF Destroy, Deactivate, DetachQueues, DeleteFirst, DeleteSecond,
                         DeleteLocks
    <3> QED  BY <1>1, <3>1
  <2>2. CASE a = "cleanup"
    <3>1. control' = control
      BY <1>0, <1>11, <2>2 DEF Destroy, Deactivate, DetachQueues, DeleteFirst, DeleteSecond,
                               DeleteLocks, ReleaseCreation, Goes, Typed
    <3> QED  BY <3>1
  <2> QED  BY <1>0, <2>1, <2>2
<1>12. CASE work' = work
  BY <1>12
<1>13. ASSUME NEW h \in Handle,
              OpenCheck(h) \/ IoBegin(h) \/ CloseCom(h) \/ CloseCompanion(h) \/ Callback(h)
       PROVE  work' = work
  BY <1>13, HandleFrame
<1>14. CASE \E a \in Actor : Destroy(a)
  BY <1>5, <1>11, <1>14
<1>15. CASE Create
  BY <1>3, <1>4, <1>5, <1>6, <1>7, <1>15 DEF Create
<1>16. CASE UNCHANGED vars
  BY <1>12, <1>16 DEF vars
<1> QED
  BY <1>8, <1>9, <1>10, <1>12, <1>13, <1>14, <1>15, <1>16 DEF Next, Cleanup

\* How the creation moves: into a reservation by Reserve only, among its places it
\* keeps its number, and it leaves its structure only when that is ready or has
\* left the table.
LEMMA CreationStep ==
  ASSUME Typed, WorkInv, [Next]_vars
  PROVE  /\ control'.at \in Reserving \union {"allocated"} =>
              \/ Reserve
              \/ control.at \in Reserving \union {"allocated"} /\ control'.number = control.number
         /\ control'.at \in {"Companion", "CompanionRest", "respond"} =>
              \/ FinishDevice("Com")
              \/ /\ control.at \in {"Companion", "CompanionRest", "respond"}
                 /\ control'.number = control.number /\ control'.pair = control.pair
         /\ FinishDevice("Com") => control'.number = control.number /\ control'.pair = control.pair
         /\ control.pair \in Pair => \/ control'.pair = control.pair
                                     \/ control.at \in {"respond", "discard"} \union DestroyAt
<1>0. /\ "control" \in Actor /\ Actor = {"control", "cleanup"}
      /\ Side = {"Com", "Companion"}
  BY DEF Actor, Side
<1>1. CASE Reserve
  <2>1. control.at = "idle" /\ control.pair = NULL
    BY <1>0, <1>1 DEF Reserve, WorkInv, Bare
  <2>2. control'.at \in Reserving
    BY <1>1, <1>0, ReserveEffect
  <2> QED  BY <1>1, <2>1, <2>2, SentinelAssumption DEF FinishDevice, Reserving
<1>2. ASSUME NEW to, Goes("control", to),
             to \in Reserving \union {"allocated"} => control.at \in Reserving,
             to \in {"Companion", "CompanionRest", "respond"} =>
               FinishDevice("Com") \/ control.at \in {"Companion", "CompanionRest", "respond"}
      PROVE  /\ control'.at = to /\ control'.number = control.number /\ control'.pair = control.pair
             /\ control'.at \in Reserving \union {"allocated"} => control.at \in Reserving
             /\ control'.at \in {"Companion", "CompanionRest", "respond"} =>
                  FinishDevice("Com") \/ control.at \in {"Companion", "CompanionRest", "respond"}
  BY <1>0, <1>2, GoesEffect
<1>3. ASSUME NEW to, NEW p, work' = [work EXCEPT !["control"].at = to, !["control"].pair = p]
      PROVE  control'.at = to /\ control'.number = control.number /\ control'.pair = p
  BY <1>0, <1>3 DEF Typed, Job
<1>4. CASE Allocate
  <2>1. PICK p \in Pair : work' = [work EXCEPT !["control"].at = "allocated", !["control"].pair = p]
    BY <1>4 DEF Allocate
  <2>2. control.at \in Reserving /\ control.pair = NULL
    BY <1>0, <1>4 DEF Allocate, WorkInv, Bare, Reserving
  <2> QED  BY <1>3, <2>1, <2>2, SentinelAssumption DEF Reserving, FinishDevice
<1>5. CASE Respond \/ Discard
  <2>1. /\ work' = [work EXCEPT !["control"].at = "idle", !["control"].pair = NULL]
        /\ control.at \in {"respond", "discard"}
    BY <1>5 DEF Respond, Discard
  <2>2. control'.at = "idle"
    BY <1>3, <2>1
  <2> QED  BY <2>1, <2>2 DEF Reserving, FinishDevice
<1>6. CASE AllocateFails \/ Publish \/ UndoCom \/ Unlist
  <2>1. PICK to \in {"idle", "Com", "unlist", "discard"} : Goes("control", to)
    BY <1>6 DEF AllocateFails, Publish, UndoCom, Unlist
  <2> QED  BY <1>2, <1>6, <2>1 DEF Reserving, FinishDevice, AllocateFails, Publish, UndoCom, Unlist
<1>7. ASSUME NEW s \in Side, CreateDevice(s)
      PROVE  /\ control'.number = control.number /\ control'.pair = control.pair
             /\ control'.at \notin Reserving \union {"allocated"} /\ ~FinishDevice("Com")
             /\ control'.at \in {"Companion", "CompanionRest", "respond"}
                  => control.at \in {"Companion", "CompanionRest", "respond"}
  <2>1. PICK to \in {"ComRest", "CompanionRest", "unlist", "undoCom"} :
           Goes("control", to) /\ (to = "CompanionRest" => control.at = "Companion")
    BY <1>0, <1>7 DEF CreateDevice
  <2>2. ~FinishDevice("Com")
    BY <1>0, <1>7 DEF CreateDevice, FinishDevice
  <2> QED  BY <1>2, <2>1, <2>2 DEF Reserving
<1>8. ASSUME NEW s \in Side, FinishDevice(s)
      PROVE  /\ control'.number = control.number /\ control'.pair = control.pair
             /\ control'.at \notin Reserving \union {"allocated"}
             /\ FinishDevice("Com") \/ control.at \in {"Companion", "CompanionRest", "respond"}
  <2>1. PICK to \in {"Companion", "respond", "unlist", "undoCom"} : Goes("control", to)
    BY <1>0, <1>8 DEF FinishDevice
  <2>2. FinishDevice("Com") \/ control.at \in {"Companion", "CompanionRest", "respond"}
    BY <1>0, <1>8 DEF FinishDevice
  <2> QED  BY <1>2, <2>1, <2>2 DEF Reserving
<1>9. CASE DestroyTake
  <2>1. PICK p : work' = [work EXCEPT !["control"].at = "taken", !["control"].pair = p]
    BY <1>9 DEF DestroyTake
  <2>2. control.at = "idle" /\ control.pair = NULL
    BY <1>0, <1>9 DEF DestroyTake, WorkInv, Bare
  <2>3. control'.at = "taken"
    BY <1>3, <2>1
  <2> QED  BY <2>2, <2>3, SentinelAssumption DEF Reserving, FinishDevice
<1>10. CASE CleanupEnd
  <2>1. control'.at = "stopped" /\ control.at = "idle" /\ control.pair = NULL
    BY <1>0, <1>10 DEF CleanupEnd, Typed, Job, WorkInv, Bare
  <2> QED  BY <2>1, SentinelAssumption DEF Reserving, FinishDevice
<1>11. CASE CleanupTake \/ CleanupNext
  <2>1. control' = control /\ (FinishDevice("Com") => control'.at = control.at)
    BY <1>0, <1>11 DEF CleanupTake, CleanupNext, Goes, Typed
  <2>2. ~FinishDevice("Com") \/ control'.number = control.number
    BY <2>1
  <2> QED  BY <2>1
<1>12. ASSUME NEW a \in Actor, Destroy(a)
       PROVE  \/ control' = control
              \/ /\ control'.at \notin Reserving \union {"allocated", "Companion", "CompanionRest", "respond"}
                 /\ control.at \in DestroyAt
  <2>1. PICK to \in DestroyAt \union {"idle", "next"} :
           /\ work'[a].at = to
           /\ \A b \in Actor \ {a} : work'[b] = work[b]
           /\ work[a].at \in DestroyAt
    <3>1. CASE ReleaseCreation(a)
      <4>1. PICK to \in {"idle", "next"} : work' = [work EXCEPT ![a].at = to, ![a].pair = NULL]
        BY <3>1 DEF ReleaseCreation
      <4>2. work'[a].at = to /\ \A b \in Actor \ {a} : work'[b] = work[b]
        BY <1>0, <4>1 DEF Typed, Job
      <4>3. work[a].at \in DestroyAt
        BY <3>1 DEF ReleaseCreation, DestroyAt
      <4> QED  BY <4>2, <4>3
    <3>2. CASE ~ReleaseCreation(a)
      <4>1. work[a].at \in DestroyAt /\ \E to \in DestroyAt : Goes(a, to)
        BY <1>12, <3>2 DEF Destroy, Deactivate, DetachQueues, DeleteFirst, DeleteSecond,
                           DeleteLocks, DestroyAt
      <4> QED  BY <1>0, <4>1, GoesEffect
    <3> QED  BY <3>1, <3>2
  <2> QED  BY <1>0, <2>1 DEF Reserving, DestroyAt
<1>13. ASSUME NEW h \in Handle,
              OpenCheck(h) \/ IoBegin(h) \/ CloseCom(h) \/ CloseCompanion(h) \/ Callback(h)
       PROVE  control' = control
  BY <1>13, HandleFrame
<1>14. CASE control' = control
  BY <1>14
<1>15. CASE control.at \in DestroyAt /\ control'.at \notin Reserving \union {"allocated", "Companion", "CompanionRest", "respond"}
  BY <1>15 DEF FinishDevice, DestroyAt
<1>16. CASE UNCHANGED vars
  BY <1>14, <1>16 DEF vars
<1>17. CASE \E s \in Side : CreateDevice(s) \/ FinishDevice(s)
  BY <1>7, <1>8, <1>17
<1>18. CASE Create
  BY <1>1, <1>4, <1>5, <1>6, <1>17, <1>18 DEF Create
<1>19. CASE \E a \in Actor : Destroy(a)
  BY <1>12, <1>14, <1>15, <1>19
<1>20. CASE \E h \in Handle : OpenCheck(h) \/ IoBegin(h) \/ CloseCom(h) \/ CloseCompanion(h) \/ Callback(h)
  BY <1>13, <1>14, <1>20
<1> QED
  BY <1>9, <1>10, <1>11, <1>16, <1>18, <1>19, <1>20 DEF Next, Cleanup

\* A pair counted out twice has left the table for good.
LEMMA TwiceStep ==
  ASSUME Typed, WorkInv, EntryInv, OwnerInv, RefInv, CountInv, [Next]_vars, NEW p \in twice'
  PROVE  /\ p \in Pair /\ pair'[p].memory # "unused"
         /\ ~(InTable(p)')
         /\ control'.pair = p => control'.at = "discard"
<1>0. twice \subseteq Pair /\ "control" \in Actor
  BY DEF Typed, Actor
<1>1. CASE p \in twice
  <2>1. p \in Pair /\ pair[p].memory # "unused" /\ ~InTable(p) /\ (control.pair = p => control.at = "discard")
    BY <1>0, <1>1 DEF CountInv
  <2> QED  BY <2>1, PairFate, HoldStep
<1>2. CASE p \notin twice
  <2>1. Unlist /\ p = control.pair /\ Ports[control.slot] = NULL
    <3>1. Unlist \/ twice' = twice
      BY DEF Next, vars, Create, Reserve, Allocate, AllocateFails, Publish, Respond,
         CreateDevice, FinishDevice, UndoCom, Discard, DestroyTake, Cleanup, CleanupTake,
         CleanupNext, CleanupEnd, Destroy, Deactivate, DetachQueues, DeleteFirst,
         DeleteSecond, DeleteLocks, ReleaseCreation, OpenCheck, IoBegin, CloseCom,
         CloseCompanion, Callback, OpenClaim, OpenSignal, IoSnapshot, IoUse, CloseCheck,
         CloseSnapshot, CloseNotify, CloseRelease
    <3> QED  BY <1>2, <3>1 DEF Unlist
  <2>2. /\ p \in Pair /\ control'.at = "discard" /\ control.at = "unlist"
    BY <1>0, <2>1, Held, GoesEffect DEF Unlist, Bare, Reserving
  <2>3. pair[p].memory # "unused" /\ ~InTable(p)
    BY <1>0, <2>1, <2>2, SentinelAssumption DEF OwnerInv, EntryInv, Listing
  <2> QED  BY <2>1, <2>2, <2>3, PairFate
<1> QED  BY <1>1, <1>2

\* Whoever comes into the table has a number that nobody in it has: it was not listed
\* when it was reserved, and no other creation could be going on since.
LEMMA UniqueStep ==
  ASSUME Typed, WorkInv, WorkInv', EntryInv, OwnerInv, OwnerInv', RefInv, UniqueInv, [Next]_vars
  PROVE  UniqueInv'
<1>0. "control" \in Actor
  BY DEF Actor
<1>1. \A p \in Listed' : p \in Pair /\ (p \in Listed \/ (p = control.pair /\ control.at = "allocated"))
  BY PairFate DEF Listed, InTable
<1>2. \A p \in Listed : pair[p].memory # "unused"
  BY DEF OwnerInv, Owned, Listed, InTable
<1>3. /\ control.pair \in Pair => pair'[control.pair].number = pair[control.pair].number
      /\ \A p \in Listed : pair'[p].number = pair[p].number
  BY <1>0, <1>2, PairFate DEF Listed, OwnerInv
\* The reserved number
<1>4. ASSUME control'.at \in Reserving \union {"allocated"}, NEW p \in Listed'
      PROVE  pair'[p].number # control'.number
  <2>1. CASE Reserve
    <3>1. p \in Listed
      BY <1>1, <2>1 DEF Reserve
    <3>2. pair[p].number # control'.number
      BY <2>1, <3>1, ReserveEffect
    <3> QED  BY <1>3, <3>1, <3>2
  <2>2. CASE /\ control.at \in Reserving \union {"allocated"} /\ control'.number = control.number
    <3>1. p \in Listed
      <4>1. CASE control.at = "allocated" /\ p = control.pair
        <5>1. control.pair \in Pair
          BY <1>1, <4>1
        <5>2. control'.pair = control.pair
          BY <4>1, <5>1, CreationStep DEF DestroyAt
        <5>3. control'.at = "allocated"
          BY <1>0, <1>4, <5>1, <5>2, SentinelAssumption DEF WorkInv, Bare
        <5>4. ~InTable(p)'
          BY <1>0, <4>1, <5>2, <5>3 DEF OwnerInv, Apart, InTable
        <5> QED  BY <1>4, <5>4 DEF Listed, InTable
      <4> QED  BY <1>1, <4>1
    <3> QED  BY <1>3, <2>2, <3>1 DEF UniqueInv
  <2> QED  BY <1>4, <2>1, <2>2, CreationStep
\* Listed pairs: a pair that has just come is the creation's, with its number
<1>5. ASSUME NEW p \in Listed', NEW q \in Listed', p # q
      PROVE  pair'[p].number # pair'[q].number
  <2>1. ASSUME control.at = "allocated", NEW r \in Listed
        PROVE  pair[r].number # pair[control.pair].number
    BY <2>1 DEF UniqueInv, EntryInv, Creating, Published, Reserving
  <2>2. CASE p \in Listed /\ q \in Listed
    BY <1>3, <1>5, <2>2 DEF UniqueInv, OnePairPerNumber
  <2>3. CASE p \in Listed /\ q = control.pair /\ control.at = "allocated"
    BY <1>1, <1>3, <2>1, <2>3
  <2>4. CASE q \in Listed /\ p = control.pair /\ control.at = "allocated"
    BY <1>1, <1>3, <2>1, <2>4
  <2> QED  BY <1>1, <1>5, <2>2, <2>3, <2>4
<1> QED  BY <1>4, <1>5 DEF UniqueInv, OnePairPerNumber

-----------------------------------------------------------------------------
(* What follows from the table, the references and the open flags.         *)

Core ==
  Typed /\ WorkInv /\ EntryInv /\ OwnerInv /\ RefInv /\ OpenInv /\ CountInv /\ UniqueInv

LEMMA CoreInit == Init => Core
<1> SUFFICES ASSUME Init PROVE Core
  OBVIOUS
<1>0. /\ \A a \in Actor : work[a].at = "idle" /\ work[a].pair = NULL
      /\ \A h \in Handle : file[h].at = "none" /\ file[h].pair = NULL
      /\ \A p \in Pair : /\ pair[p].memory = "unused" /\ pair[p].RefCount = 0
                         /\ ~pair[p].Active
      /\ \A i \in Slot : Ports[i] = NULL
      /\ todo = {} /\ PortCount = 0 /\ twice = {}
      /\ "control" \in Actor /\ "cleanup" \in Actor
  BY DEF Init, Actor
<1>1. WorkInv
  BY <1>0 DEF WorkInv, ControlAt, Bare
<1>2. EntryInv
  BY <1>0 DEF EntryInv, Creating, Published, Reserving, Listing
<1>3. \A p \in Pair : ~Owned(p) /\ ~InTable(p)
  BY <1>0, SentinelAssumption DEF Owned, InTable
<1>4. OwnerInv
  BY <1>0, <1>3, SentinelAssumption DEF OwnerInv, OneEntry, Apart, DestroyAt
<1>5. RefInv
  BY <1>0, SentinelAssumption DEF RefInv, RefCountIsExact
<1>6. OpenInv
  BY <1>0 DEF OpenInv, Using
<1>7. CountInv
  <2>1. {i \in Slot : Ports[i] # NULL} = {}
    BY <1>0
  <2>2. Cardinality({}) = 0 /\ IsFiniteSet({})
    BY FS_EmptySet
  <2>3. CountMatches
    <3>1. Cardinality(twice) = 0 /\ Cardinality({i \in Slot : Ports[i] # NULL}) = 0
      BY <1>0, <2>1, <2>2
    <3> QED  BY <1>0, <3>1 DEF CountMatches
  <2> QED  BY <1>0, <2>2, <2>3 DEF CountInv
<1>8. UniqueInv
  BY <1>0 DEF UniqueInv, OnePairPerNumber, Listed, Reserving
<1> QED  BY <1>1, <1>2, <1>4, <1>5, <1>6, <1>7, <1>8, InitTyped DEF Core

LEMMA TypedStep ==
  ASSUME Typed, WorkInv, EntryInv, RefInv, [Next]_vars
  PROVE  Typed'
<1>1. CASE UNCHANGED vars
  BY <1>1 DEF vars, Typed
<1> QED  BY <1>1, CreateTyped, TakeTyped, DestroyTyped, HandleTyped DEF Next

LEMMA CoreStep == Core /\ [Next]_vars => Core'
<1> SUFFICES ASSUME Core, [Next]_vars PROVE Core'
  OBVIOUS
<1>1. Typed /\ WorkInv /\ EntryInv /\ OwnerInv /\ RefInv /\ OpenInv /\ CountInv /\ UniqueInv
  BY DEF Core
<1>2. Typed' /\ WorkInv'
  BY <1>1, TypedStep, WorkStep
<1>3. EntryInv' /\ OwnerInv'
  BY <1>1, EntryStep, OwnerStep
<1>4. RefInv' /\ OpenInv'
  BY <1>1, RefStep, OpenStep
<1>5. CountInv'
  BY <1>1, CountStep, TwiceStep DEF CountInv
<1>6. UniqueInv'
  BY <1>1, <1>2, <1>3, UniqueStep
<1> QED  BY <1>2, <1>3, <1>4, <1>5, <1>6 DEF Core

LEMMA CoreInvariant == Spec => []Core
BY CoreInit, CoreStep, PTL DEF Spec

\* References below zero do not occur: an allocated structure's are counted, a
\* freed one has at least as many as handles that are still there.
LEMMA CoreTypes == Core => TypeOK
<1> SUFFICES ASSUME Core PROVE TypeOK
  OBVIOUS
<1>1. Typed /\ RefInv
  BY DEF Core
<1>3. ASSUME NEW p \in Pair PROVE pair[p].RefCount \in Nat
  <2>1. pair[p] \in Structure
    BY <1>1 DEF Typed
  <2>2. pair[p].memory \in {"unused", "allocated", "freed"} /\ pair[p].RefCount \in Int
    BY <2>1, StructureFields
  <2> QED  BY <1>1, <2>2, HoldersFinite DEF RefInv, RefCountIsExact
<1>4. ASSUME NEW p \in Pair
      PROVE  pair[p] \in [memory : {"unused", "allocated", "freed"},
                          number : Number \union {0}, Active : BOOLEAN, RefCount : Nat,
                          open : SUBSET Side, locks : BOOLEAN, queues : SUBSET Side]
  BY <1>1, <1>3, <1>4 DEF Typed, Structure
<1>5. pair \in [Pair -> [memory : {"unused", "allocated", "freed"},
                         number : Number \union {0}, Active : BOOLEAN, RefCount : Nat,
                         open : SUBSET Side, locks : BOOLEAN, queues : SUBSET Side]]
  BY <1>1, <1>4 DEF Typed
<1> QED  BY <1>1, <1>5 DEF Typed, TypeOK, Job, Open

\* Every variable keeps its type, and no reference count goes below zero, not that of
\* a freed structure either, whatever fails and whenever the driver stops.
THEOREM TypeCorrect == Spec => []TypeOK
BY CoreInvariant, CoreTypes, PTL

\* PortCount is the number of slots in use, less one for every creation that failed
\* after the cleanup had taken its pair from the table: fail_cleanup counts such a pair
\* out a second time, and nothing else, no failure, destruction or driver stop in any
\* order, moves the count away from the table.
THEOREM CountIsRight == Spec => []CountMatches
<1>1. Core => CountMatches
  BY DEF Core, CountInv
<1> QED  BY <1>1, CoreInvariant, PTL

\* No two pairs in the table have one number, although a creation checks its number
\* before its pair is in the table and a destruction deletes the devices after it
\* has left, and the driver's cleanup comes between any two steps of either.
THEOREM NumbersAreUnique == Spec => []OnePairPerNumber
<1>1. Core => OnePairPerNumber
  BY DEF Core, UniqueInv
<1> QED  BY <1>1, CoreInvariant, PTL

\* While a pair is allocated, RefCount is one for each handle between its open and the
\* end of its close and one for the creation while somebody is left to release it,
\* for any number of handles, both orders of close and destroy and a driver stop at
\* any moment.
THEOREM ReferencesAreCounted == Spec => []RefCountIsExact
<1>1. Core => RefCountIsExact
  BY DEF Core, RefInv
<1> QED  BY <1>1, CoreInvariant, PTL

\* "Enforce exclusive access": the compare and exchange of the open flag lets no two
\* handles of one side in, whatever closes and destructions run at the same time.
THEOREM OpensAreExclusive == Spec => []ExclusiveOpen
<1>1. ASSUME Core, NEW p \in Pair, NEW s \in Side PROVE Cardinality(InUse(p, s)) <= 1
  <2>1. \A h, g \in InUse(p, s) : h = g
    BY <1>1 DEF InUse, Holders, Core, OpenInv, Using
  <2>2. CASE InUse(p, s) = {}
    BY <2>2, FS_EmptySet
  <2>3. CASE InUse(p, s) # {}
    <3>1. PICK h : InUse(p, s) = {h}
      BY <2>1, <2>3
    <3>2. Cardinality({h}) = 1
      BY FS_Singleton
    <3> QED  BY <3>1, <3>2
  <2> QED  BY <2>2, <2>3
<1>2. Core => ExclusiveOpen
  BY <1>1 DEF ExclusiveOpen
<1> QED  BY <1>2, CoreInvariant, PTL

-----------------------------------------------------------------------------
(* The driver stopped between requests, or within a reservation or a       *)
(* destruction: as long as the cleanup takes no pair from its creation, a  *)
(* creation keeps what it works on.                                        *)

Strikes == CleanupTake /\ control.pair \in Listed

LEMMA NoStrike == Typed /\ [~Strikes]_vars => ~Strikes
<1>1. Typed /\ CleanupTake => work' # work
  <2>1. "cleanup" \in Actor
    BY DEF Actor
  <2> QED  BY <2>1, GoesEffect DEF CleanupTake
<1> QED  BY <1>1 DEF Strikes, vars

\* The cleanup holds what it held, or has just taken; the creation what it has
\* allocated.
LEMMA JobStep ==
  ASSUME Typed, WorkInv, [Next]_vars
  PROVE  /\ \A p \in Pair : work'["cleanup"].pair = p \/ p \in todo'
              => work["cleanup"].pair = p \/ p \in todo \/ (CleanupTake /\ p \in Listed)
         /\ CleanupTake => control' = control
         /\ control'.at \in Creating \ Reserving =>
              \/ Allocate
              \/ control'.pair = control.pair /\ control.at \in Creating \ Reserving
<1> DEFINE Goal ==
         /\ \A p \in Pair : work'["cleanup"].pair = p \/ p \in todo'
              => work["cleanup"].pair = p \/ p \in todo \/ (CleanupTake /\ p \in Listed)
         /\ control'.at \in Creating \ Reserving =>
              \/ Allocate
              \/ control'.pair = control.pair /\ control.at \in Creating \ Reserving
<1>0. /\ Actor = {"control", "cleanup"} /\ "control" \in Actor /\ "cleanup" \in Actor
      /\ Creating \ Reserving = {"allocated", "Com", "ComRest", "Companion", "CompanionRest",
                                 "respond", "undoCom", "unlist", "discard"}
  BY DEF Actor, Creating, Reserving, Published, Listing
<1>9. CleanupTake => control' = control /\ work'["cleanup"].pair = work["cleanup"].pair
  BY <1>0, GoesEffect DEF CleanupTake
<1>a. SUFFICES Goal
  BY <1>9
<1>1. ASSUME NEW to, Goes("control", to), todo' = todo,
             to \in Creating \ Reserving => control.at \in Creating \ Reserving
      PROVE  Goal
  <2>1. /\ control'.at = to /\ control'.pair = control.pair /\ work'["cleanup"] = work["cleanup"]
    BY <1>0, <1>1, GoesEffect
  <2> QED  BY <1>1, <2>1
<1>2. ASSUME NEW to, NEW p, work' = [work EXCEPT !["control"].at = to, !["control"].pair = p],
             todo' = todo, to \in {"idle", "taken"}
      PROVE  Goal
  <2>1. control'.at = to /\ work'["cleanup"] = work["cleanup"]
    BY <1>0, <1>2 DEF Typed, Job
  <2> QED  BY <1>0, <1>2, <2>1
<1>3. CASE Reserve
  <2>1. control'.at \in Reserving /\ work'["cleanup"] = work["cleanup"]
    BY <1>3, ReserveEffect
  <2>2. todo' = todo
    BY <1>3 DEF Reserve
  <2> QED  BY <2>1, <2>2
<1>4. CASE Allocate
  <2>1. PICK q : work' = [work EXCEPT !["control"].at = "allocated", !["control"].pair = q]
    BY <1>4 DEF Allocate
  <2>2. work'["cleanup"] = work["cleanup"] /\ todo' = todo
    BY <1>0, <1>4, <2>1 DEF Allocate, Typed
  <2> QED  BY <1>4, <2>2
<1>5. CASE Respond \/ Discard \/ ReleaseCreation("control")
  <2>1. work' = [work EXCEPT !["control"].at = "idle", !["control"].pair = NULL] /\ todo' = todo
    BY <1>5 DEF Respond, Discard, ReleaseCreation
  <2> QED  BY <1>2, <2>1
<1>6. CASE AllocateFails \/ Publish \/ UndoCom \/ Unlist
  BY <1>0, <1>1, <1>6 DEF AllocateFails, Publish, UndoCom, Unlist
<1>7. ASSUME NEW s \in Side, CreateDevice(s) \/ FinishDevice(s) PROVE Goal
  <2>1. /\ control.at \in Creating \ Reserving /\ todo' = todo
        /\ \E to : Goes("control", to)
    BY <1>0, <1>7 DEF CreateDevice, FinishDevice, Side
  <2> QED  BY <1>1, <2>1
<1>8. CASE DestroyTake
  <2>1. PICK q : work' = [work EXCEPT !["control"].at = "taken", !["control"].pair = q]
    BY <1>8 DEF DestroyTake
  <2>2. todo' = todo
    BY <1>8 DEF DestroyTake
  <2> QED  BY <1>2, <2>1, <2>2
<1>10. CASE CleanupTake
  BY <1>9, <1>10 DEF CleanupTake
<1>11. CASE CleanupNext
  <2>1. PICK q \in todo :
          /\ todo' = todo \ {q}
          /\ work' = [work EXCEPT !["cleanup"].at = "taken", !["cleanup"].pair = q]
    BY <1>11 DEF CleanupNext
  <2>2. work'["cleanup"].pair = q /\ control' = control
    BY <1>0, <2>1, HoldsEffect
  <2> QED  BY <2>1, <2>2
<1>12. CASE CleanupEnd
  <2>1. \A a \in Actor : work'[a].at = "stopped" /\ work'[a].pair = work[a].pair
    BY <1>12 DEF CleanupEnd, Typed, Job
  <2> QED  BY <1>0, <1>12, <2>1 DEF CleanupEnd
<1>13. ASSUME NEW a \in Actor, Destroy(a) PROVE Goal
  <2>1. CASE ReleaseCreation("cleanup") /\ a = "cleanup"
    <3>1. /\ work' = [work EXCEPT !["cleanup"].at = "next", !["cleanup"].pair = NULL]
          /\ todo' = todo
      BY <2>1 DEF ReleaseCreation
    <3>2. work'["cleanup"].pair = NULL /\ control' = control
      BY <1>0, <3>1 DEF Typed, Job
    <3> QED  BY <3>1, <3>2, SentinelAssumption
  <2>2. CASE ~ReleaseCreation(a)
    <3>1. PICK to \in DestroyAt : Goes(a, to) /\ todo' = todo
      BY <1>13, <2>2 DEF Destroy, Deactivate, DetachQueues, DeleteFirst, DeleteSecond,
                         DeleteLocks, DestroyAt
    <3>2. /\ work'[a].at = to /\ work'[a].pair = work[a].pair
          /\ \A b \in Actor \ {a} : work'[b] = work[b]
      BY <3>1, GoesEffect
    <3>3. to \notin Creating \ Reserving
      BY <1>0, <3>1 DEF DestroyAt
    <3> QED  BY <1>0, <3>1, <3>2, <3>3
  <2> QED  BY <1>0, <1>5, <2>1, <2>2
<1>14. ASSUME work' = work, todo' = todo PROVE Goal
  BY <1>14
<1>15. ASSUME NEW h \in Handle,
              OpenCheck(h) \/ IoBegin(h) \/ CloseCom(h) \/ CloseCompanion(h) \/ Callback(h)
       PROVE  Goal
  BY <1>14, <1>15, HandleFrame
<1>16. CASE UNCHANGED vars
  BY <1>14, <1>16 DEF vars
<1>17. CASE Create
  BY <1>3, <1>4, <1>5, <1>6, <1>7, <1>17 DEF Create
<1> QED
  BY <1>8, <1>10, <1>11, <1>12, <1>13, <1>15, <1>16, <1>17 DEF Next, Cleanup

\* Whoever holds a structure owns it, and it is allocated.
LEMMA CalmHolds ==
  ASSUME Core, Calm, NEW a \in Actor, work[a].pair \in Pair
  PROVE  Owned(work[a].pair) /\ pair[work[a].pair].memory = "allocated"
<1>0. Typed /\ WorkInv /\ Actor = {"control", "cleanup"}
  BY DEF Core, Actor
<1>1. work[a].at \notin Bare
  BY <1>0, Held
<1>2. CASE a = "cleanup"
  BY <1>2 DEF Owned, Calm
<1>3. CASE a = "control"
  <2>1. control.at \in DestroyAt \/ control.at \in Creating \ Reserving
    BY <1>0, <1>1, <1>3 DEF WorkInv, ControlAt, Bare, Creating, Reserving, Published, Listing
  <2>2. control.at \in DestroyAt \/ pair[control.pair].Active
    BY <2>1 DEF Calm
  <2>3. Owned(control.pair)
    BY <2>2 DEF Owned
  <2> QED  BY <1>3, <2>3 DEF Calm
<1> QED  BY <1>0, <1>2, <1>3

LEMMA CalmInit == Init => Calm
<1> SUFFICES ASSUME Init PROVE Calm
  OBVIOUS
<1>1. /\ control.at = "idle" /\ control.pair = NULL /\ work["cleanup"].pair = NULL
      /\ todo = {} /\ \A i \in Slot : Ports[i] = NULL
  BY DEF Init, Actor
<1>2. \A p \in Pair : ~Owned(p)
  BY <1>1, SentinelAssumption DEF Owned
<1>3. control.at \notin Creating
  BY <1>1 DEF Creating, Reserving, Published, Listing
<1> QED  BY <1>1, <1>2, <1>3 DEF Calm, Listing

LEMMA CalmStep ==
  ASSUME Core, Core', Calm, [Next]_vars, ~Strikes
  PROVE  Calm'
<1>0. /\ Typed /\ WorkInv /\ EntryInv /\ OwnerInv /\ RefInv
      /\ Typed' /\ WorkInv' /\ OwnerInv'
      /\ Actor = {"control", "cleanup"} /\ "control" \in Actor /\ "cleanup" \in Actor
      /\ pair \in [Pair -> Structure]
  BY DEF Core, Actor, Typed
<1>c. ASSUME NEW p \in Pair, work["cleanup"].pair = p \/ p \in todo
      PROVE  pair[p].memory # "unused" /\ ~InTable(p) /\ control.pair # p
  <2>1. CASE work["cleanup"].pair = p
    <3>1. work["cleanup"].at \in DestroyAt
      BY <1>0, <2>1, Held DEF WorkInv, Bare
    <3> QED  BY <1>0, <2>1, <3>1, SentinelAssumption DEF OwnerInv, Apart, Owned, Calm
  <2>2. CASE p \in todo
    BY <1>0, <2>2, SentinelAssumption DEF OwnerInv, Apart, Owned, Calm
  <2> QED  BY <1>c, <2>1, <2>2
\* Apart
<1>1. ASSUME NEW p \in Pair, control'.pair = p
      PROVE  p # work'["cleanup"].pair /\ p \notin todo'
  <2> SUFFICES ASSUME work'["cleanup"].pair = p \/ p \in todo' PROVE FALSE
    OBVIOUS
  <2>1. CASE work["cleanup"].pair = p \/ p \in todo
    BY <1>0, <1>1, <1>c, <2>1, HoldStep
  <2>2. CASE CleanupTake /\ p \in Listed
    BY <1>0, <1>1, <2>2, JobStep DEF Strikes
  <2> QED  BY <1>0, <2>1, <2>2, JobStep
\* What the creation works on
<1>2. ASSUME control'.at \in Creating \ Reserving, NEW p \in Pair, control'.pair = p
      PROVE  pair'[p].Active /\ pair'[p].locks
  <2>1. CASE Allocate
    <3>1. PICK q \in Pair :
            /\ pair' = [pair EXCEPT ![q] =
                 [memory |-> "allocated", number |-> control.number, Active |-> TRUE,
                  RefCount |-> 1, open |-> {}, locks |-> TRUE, queues |-> {}]]
            /\ control'.pair = q
      BY <1>0, <2>1, AllocateOwned
    <3> QED  BY <1>0, <1>2, <3>1
  <2>2. CASE control.pair = p /\ control.at \in Creating \ Reserving
    <3>1. pair[p].Active /\ pair[p].locks
      BY <2>2 DEF Calm
    <3>2. control.at \notin DestroyAt
      BY <2>2 DEF Creating, Reserving, Published, Listing, DestroyAt
    <3>3. \A a \in Actor : work[a].at \in DestroyAt => work[a].pair # p
      BY <1>0, <2>2, <3>2, SentinelAssumption DEF Calm
    <3>4. CASE Quiet
      BY <1>0, <3>1, <3>3, <3>4, QuietKeeps DEF DestroyAt
    <3>5. CASE Discard
      <4>1. control'.at = "idle"
        BY <1>0, <3>5, HoldsEffect DEF Discard
      <4> QED  BY <1>2, <4>1 DEF Creating, Reserving, Published, Listing
    <3>6. ASSUME NEW a \in Actor, ReleaseCreation(a) PROVE pair'[p] = pair[p]
      BY <1>0, <3>3, <3>6 DEF ReleaseCreation, DestroyAt
    <3>7. ASSUME NEW h \in Handle,
                 OpenCheck(h) \/ IoBegin(h) \/ CloseCom(h) \/ CloseCompanion(h) \/ Callback(h)
          PROVE  pair'[p].Active = pair[p].Active /\ pair'[p].locks = pair[p].locks
      BY <1>0, <3>7, HandleKeeps
    <3>8. CASE UNCHANGED vars
      BY <3>1, <3>8 DEF vars
    <3>9. CASE Allocate
      BY <2>1, <3>9
    <3> QED
      BY <3>1, <3>4, <3>5, <3>6, <3>7, <3>8, <3>9 DEF Next, Create, Destroy, Quiet
  <2> QED  BY <1>0, <1>2, <2>1, <2>2, JobStep
<1>3. ASSUME control'.at \in Listing, NEW p \in Pair, control'.pair = p
      PROVE  InTable(p)'
  <2>1. pair'[p].Active
    BY <1>2, <1>3 DEF Creating, Published, Reserving, Listing
  <2>2. (InTable(p) \/ p \in todo \/ work["cleanup"].pair = p)'
    BY <1>0, <1>3, <2>1 DEF OwnerInv
  <2> QED  BY <1>1, <1>3, <2>2
\* Memory
<1>4. ASSUME NEW p \in Pair, Owned(p)' PROVE pair'[p].memory = "allocated"
  <2>a. Owned(p) => pair[p].memory = "allocated"
    BY DEF Calm
  <2>1. CASE Quiet
    BY <1>0, <1>4, <2>1, <2>a, QuietKeeps, QuietOwned
  <2>2. CASE Allocate
    <3>1. PICK q \in Pair :
            /\ pair' = [pair EXCEPT ![q] =
                 [memory |-> "allocated", number |-> control.number, Active |-> TRUE,
                  RefCount |-> 1, open |-> {}, locks |-> TRUE, queues |-> {}]]
            /\ Owned(p)' <=> Owned(p) \/ p = q
      BY <1>0, <2>2, AllocateOwned
    <3> QED  BY <1>0, <1>4, <2>a, <3>1
  <2>3. ASSUME NEW a \in Actor, ReleaseCreation(a) \/ (a = "control" /\ Discard)
        PROVE  pair'[p].memory = "allocated"
    <3>1. PICK to \in {"idle", "next"} : work' = [work EXCEPT ![a].at = to, ![a].pair = NULL]
      BY <2>3 DEF ReleaseCreation, Discard
    <3>2. /\ work[a].at \in {"discard", "unlocked"} /\ UNCHANGED <<Ports, todo>>
          /\ work[a].at = "discard" => a = "control" /\ Discard
      BY <2>3 DEF ReleaseCreation, Discard
    <3>3. ASSUME NEW q \in Pair
          PROVE  pair'[q].Active = pair[q].Active /\ (q # work[a].pair => pair'[q] = pair[q])
      <4>1. pair[q] \in Structure
        BY <1>0
      <4>2. CASE ReleaseCreation(a)
        BY <1>0, <4>1, <4>2 DEF ReleaseCreation, Released, Freed, Dropped, Structure
      <4>3. CASE a = "control" /\ Discard
        BY <1>0, <4>1, <4>3 DEF Discard, Freed, Structure
      <4> QED  BY <2>3, <4>2, <4>3
    <3>4. Owned(p) /\ (p = work[a].pair => work[a].at # "unlocked")
      BY <1>0, <1>4, <3>1, <3>2, <3>3, DropOwned
    <3>5. CASE p = work[a].pair /\ work[a].at = "discard"
      <4>1. /\ a = "control" /\ ~InTable(p) /\ p # work["cleanup"].pair /\ p \notin todo
        BY <1>0, <3>2, <3>5, SentinelAssumption DEF OwnerInv, Apart, Calm
      <4>2. /\ work'["control"].pair = NULL /\ work'["cleanup"] = work["cleanup"]
        BY <1>0, <3>1, <4>1 DEF Typed, Job
      <4>3. ~(Owned(p)')
        BY <3>2, <4>1, <4>2, SentinelAssumption DEF Owned, InTable
      <4> QED  BY <1>4, <4>3
    <3>6. CASE p # work[a].pair
      BY <2>a, <3>3, <3>4, <3>6
    <3> QED  BY <3>2, <3>4, <3>5, <3>6
  <2>4. ASSUME NEW h \in Handle,
               OpenCheck(h) \/ IoBegin(h) \/ CloseCom(h) \/ CloseCompanion(h) \/ Callback(h)
        PROVE  pair'[p].memory = "allocated"
    <3>1. UNCHANGED <<Ports, work, todo>>
      BY <2>4, HandleFrame
    <3>2. \A q \in Pair : pair'[q].Active = pair[q].Active
      BY <1>0, <2>4, HandleKeeps
    <3>3. Owned(p)
      BY <1>0, <1>4, <3>1, <3>2, HandleOwned
    <3>4. CASE CloseRelease(h) /\ file[h].pair = p /\ pair[p].RefCount = 1
      <4>1. file[h].at = "releasing"
        BY <3>4 DEF CloseRelease
      <4> QED  BY <1>0, <3>3, <3>4, <4>1, LastReference
    <3> QED  BY <1>0, <2>4, <2>a, <3>3, <3>4, HandleKeeps
  <2>5. CASE UNCHANGED vars
    <3>1. UNCHANGED <<Ports, work, todo>> /\ pair' = pair
      BY <2>5 DEF vars
    <3>2. Owned(p)
      BY <1>0, <1>4, <3>1, HandleOwned
    <3> QED  BY <2>a, <3>1, <3>2
  <2> QED
    BY <1>0, <2>1, <2>2, <2>3, <2>4, <2>5 DEF Next, Create, Destroy, Quiet
<1>5. /\ control'.pair \in Pair \union {NULL}
      /\ control'.at \in Creating \ Reserving => control'.pair \in Pair
      /\ Listing \subseteq Creating \ Reserving
  <2>1. work'["control"] \in Job
    BY <1>0 DEF Typed
  <2>2. control'.at \in Creating \ Reserving => control'.pair # NULL
    BY <1>0 DEF WorkInv, Creating, Reserving, Published, Listing, Bare
  <2>3. Listing \subseteq Creating \ Reserving
    BY DEF Creating, Reserving, Published, Listing
  <2> QED  BY <2>1, <2>2, <2>3 DEF Job
<1>6. /\ control'.pair # NULL => control'.pair # work'["cleanup"].pair /\ control'.pair \notin todo'
      /\ control'.at \in Creating \ Reserving => pair'[control'.pair].Active /\ pair'[control'.pair].locks
  BY <1>1, <1>2, <1>5
<1>7. control'.at \in Listing => InTable(control.pair)'
  BY <1>3, <1>5
<1> QED  BY <1>4, <1>6, <1>7 DEF Calm

LEMMA CalmInvariant == Spec /\ [][~Strikes]_vars => [](Core /\ Calm)
<1>1. Core /\ Core' /\ Calm /\ [Next]_vars /\ [~Strikes]_vars => Calm'
  BY CalmStep, NoStrike DEF Core
<1> QED  BY <1>1, CalmInit, CoreInvariant, PTL DEF Spec

-----------------------------------------------------------------------------
(* What a step does to the devices, and to what the invariants about them  *)
(* relate them to.                                                         *)

Becomes(p, s, v) ==
  /\ device'[p][s] = v
  /\ \A q \in Pair, t \in Side : q # p \/ t # s => device'[q][t] = device[q][t]

Deletes(a, s) ==
  \/ a = "control" /\ s = "Com" /\ UndoCom
  \/ s = "Com" /\ DeleteFirst(a)
  \/ s = "Companion" /\ DeleteSecond(a)

LEMMA DeviceSet ==
  ASSUME Typed, NEW p \in Pair, NEW s \in Side, NEW v, device' = [device EXCEPT ![p][s] = v]
  PROVE  Becomes(p, s, v)
BY DEF Typed, Becomes

LEMMA DeviceEffect ==
  ASSUME Core, [Next]_vars
  PROVE  \/ device' = device
         \/ \E s \in Side : CreateDevice(s) /\ Becomes(control.pair, s, "building")
         \/ \E s \in Side : /\ FinishDevice(s) /\ ~LinkTaken(control.number, s)
                            /\ Becomes(control.pair, s, "live")
                            /\ control'.at = IF s = "Com" THEN "Companion" ELSE "respond"
         \/ \E a \in Actor, s \in Side :
              /\ Deletes(a, s) /\ Drained(work[a].pair, s)
              /\ Becomes(work[a].pair, s,
                         IF device[work[a].pair][s] = "none" THEN "none" ELSE "deleted")
<1>0. Typed /\ WorkInv /\ "control" \in Actor /\ "Com" \in Side /\ "Companion" \in Side
  BY DEF Core, Actor, Side
<1>1. ASSUME NEW s \in Side, CreateDevice(s), device' # device
      PROVE  Becomes(control.pair, s, "building")
  <2>1. control.pair \in Pair
    BY <1>0, <1>1, Held DEF CreateDevice, Bare, Reserving, Side
  <2> QED  BY <1>0, <1>1, <2>1, DeviceSet DEF CreateDevice
<1>2. ASSUME NEW s \in Side, FinishDevice(s), device' # device
      PROVE  /\ ~LinkTaken(control.number, s) /\ Becomes(control.pair, s, "live")
             /\ control'.at = IF s = "Com" THEN "Companion" ELSE "respond"
  <2>1. control.pair \in Pair
    BY <1>0, <1>2, Held DEF FinishDevice, Bare, Reserving, Side
  <2>2. /\ ~LinkTaken(control.number, s) /\ device' = [device EXCEPT ![control.pair][s] = "live"]
        /\ Goes("control", IF s = "Com" THEN "Companion" ELSE "respond")
    BY <1>2 DEF FinishDevice
  <2> QED  BY <1>0, <2>1, <2>2, DeviceSet, GoesEffect
<1>3. ASSUME NEW a \in Actor, NEW s \in Side, Deletes(a, s)
      PROVE  /\ Drained(work[a].pair, s)
             /\ Becomes(work[a].pair, s,
                        IF device[work[a].pair][s] = "none" THEN "none" ELSE "deleted")
  <2>1. work[a].pair \in Pair
    BY <1>0, <1>3, Held DEF Deletes, UndoCom, DeleteFirst, DeleteSecond, Bare, Reserving
  <2>2. DeleteDevice(work[a].pair, s)
    BY <1>3 DEF Deletes, UndoCom, DeleteFirst, DeleteSecond, First, Other
  <2>3. device' = [device EXCEPT ![work[a].pair][s] =
                     IF device[work[a].pair][s] = "none" THEN "none" ELSE "deleted"]
    BY <2>2 DEF DeleteDevice
  <2> QED  BY <1>0, <2>1, <2>2, <2>3, DeviceSet DEF DeleteDevice
<1>4. \/ device' = device \/ \E s \in Side : CreateDevice(s) \/ FinishDevice(s)
      \/ \E a \in Actor, s \in Side : Deletes(a, s)
  <2>1. CASE Create
    BY <1>0, <2>1 DEF Create, Deletes, Reserve, Allocate, AllocateFails, Publish, Respond,
                      Unlist, Discard
  <2>2. CASE DestroyTake \/ Cleanup
    BY <2>2 DEF DestroyTake, Cleanup, CleanupTake, CleanupNext, CleanupEnd
  <2>3. ASSUME NEW a \in Actor, Destroy(a) PROVE device' = device \/ \E s \in Side : Deletes(a, s)
    BY <1>0, <2>3 DEF Destroy, Deletes, Deactivate, DetachQueues, DeleteLocks, ReleaseCreation
  <2>4. ASSUME NEW h \in Handle,
               OpenCheck(h) \/ IoBegin(h) \/ CloseCom(h) \/ CloseCompanion(h) \/ Callback(h)
        PROVE  device' = device
    BY <2>4, HandleFrame
  <2>5. CASE UNCHANGED vars
    BY <2>5 DEF vars
  <2> QED  BY <2>1, <2>2, <2>3, <2>4, <2>5 DEF Next
<1> QED  BY <1>1, <1>2, <1>3, <1>4

\* A structure's number stays, none becomes unused, and its locks and its owner go
\* only with an actor that is done with both devices.
LEMMA PairKeeps ==
  ASSUME Core, [Next]_vars, NEW p \in Pair
  PROVE  /\ pair[p].memory # "unused" => pair'[p].number = pair[p].number
         /\ pair'[p].memory = "unused" => pair[p].memory = "unused"
         /\ pair[p].memory # "unused" /\ pair[p].locks =>
              \/ pair'[p].locks
              \/ \E a \in Actor : work[a].at \in {"bothDeleted", "discard"} /\ work[a].pair = p
         /\ Owned(p) =>
              \/ Owned(p)'
              \/ \E a \in Actor : work[a].at \in {"unlocked", "discard"} /\ work[a].pair = p
         /\ InTable(p)' => InTable(p) \/ (p = control.pair /\ control.at = "allocated")
         /\ pair'[p].Active => pair[p].Active \/ ~InTable(p)'
BY PairFate DEF Core

\* A device is gone when its opens and requests are, so the steps of a handle's
\* thread find it.
LEMMA ServingStep ==
  ASSUME Core, DeviceInv, StageInv, [Next]_vars
  PROVE  \A h \in Handle : file'[h].at \in Serving =>
           device'[file'[h].pair][file'[h].side] = "live"
<1>0. /\ Typed /\ WorkInv /\ RefInv /\ "control" \in Actor
      /\ file \in [Handle -> Open]
      /\ \A h \in Handle : file[h].at \in Serving => device[file[h].pair][file[h].side] = "live"
  BY DEF Core, Actor, Typed, DeviceInv
<1>1. ASSUME NEW h \in Handle, file[h].at \in Serving
      PROVE  file[h].pair \in Pair /\ file[h].side \in Side
  BY <1>0, <1>1, OpenUpdate DEF RefInv, Serving
<1>2. ASSUME file' = file PROVE \A h \in Handle : file'[h].at \in Serving =>
                                  device'[file'[h].pair][file'[h].side] = "live"
  <2> SUFFICES ASSUME NEW h \in Handle, file[h].at \in Serving
               PROVE  device'[file[h].pair][file[h].side] = "live"
    BY <1>2
  <2>0. PICK p \in Pair, s \in Side : p = file[h].pair /\ s = file[h].side
    BY <1>1
  <2>1. device[p][s] = "live"
    BY <1>0, <2>0
  <2>2. ASSUME NEW t \in Side, CreateDevice(t), Becomes(control.pair, t, "building")
        PROVE  device'[p][s] = "live"
    <3>1. device[control.pair][t] = "none"
      BY <2>2 DEF CreateDevice, StageInv, Side
    <3> QED  BY <2>1, <2>2, <3>1 DEF Becomes
  <2>3. ASSUME NEW t \in Side, Becomes(control.pair, t, "live")
        PROVE  device'[p][s] = "live"
    BY <2>1, <2>3 DEF Becomes
  <2>4. ASSUME NEW a \in Actor, NEW t \in Side, Drained(work[a].pair, t), NEW v,
               Becomes(work[a].pair, t, v)
        PROVE  device'[p][s] = "live"
    <3>1. p # work[a].pair \/ s # t
      BY <2>0, <2>4 DEF Drained
    <3> QED  BY <2>1, <2>4, <3>1 DEF Becomes
  <2>5. device'[p][s] = "live"
    BY <2>1, <2>2, <2>3, <2>4, DeviceEffect
  <2> QED  BY <2>0, <2>5
<1>3. ASSUME NEW h \in Handle, device' = device,
             \A g \in Handle \ {h} : file'[g] = file[g],
             file'[h].at \in Serving => device[file'[h].pair][file'[h].side] = "live"
      PROVE  \A g \in Handle : file'[g].at \in Serving =>
                                  device'[file'[g].pair][file'[g].side] = "live"
  BY <1>0, <1>3
<1>4. ASSUME NEW h \in Handle,
             OpenCheck(h) \/ IoBegin(h) \/ CloseCom(h) \/ CloseCompanion(h) \/ Callback(h)
      PROVE  \A g \in Handle : file'[g].at \in Serving =>
                                  device'[file'[g].pair][file'[g].side] = "live"
  <2>1. device' = device
    BY <1>4, HandleFrame
  <2>2. CASE OpenCheck(h)
    <3>1. PICK p \in Pair, s \in Side :
            /\ device[p][s] = "live"
            /\ file' = [file EXCEPT ![h] = [at |-> "checked", pair |-> p, side |-> s]]
      BY <2>2 DEF OpenCheck
    <3>2. file'[h] = [at |-> "checked", pair |-> p, side |-> s]
          /\ \A g \in Handle \ {h} : file'[g] = file[g]
      BY <1>0, <3>1
    <3>3. device[file'[h].pair][file'[h].side] = "live"
      BY <3>1, <3>2
    <3> QED  BY <1>3, <2>1, <3>2, <3>3
  <2>3. CASE file' = Closed(h)
    <3>1. file'[h].at = "none" /\ \A g \in Handle \ {h} : file'[g] = file[g]
      BY <1>0, <2>3, HoldersClosed
    <3> QED  BY <1>3, <2>1, <3>1 DEF Serving
  <2>4. ASSUME NEW to, Moves(h, to),
               to \in Serving => device[file[h].pair][file[h].side] = "live"
        PROVE  \A g \in Handle : file'[g].at \in Serving =>
                                  device'[file'[g].pair][file'[g].side] = "live"
    <3>1. /\ file'[h].at = to /\ file'[h].pair = file[h].pair /\ file'[h].side = file[h].side
          /\ \A g \in Handle \ {h} : file'[g] = file[g]
      BY <1>0, <2>4 DEF Moves, Open
    <3> QED  BY <1>3, <2>1, <2>4, <3>1
  <2>5. CASE IoBegin(h)
    BY <2>4, <2>5 DEF IoBegin
  <2>6. CASE OpenClaim(h) \/ IoSnapshot(h)
    <3>1. device[file[h].pair][file[h].side] = "live"
      BY <1>0, <2>6 DEF OpenClaim, IoSnapshot, Serving
    <3> QED  BY <2>3, <2>4, <2>6, <3>1 DEF OpenClaim, IoSnapshot
  <2>7. CASE OpenSignal(h) \/ IoUse(h) \/ CloseCom(h) \/ CloseCheck(h) \/ CloseSnapshot(h)
               \/ CloseNotify(h) \/ CloseCompanion(h)
    <3>1. PICK to \in {"open", "closing", "signalling", "releasing", "notifying"} : Moves(h, to)
      BY <2>7 DEF OpenSignal, IoUse, CloseCom, CloseCheck, CloseSnapshot, CloseNotify,
                  CloseCompanion
    <3> QED  BY <2>4, <3>1 DEF Serving
  <2>8. CASE CloseRelease(h)
    BY <2>3, <2>8 DEF CloseRelease
  <2> QED  BY <1>4, <2>2, <2>5, <2>6, <2>7, <2>8 DEF Callback
<1>5. ASSUME ~\E h \in Handle : OpenCheck(h) \/ IoBegin(h) \/ CloseCom(h) \/ CloseCompanion(h)
                                  \/ Callback(h)
      PROVE  file' = file
  <2>1. CASE Quiet
    BY <1>0, <2>1, QuietKeeps
  <2>2. CASE Allocate \/ Discard \/ \E a \in Actor : ReleaseCreation(a)
    BY <2>2 DEF Allocate, Discard, ReleaseCreation
  <2>3. CASE UNCHANGED vars
    BY <2>3 DEF vars
  <2> QED  BY <1>5, <2>1, <2>2, <2>3 DEF Next, Create, Destroy, Quiet
<1> QED  BY <1>2, <1>4, <1>5

LEMMA DeviceStep ==
  ASSUME Core, Core', Calm, DeviceInv, StageInv, [Next]_vars
  PROVE  DeviceInv'
<1>0. /\ Typed /\ Typed' /\ WorkInv /\ EntryInv /\ OwnerInv /\ RefInv /\ RefInv'
      /\ "control" \in Actor /\ Side = {"Com", "Companion"}
      /\ \A a \in Actor : work[a].pair \in Pair
           => pair[work[a].pair].memory = "allocated" /\ Owned(work[a].pair)
  BY CalmHolds DEF Core, Actor, Side
<1>1. ASSUME NEW p \in Pair, NEW s \in Side, device'[p][s] = "live"
      PROVE  \/ device[p][s] = "live"
             \/ FinishDevice(s) /\ p = control.pair
  BY <1>1, DeviceEffect DEF Becomes
<1>2. ASSUME NEW p \in Pair, NEW s \in Side, device'[p][s] = "live"
      PROVE  Owned(p)' /\ pair'[p].locks
  <2>1. Owned(p) /\ pair[p].locks /\ pair[p].memory = "allocated"
    <3>1. CASE device[p][s] = "live"
      BY <1>0, <3>1 DEF DeviceInv, Calm
    <3>2. CASE FinishDevice(s) /\ p = control.pair
      BY <1>0, <3>2 DEF FinishDevice, Calm, Creating, Published, Listing, Reserving
    <3> QED  BY <1>1, <1>2, <3>1, <3>2
  <2>2. ~\E a \in Actor : work[a].at \in {"bothDeleted", "unlocked", "discard"}
                            /\ work[a].pair = p
    <3> SUFFICES ASSUME NEW a \in Actor, work[a].at \in {"bothDeleted", "unlocked", "discard"},
                        work[a].pair = p
                 PROVE  FALSE
      OBVIOUS
    <3>1. device[p]["Com"] # "live" /\ device[p]["Companion"] # "live"
      <4>1. CASE work[a].at = "discard"
        <5>1. a = "control"
          BY <1>0, <4>1 DEF WorkInv, DestroyAt, Actor
        <5> QED  BY <1>0, <4>1, <5>1 DEF StageInv
      <4>2. CASE work[a].at # "discard"
        BY <1>0, <4>2 DEF StageInv
      <4> QED  BY <4>1, <4>2
    <3>2. FinishDevice(s) /\ p = control.pair
      BY <1>0, <1>1, <1>2, <3>1
    <3>3. control.at \in {"ComRest", "CompanionRest"}
      BY <3>2 DEF FinishDevice
    <3>4. a = "cleanup" /\ p \in Pair
      BY <3>3, <1>0 DEF Actor
    <3> QED  BY <1>0, <3>2, <3>4, SentinelAssumption DEF Calm
  <2> QED  BY <2>1, <2>2, PairKeeps
<1>3. ASSUME NEW p \in Pair, device'[p]["Com"] = "live" PROVE device'[p]["Companion"] # "deleted"
  <2>0. device[p]["Com"] = "live" => device[p]["Companion"] # "deleted"
    BY DEF DeviceInv
  <2>1. CASE device' = device
    BY <1>3, <2>0, <2>1
  <2>2. ASSUME NEW s \in Side, Becomes(control.pair, s, "building") PROVE device'[p]["Companion"] # "deleted"
    BY <1>0, <1>3, <2>0, <2>2 DEF Becomes
  <2>3. ASSUME NEW s \in Side, FinishDevice(s), Becomes(control.pair, s, "live")
        PROVE  device'[p]["Companion"] # "deleted"
    <3>1. s = "Com" => device[control.pair]["Companion"] = "none"
      BY <2>3 DEF FinishDevice, StageInv
    <3> QED  BY <1>0, <1>3, <2>0, <2>3, <3>1 DEF Becomes
  <2>4. ASSUME NEW a \in Actor, NEW s \in Side, Deletes(a, s), NEW v \in {"none", "deleted"},
               Becomes(work[a].pair, s, v)
        PROVE  device'[p]["Companion"] # "deleted"
    <3>1. s = "Companion" => device[work[a].pair]["Com"] # "live"
      BY <2>4 DEF Deletes, DeleteSecond, StageInv
    <3> QED  BY <1>0, <1>3, <2>0, <2>4, <3>1 DEF Becomes
  <2> QED  BY <2>1, <2>2, <2>3, <2>4, DeviceEffect
<1>4. ASSUME NEW p \in Pair, NEW s \in Side, pair'[p].memory = "unused"
      PROVE  device'[p][s] = "none"
  <2>1. pair[p].memory = "unused" /\ device[p][s] = "none"
    BY <1>4, PairKeeps DEF DeviceInv
  <2>2. \A a \in Actor : work[a].pair # p
    BY <1>0, <2>1
  <2> QED  BY <1>0, <2>1, <2>2, DeviceEffect DEF Becomes
<1> QED  BY <1>2, <1>3, <1>4, ServingStep DEF DeviceInv

\* How far an actor at a place has got with the devices of the structure it holds
Stage(at, p) ==
  /\ at \in {"allocated", "Com"} => \A s \in Side : device[p][s] = "none"
  /\ at = "ComRest" => device[p]["Com"] = "building"
  /\ at \in {"ComRest", "Companion"} => device[p]["Companion"] = "none"
  /\ at \in {"Companion", "CompanionRest", "respond"} => device[p]["Com"] = "live"
  /\ at = "CompanionRest" => device[p]["Companion"] = "building"
  /\ at = "respond" => device[p]["Companion"] = "live"
  /\ at \in {"unlist", "discard"} => \A s \in Side : device[p][s] # "live"
  /\ at = "undoCom" => device[p]["Companion"] # "live"
  /\ at \in {"taken", "inactive"} => device[p]["Com"] = "live"
  /\ at \in {"comDeleted", "bothDeleted", "unlocked"} => device[p]["Com"] # "live"
  /\ at \in {"bothDeleted", "unlocked"} => device[p]["Companion"] # "live"

LEMMA StageIs ==
  ASSUME WorkInv
  PROVE  StageInv <=> /\ \A a \in Actor : Stage(work[a].at, work[a].pair)
                      /\ \A p \in todo : device[p]["Com"] = "live"
<1>1. /\ "control" \in Actor /\ \A a \in Actor : a = "control" \/ a = "cleanup"
      /\ work["cleanup"].at \in {"idle", "next", "stopped", "taken", "inactive", "detached",
                                 "comDeleted", "bothDeleted", "unlocked"}
  BY DEF Actor, WorkInv, DestroyAt
<1> QED  BY <1>1 DEF StageInv, Stage

LEMMA StageStep ==
  ASSUME Core, Core', Calm, Calm', DeviceInv, StageInv, NumberInv, [Next]_vars, ~Strikes
  PROVE  StageInv'
<1>0. /\ Typed /\ WorkInv /\ WorkInv' /\ OwnerInv
      /\ Actor = {"control", "cleanup"} /\ "control" \in Actor /\ "cleanup" \in Actor
      /\ Side = {"Com", "Companion"} /\ "Com" \in Side /\ "Companion" \in Side
      /\ \A a \in Actor : Stage(work[a].at, work[a].pair)
      /\ \A p \in todo : p \in Pair /\ device[p]["Com"] = "live"
      /\ StageInv' <=> /\ \A a \in Actor : Stage(work[a].at, work[a].pair)'
                       /\ \A p \in todo' : device'[p]["Com"] = "live"
  <2>1. Typed /\ WorkInv /\ WorkInv' /\ OwnerInv /\ todo \subseteq Pair
    BY DEF Core, Typed
  <2>2. (WorkInv => (StageInv <=> /\ \A a \in Actor : Stage(work[a].at, work[a].pair)
                                  /\ \A p \in todo : device[p]["Com"] = "live"))'
    BY StageIs, PTL
  <2> QED  BY <2>1, <2>2, StageIs DEF Actor, Side
\* The other actor's job and the pairs the cleanup took
<1>a. ASSUME NEW a \in Actor, NEW to, NEW p,
             \A b \in Actor \ {a} : work'[b] = work[b], work'[a].at = to, work'[a].pair = p,
             \A q \in Pair : q # p => \A s \in Side : device'[q][s] = device[q][s],
             Stage(to, p)', todo' \subseteq todo
      PROVE  StageInv'
  <2>1. ASSUME NEW b \in Actor \ {a} PROVE Stage(work[b].at, work[b].pair)'
    <3>1. work'[b] = work[b] /\ Stage(work[b].at, work[b].pair)
      BY <1>0, <1>a
    <3>2. CASE work[b].at \in Bare
      BY <3>1, <3>2 DEF Stage, Bare, Reserving
    <3>3. CASE work[b].at \notin Bare
      <4>1. work[b].pair \in Pair
        BY <1>0, <3>3, Held
      <4>2. work[b].pair # p
        <5>1. p \in Pair => p # work'[b].pair
          BY <1>0, <1>a, SentinelAssumption DEF Calm
        <5> QED  BY <3>1, <4>1, <5>1
      <4>3. \A s \in Side : device'[work[b].pair][s] = device[work[b].pair][s]
        BY <1>a, <4>1, <4>2
      <4> QED  BY <1>0, <3>1, <4>3 DEF Stage
    <3> QED  BY <3>2, <3>3
  <2>2. Stage(work[a].at, work[a].pair)'
    BY <1>a
  <2>3. ASSUME NEW q \in todo' PROVE device'[q]["Com"] = "live"
    <3>1. q # p
      <4>1. todo' \subseteq Pair
        BY DEF Core, Typed
      <4> QED  BY <1>0, <1>a, <2>3, <4>1, SentinelAssumption DEF Core, OwnerInv, Apart, Calm
    <3> QED  BY <1>0, <1>a, <2>3, <3>1
  <2> QED  BY <1>0, <2>1, <2>2, <2>3
\* A step that changes no device
<1>b. ASSUME NEW a \in Actor, NEW to, Goes(a, to), device' = device, todo' \subseteq todo,
             Stage(to, work[a].pair)
      PROVE  StageInv'
  <2>1. PICK p : p = work[a].pair
    OBVIOUS
  <2>2. work'[a].at = to /\ work'[a].pair = p /\ \A b \in Actor \ {a} : work'[b] = work[b]
    BY <1>0, <1>b, <2>1, GoesEffect
  <2>3. Stage(to, p)'
    BY <1>b, <2>1 DEF Stage
  <2> QED  BY <1>a, <1>b, <2>2, <2>3
<1>c. ASSUME NEW a \in Actor, NEW to \in Bare, device' = device, todo' \subseteq todo,
             work'[a].at = to, \A b \in Actor \ {a} : work'[b] = work[b]
      PROVE  StageInv'
  <2>1. PICK p : p = work'[a].pair
    OBVIOUS
  <2>2. Stage(to, p)'
    BY <1>c DEF Stage, Bare, Reserving
  <2> QED  BY <1>a, <1>c, <2>1, <2>2
<1>d. ASSUME NEW a \in Actor, NEW to \in Bare, NEW p, device' = device, todo' \subseteq todo,
             work' = [work EXCEPT ![a].at = to, ![a].pair = p]
      PROVE  StageInv'
  <2>1. work'[a].at = to /\ \A b \in Actor \ {a} : work'[b] = work[b]
    BY <1>0, <1>d, HoldsEffect
  <2> QED  BY <1>c, <1>d, <2>1
\* A step that changes one
<1>e. ASSUME NEW a \in Actor, NEW s \in Side, NEW v, NEW to, Goes(a, to), todo' = todo,
             Becomes(work[a].pair, s, v), work[a].pair \in Pair,
             \A p \in Pair : p = work[a].pair => Stage(to, p)'
      PROVE  StageInv'
  <2>1. PICK p \in Pair : p = work[a].pair
    BY <1>e
  <2>2. work'[a].at = to /\ work'[a].pair = p /\ \A b \in Actor \ {a} : work'[b] = work[b]
    BY <1>0, <1>e, <2>1, GoesEffect
  <2>3. \A q \in Pair : q # p => \A t \in Side : device'[q][t] = device[q][t]
    BY <1>e, <2>1 DEF Becomes
  <2> QED  BY <1>a, <1>e, <2>1, <2>2, <2>3
<1>1. CASE Reserve
  <2>1. /\ device' = device /\ todo' = todo
    BY <1>1 DEF Reserve
  <2>2. \E to \in Reserving : work'["control"].at = to /\ work'["cleanup"] = work["cleanup"]
    BY <1>0, <1>1, ReserveEffect
  <2> QED  BY <1>0, <1>c, <2>1, <2>2 DEF Bare
<1>2. CASE Allocate
  <2>1. PICK p \in Pair :
           /\ pair[p].memory = "unused"
           /\ work' = [work EXCEPT !["control"].at = "allocated", !["control"].pair = p]
    BY <1>2 DEF Allocate
  <2>2. device' = device /\ todo' = todo
    BY <1>2 DEF Allocate
  <2>3. /\ work'["control"].at = "allocated" /\ work'["control"].pair = p
        /\ \A b \in Actor \ {"control"} : work'[b] = work[b]
    BY <1>0, <2>1 DEF Typed, Job
  <2>4. Stage("allocated", p)'
    BY <2>1, <2>2 DEF Stage, DeviceInv
  <2> QED  BY <1>0, <1>a, <2>2, <2>3, <2>4
<1>3. CASE AllocateFails
  BY <1>0, <1>3, <1>b DEF AllocateFails, Stage
<1>4. CASE Publish
  BY <1>0, <1>4, <1>b DEF Publish, Stage
<1>5. CASE Respond
  BY <1>0, <1>5, <1>d DEF Respond, Bare
<1>6. ASSUME NEW s \in Side, CreateDevice(s) PROVE StageInv'
  <2>0. control.at = s /\ todo' = todo /\ Stage(control.at, control.pair) /\ control.pair \in Pair
    BY <1>0, <1>6, Held DEF CreateDevice, Bare, Reserving
  <2>1. CASE device' = device /\ Goes("control", IF s = "Com" THEN "unlist" ELSE "undoCom")
    <3>1. Stage(IF s = "Com" THEN "unlist" ELSE "undoCom", control.pair)
      BY <1>0, <2>0 DEF Stage
    <3> QED  BY <1>0, <1>b, <2>0, <2>1, <3>1
  <2>2. CASE /\ device' = [device EXCEPT ![control.pair][s] = "building"]
             /\ Goes("control", IF s = "Com" THEN "ComRest" ELSE "CompanionRest")
    <3>1. Becomes(control.pair, s, "building")
      BY <1>0, <2>0, <2>2, DeviceSet
    <3>2. ASSUME NEW p \in Pair, p = control.pair
          PROVE  Stage(IF s = "Com" THEN "ComRest" ELSE "CompanionRest", p)'
      BY <1>0, <2>0, <3>1, <3>2 DEF Stage, Becomes
    <3> QED  BY <1>0, <1>e, <2>0, <2>2, <3>1, <3>2
  <2> QED  BY <1>6, <2>1, <2>2 DEF CreateDevice
<1>7. ASSUME NEW s \in Side, FinishDevice(s) PROVE StageInv'
  <2>0. /\ control.at = IF s = "Com" THEN "ComRest" ELSE "CompanionRest"
        /\ todo' = todo /\ Stage(control.at, control.pair) /\ control.pair \in Pair
    BY <1>0, <1>7, Held DEF FinishDevice, Bare, Reserving
  <2>1. CASE device' = device /\ Goes("control", IF s = "Com" THEN "unlist" ELSE "undoCom")
    <3>1. Stage(IF s = "Com" THEN "unlist" ELSE "undoCom", control.pair)
      BY <1>0, <2>0 DEF Stage
    <3> QED  BY <1>0, <1>b, <2>0, <2>1, <3>1
  <2>2. CASE /\ device' = [device EXCEPT ![control.pair][s] = "live"]
             /\ Goes("control", IF s = "Com" THEN "Companion" ELSE "respond")
    <3>1. Becomes(control.pair, s, "live")
      BY <1>0, <2>0, <2>2, DeviceSet
    <3>2. ASSUME NEW p \in Pair, p = control.pair
          PROVE  Stage(IF s = "Com" THEN "Companion" ELSE "respond", p)'
      BY <1>0, <2>0, <3>1, <3>2 DEF Stage, Becomes
    <3> QED  BY <1>0, <1>e, <2>0, <2>2, <3>1, <3>2
  <2> QED  BY <1>7, <2>1, <2>2 DEF FinishDevice
<1>8. ASSUME NEW a \in Actor, NEW s \in Side, Deletes(a, s) PROVE StageInv'
  <2>0. /\ work[a].pair \in Pair /\ Stage(work[a].at, work[a].pair) /\ todo' = todo
        /\ \E to : Goes(a, to)
    BY <1>0, <1>8, Held DEF Deletes, UndoCom, DeleteFirst, DeleteSecond, Bare, Reserving
  <2>1. PICK v \in {"none", "deleted"} : Becomes(work[a].pair, s, v)
    <3>1. device' = [device EXCEPT ![work[a].pair][s] =
                       IF device[work[a].pair][s] = "none" THEN "none" ELSE "deleted"]
      BY <1>8 DEF Deletes, UndoCom, DeleteFirst, DeleteSecond, First, Other, DeleteDevice
    <3>2. Becomes(work[a].pair, s, IF device[work[a].pair][s] = "none" THEN "none" ELSE "deleted")
      BY <1>0, <2>0, <3>1, DeviceSet
    <3> QED  BY <3>2
  <2>2. CASE UndoCom /\ a = "control" /\ s = "Com"
    <3>1. ASSUME NEW p \in Pair, p = work[a].pair PROVE Stage("unlist", p)'
      BY <1>0, <2>0, <2>1, <2>2, <3>1 DEF Stage, Becomes, UndoCom
    <3> QED  BY <1>e, <2>0, <2>1, <2>2, <3>1 DEF UndoCom
  <2>3. CASE DeleteFirst(a) /\ s = "Com"
    <3>1. ASSUME NEW p \in Pair, p = work[a].pair PROVE Stage("comDeleted", p)'
      BY <1>0, <2>0, <2>1, <2>3, <3>1 DEF Stage, Becomes, DeleteFirst
    <3> QED  BY <1>e, <2>0, <2>1, <2>3, <3>1 DEF DeleteFirst
  <2>4. CASE DeleteSecond(a) /\ s = "Companion"
    <3>1. ASSUME NEW p \in Pair, p = work[a].pair PROVE Stage("bothDeleted", p)'
      BY <1>0, <2>0, <2>1, <2>4, <3>1 DEF Stage, Becomes, DeleteSecond
    <3> QED  BY <1>e, <2>0, <2>1, <2>4, <3>1 DEF DeleteSecond
  <2> QED  BY <1>8, <2>2, <2>3, <2>4 DEF Deletes
<1>9. CASE Unlist
  BY <1>0, <1>9, <1>b DEF Unlist, Stage
<1>10. CASE Discard
  BY <1>0, <1>10, <1>d DEF Discard, Bare
\* Whatever is taken from the table, and not from its creation, is ready.
<1>11. ASSUME NEW p \in Listed, p # control.pair PROVE device[p]["Com"] = "live"
  BY <1>0, <1>11 DEF NumberInv
<1>12. CASE DestroyTake
  <2>1. PICK p \in Listed : work' = [work EXCEPT !["control"].at = "taken", !["control"].pair = p]
    BY <1>12 DEF DestroyTake
  <2>2. device' = device /\ todo' = todo /\ device[p]["Com"] = "live"
    <3>1. control.pair = NULL
      BY <1>0, <1>12 DEF DestroyTake, WorkInv, Bare
    <3>2. p # control.pair
      BY <3>1, SentinelAssumption DEF Listed
    <3> QED  BY <1>11, <1>12, <3>2 DEF DestroyTake
  <2>3. /\ work'["control"].at = "taken" /\ work'["control"].pair = p
        /\ \A b \in Actor \ {"control"} : work'[b] = work[b]
    BY <1>0, <2>1, HoldsEffect
  <2>4. Stage("taken", p)'
    BY <2>2 DEF Stage
  <2> QED  BY <1>0, <1>a, <2>2, <2>3, <2>4
<1>13. CASE CleanupTake
  <2>1. Goes("cleanup", "next") /\ device' = device /\ todo' = Listed
    BY <1>13 DEF CleanupTake
  <2>2. /\ work'["cleanup"].at = "next" /\ work'["control"] = work["control"]
    BY <1>0, <2>1, GoesEffect
  <2>3. Stage(work["control"].at, work["control"].pair)' /\ Stage(work["cleanup"].at, work["cleanup"].pair)'
    BY <1>0, <2>1, <2>2 DEF Stage
  <2>4. \A p \in todo' : device'[p]["Com"] = "live"
    BY <1>11, <1>13, <2>1 DEF Strikes
  <2> QED  BY <1>0, <2>3, <2>4
<1>14. CASE CleanupNext
  <2>1. PICK p \in todo : /\ todo' = todo \ {p}
                          /\ work' = [work EXCEPT !["cleanup"].at = "taken", !["cleanup"].pair = p]
    BY <1>14 DEF CleanupNext
  <2>2. device' = device /\ device[p]["Com"] = "live"
    BY <1>0, <1>14, <2>1 DEF CleanupNext
  <2>3. /\ work'["cleanup"].at = "taken" /\ work'["cleanup"].pair = p
        /\ \A b \in Actor \ {"cleanup"} : work'[b] = work[b]
    BY <1>0, <2>1, HoldsEffect
  <2>4. Stage("taken", p)'
    BY <2>2 DEF Stage
  <2> QED  BY <1>0, <1>a, <2>1, <2>2, <2>3, <2>4
<1>15. CASE CleanupEnd
  <2>1. /\ \A a \in Actor : work'[a].at = "stopped"
        /\ device' = device /\ todo' = todo
    BY <1>0, <1>15 DEF CleanupEnd, Typed, Job
  <2>2. \A a \in Actor : Stage(work[a].at, work[a].pair)'
    BY <2>1 DEF Stage
  <2> QED  BY <1>0, <2>1, <2>2
<1>16. ASSUME NEW a \in Actor, Deactivate(a) \/ DetachQueues(a) \/ DeleteLocks(a)
       PROVE  StageInv'
  <2>0. Stage(work[a].at, work[a].pair)
    BY <1>0
  <2>1. CASE Deactivate(a)
    BY <1>b, <2>0, <2>1 DEF Deactivate, Stage
  <2>2. CASE DetachQueues(a)
    BY <1>b, <2>0, <2>2 DEF DetachQueues, Stage
  <2>3. CASE DeleteLocks(a)
    BY <1>b, <2>0, <2>3 DEF DeleteLocks, Stage
  <2> QED  BY <1>16, <2>1, <2>2, <2>3
<1>17. ASSUME NEW a \in Actor, ReleaseCreation(a) PROVE StageInv'
  BY <1>d, <1>17 DEF ReleaseCreation, Bare
<1>18. ASSUME UNCHANGED <<device, work, todo>> PROVE StageInv'
  BY <1>18 DEF StageInv
<1>19. CASE UNCHANGED vars
  BY <1>18, <1>19 DEF vars
<1>20. ASSUME NEW h \in Handle,
              OpenCheck(h) \/ IoBegin(h) \/ CloseCom(h) \/ CloseCompanion(h) \/ Callback(h)
       PROVE  StageInv'
  BY <1>18, <1>20, HandleFrame
<1>21. ASSUME NEW a \in Actor, Destroy(a) PROVE StageInv'
  BY <1>0, <1>8, <1>16, <1>17, <1>21 DEF Destroy, Deletes
<1>22. CASE Create
  BY <1>0, <1>1, <1>2, <1>3, <1>4, <1>5, <1>6, <1>7, <1>8, <1>9, <1>10, <1>22 DEF Create, Deletes
<1> QED
  BY <1>12, <1>13, <1>14, <1>15, <1>19, <1>20, <1>21, <1>22 DEF Next, Cleanup

-----------------------------------------------------------------------------
(* Numbers.                                                                *)

\* The structures of live devices, of listed pairs and of jobs are in use.
LEMMA NotUnused ==
  ASSUME Core, DeviceInv
  PROVE  /\ \A p \in Pair, s \in Side : device[p][s] = "live" => pair[p].memory # "unused"
         /\ \A p \in Listed : pair[p].memory # "unused"
         /\ \A a \in Actor : work[a].pair \in Pair => pair[work[a].pair].memory # "unused"
BY DEF Core, DeviceInv, OwnerInv, Owned, Listed, InTable

\* The child list: a number comes with the COM device of its creation, and goes with
\* a destruction whose pair has its COM device still.
LEMMA ChildrenStep ==
  ASSUME Core, StageInv, [Next]_vars
  PROVE  \/ children' = children
         \/ FinishDevice("Com") /\ children' = children \union {control.number}
         \/ \E p \in Pair : /\ children' = children \ {pair[p].number}
                            /\ device[p]["Com"] = "live" /\ device' = device
                            /\ \E a \in Actor : /\ work[a].at = "inactive" /\ work[a].pair = p
                                                /\ work'[a].at = "detached"
                                                /\ \A b \in Actor \ {a} : work'[b] = work[b]
<1>0. Typed /\ WorkInv /\ "Com" \in Side
  BY DEF Core, Side
<1>1. ASSUME NEW a \in Actor, DetachQueues(a)
      PROVE  \E p \in Pair : /\ children' = children \ {pair[p].number}
                             /\ device[p]["Com"] = "live" /\ device' = device
                             /\ work[a].at = "inactive" /\ work[a].pair = p
                             /\ work'[a].at = "detached"
                             /\ \A b \in Actor \ {a} : work'[b] = work[b]
  <2>1. work[a].pair \in Pair
    BY <1>0, <1>1, Held DEF DetachQueues, Bare, Reserving
  <2>2. device[work[a].pair]["Com"] = "live"
    BY <1>1 DEF DetachQueues, StageInv
  <2>3. work'[a].at = "detached" /\ \A b \in Actor \ {a} : work'[b] = work[b]
    BY <1>0, <1>1, GoesEffect DEF DetachQueues
  <2> QED  BY <1>1, <2>1, <2>2, <2>3 DEF DetachQueues
<1>2. CASE FinishDevice("Com")
  BY <1>2 DEF FinishDevice
<1>3. ASSUME ~FinishDevice("Com"), ~\E a \in Actor : DetachQueues(a) PROVE children' = children
  <2>1. CASE Create
    <3>1. ASSUME NEW s \in Side, CreateDevice(s) \/ FinishDevice(s) PROVE children' = children
      BY <1>3, <3>1 DEF CreateDevice, FinishDevice, Side
    <3> QED  BY <2>1, <3>1 DEF Create, Reserve, Allocate, AllocateFails, Publish, Respond,
                               UndoCom, Unlist, Discard
  <2>2. CASE DestroyTake \/ Cleanup
    BY <2>2 DEF DestroyTake, Cleanup, CleanupTake, CleanupNext, CleanupEnd
  <2>3. ASSUME NEW a \in Actor, Destroy(a) PROVE children' = children
    BY <1>3, <2>3 DEF Destroy, Deactivate, DeleteFirst, DeleteSecond, DeleteLocks,
                      ReleaseCreation
  <2>4. ASSUME NEW h \in Handle,
               OpenCheck(h) \/ IoBegin(h) \/ CloseCom(h) \/ CloseCompanion(h) \/ Callback(h)
        PROVE  children' = children
    BY <2>4, HandleFrame
  <2>5. CASE UNCHANGED vars
    BY <2>5 DEF vars
  <2> QED  BY <2>1, <2>2, <2>3, <2>4, <2>5 DEF Next
<1> QED  BY <1>1, <1>2, <1>3

LEMMA NumberStep ==
  ASSUME Core, Core', Calm, DeviceInv, DeviceInv', StageInv, StageInv', NumberInv, [Next]_vars
  PROVE  NumberInv'
<1>0. /\ Typed /\ WorkInv /\ EntryInv /\ EntryInv' /\ OwnerInv /\ OwnerInv'
      /\ "control" \in Actor /\ Side = {"Com", "Companion"} /\ "Com" \in Side
      /\ \A p \in Pair : pair[p].memory # "unused" => pair'[p].number = pair[p].number
  BY PairKeeps DEF Core, Actor, Side
<1>1. \A p \in Listed' : p \in Pair /\ (p \in Listed \/ (p = control.pair /\ control.at = "allocated"))
  BY PairKeeps DEF Listed, InTable
<1>2. /\ \A p \in Pair, s \in Side : device[p][s] = "live" => pair[p].memory # "unused"
      /\ \A p \in Listed : pair[p].memory # "unused"
      /\ \A a \in Actor : work[a].pair \in Pair => pair[work[a].pair].memory # "unused"
  BY NotUnused
<1>3. /\ control.pair \in Pair => pair'[control.pair].number = pair[control.pair].number
      /\ \A p \in Listed : pair'[p].number = pair[p].number
  BY <1>0, <1>2 DEF Listed
\* Live COM devices
<1>4. ASSUME NEW p \in Pair, NEW q \in Pair, p # q,
             device'[p]["Com"] = "live", device'[q]["Com"] = "live"
      PROVE  pair'[p].number # pair'[q].number
  <2>1. ASSUME NEW r \in Pair, device'[r]["Com"] = "live"
        PROVE  /\ pair'[r].number = pair[r].number
               /\ \/ device[r]["Com"] = "live"
                  \/ /\ r = control.pair /\ ~LinkTaken(control.number, "Com")
                     /\ pair[r].number = control.number
    <3>1. \/ device[r]["Com"] = "live"
          \/ /\ r = control.pair /\ ~LinkTaken(control.number, "Com")
             /\ FinishDevice("Com")
      BY <1>0, <2>1, DeviceEffect DEF Becomes
    <3>2. FinishDevice("Com") => pair[control.pair].number = control.number
      BY <1>0 DEF FinishDevice, EntryInv, Creating, Published, Listing, Reserving
    <3> QED  BY <1>0, <1>2, <1>3, <3>1, <3>2
  <2>2. device[p]["Com"] = "live" /\ device[q]["Com"] = "live" => pair[p].number # pair[q].number
    BY <1>4 DEF NumberInv
  <2> QED  BY <1>4, <2>1, <2>2 DEF LinkTaken
\* A listed pair that no creation holds
<1>5. ASSUME NEW p \in Listed', p # control'.pair
      PROVE  pair'[p].number \in children' /\ \A s \in Side : device'[p][s] = "live"
  <2>1. p \in Pair /\ p \in Listed
    <3>1. control.at = "allocated" => control'.pair = control.pair \/ control.pair \notin Pair
      BY <1>0, CreationStep DEF DestroyAt
    <3> QED  BY <1>1, <1>5, <3>1
  <2>2. InTable(p)
    BY <2>1 DEF Listed, InTable
  <2>3. pair[p].number \in children /\ \A s \in Side : device[p][s] = "live"
    <3>1. CASE p = control.pair
      <4>1. control.at \in {"respond", "discard"} \union DestroyAt
        BY <1>0, <1>5, <2>1, <3>1, CreationStep
      <4>2. control.at = "respond"
        BY <1>0, <2>2, <3>1, <4>1 DEF OwnerInv, Apart
      <4> QED  BY <1>0, <3>1, <4>2 DEF StageInv, NumberInv, EntryInv, Creating, Published, Listing, Reserving
    <3>2. CASE p # control.pair
      BY <2>1, <3>2 DEF NumberInv
    <3> QED  BY <3>1, <3>2
  <2>4. p = control.pair => control.at = "respond"
    <3>1. p = control.pair => control.at \in {"respond", "discard"} \union DestroyAt
      BY <1>0, <1>5, <2>1, CreationStep
    <3> QED  BY <1>0, <2>2, <3>1 DEF OwnerInv, Apart
  <2>5. \A s \in Side : device'[p][s] = "live"
    <3>1. ASSUME NEW a \in Actor, NEW s \in Side, Deletes(a, s) PROVE p # work[a].pair
      <4>1. work[a].at \in DestroyAt \union {"undoCom"} /\ (work[a].at = "undoCom" => a = "control")
        BY <3>1 DEF Deletes, UndoCom, DeleteFirst, DeleteSecond, DestroyAt
      <4> QED  BY <1>0, <2>2, <2>4, <4>1 DEF OwnerInv, Apart
    <3>2. ASSUME NEW s \in Side, CreateDevice(s) PROVE p # control.pair
      BY <1>0, <2>4, <3>2 DEF CreateDevice
    <3> QED  BY <2>1, <2>3, <3>1, <3>2, DeviceEffect DEF Becomes
  <2>6. pair[p].number \in children'
    <3>1. ASSUME NEW q \in Pair, device[q]["Com"] = "live",
                 \E a \in Actor : work[a].at = "inactive" /\ work[a].pair = q
          PROVE  pair[p].number # pair[q].number
      <4>1. p # q
        BY <1>0, <2>2, <3>1 DEF OwnerInv, Apart, DestroyAt
      <4> QED  BY <1>0, <2>1, <2>3, <3>1, <4>1 DEF NumberInv
    <3> QED  BY <2>3, <3>1, ChildrenStep
  <2> QED  BY <1>3, <2>1, <2>5, <2>6
\* The creation's number once its COM device is there
<1>6. ASSUME control'.at \in {"Companion", "CompanionRest", "respond"}
      PROVE  control'.number \in children'
  <2>1. CASE FinishDevice("Com")
    <3>1. control'.at = "unlist" \/ children' = children \union {control.number}
      BY <1>0, <2>1, GoesEffect DEF FinishDevice
    <3> QED  BY <1>0, <1>6, <2>1, <3>1, CreationStep
  <2>2. CASE /\ control.at \in {"Companion", "CompanionRest", "respond"}
             /\ control'.number = control.number /\ control'.pair = control.pair
             /\ ~FinishDevice("Com")
    <3>1. /\ control.number \in children /\ control.pair \in Pair
          /\ device[control.pair]["Com"] = "live" /\ pair[control.pair].number = control.number
      BY <1>0, <2>2, Held DEF NumberInv, StageInv, EntryInv, Creating, Published, Listing, Reserving, Bare
    <3>2. ASSUME NEW q \in Pair, device[q]["Com"] = "live",
                 \E a \in Actor : work[a].at = "inactive" /\ work[a].pair = q
          PROVE  control.number # pair[q].number
      <4>1. q # control.pair
        BY <1>0, <2>2, <3>2, SentinelAssumption DEF Calm, WorkInv, Actor
      <4> QED  BY <1>0, <3>1, <3>2, <4>1 DEF NumberInv
    <3> QED  BY <2>2, <3>1, <3>2, ChildrenStep
  <2> QED  BY <1>0, <1>6, <2>1, <2>2, CreationStep
<1> QED  BY <1>4, <1>5, <1>6 DEF NumberInv

-----------------------------------------------------------------------------
(* What follows from the devices and numbers.                              *)

LEMMA InitDevices == Init => DeviceInv /\ StageInv /\ NumberInv
<1> SUFFICES ASSUME Init PROVE DeviceInv /\ StageInv /\ NumberInv
  OBVIOUS
<1>0. /\ \A a \in Actor : work[a].at = "idle" /\ work[a].pair = NULL
      /\ \A h \in Handle : file[h].at = "none"
      /\ \A p \in Pair, s \in Side : device[p][s] = "none"
      /\ \A p \in Pair : ~pair[p].Active
      /\ todo = {} /\ "control" \in Actor /\ "Com" \in Side
  BY DEF Init, Actor, Side
<1>1. DeviceInv
  BY <1>0 DEF DeviceInv, Serving
<1>2. StageInv
  BY <1>0 DEF StageInv
<1>3. Listed = {}
  BY <1>0 DEF Listed
<1>4. NumberInv
  BY <1>0, <1>3 DEF NumberInv
<1> QED  BY <1>1, <1>2, <1>4

LEMMA DevicesInvariant ==
  Spec /\ [][~Strikes]_vars => [](Core /\ Calm /\ DeviceInv /\ StageInv /\ NumberInv)
<1>1. /\ Core /\ Core' /\ Calm /\ Calm' /\ DeviceInv /\ StageInv /\ NumberInv
      /\ [Next]_vars /\ [~Strikes]_vars
      => DeviceInv' /\ StageInv' /\ NumberInv'
  <2> SUFFICES ASSUME Core, Core', Calm, Calm', DeviceInv, StageInv, NumberInv, [Next]_vars,
                      [~Strikes]_vars
               PROVE  DeviceInv' /\ StageInv' /\ NumberInv'
    OBVIOUS
  <2>1. ~Strikes
    BY NoStrike DEF Core
  <2>2. DeviceInv' /\ StageInv'
    BY <2>1, DeviceStep, StageStep
  <2> QED  BY <2>2, NumberStep
<1> QED  BY <1>1, CalmInvariant, InitDevices, PTL DEF Spec

\* Between requests what the list reports is ready: whatever failed in a creation and
\* whichever older pair of the same number was destroyed, both devices are there
\* and the child list has the number.  The driver may stop at any moment, but the
\* cleanup takes no pair that is listed and still being created: what follows that
\* is model-checked only.
THEOREM ReadyBetweenRequests == Spec /\ [][~Strikes]_vars => []ListedPortsAreReady
<1>1. ASSUME Core, NumberInv, control.at \in {"idle", "stopped"}, NEW p \in Listed
      PROVE  pair[p].number \in children /\ \A s \in Side : device[p][s] = "live"
  <2>1. control.pair = NULL
    BY <1>1 DEF Core, WorkInv, Bare, Actor
  <2>2. p \in Listed \ {control.pair}
    BY <1>1, <2>1, SentinelAssumption DEF Listed
  <2> QED  BY <1>1, <2>2 DEF NumberInv
<1>2. Core /\ NumberInv => ListedPortsAreReady
  BY <1>1 DEF ListedPortsAreReady
<1> QED  BY <1>2, DevicesInvariant, PTL

\* A handler finds the lock it takes and, on the COM side, the companion's queue that it
\* uses after the lock, for any number of handlers and whatever destruction runs
\* beside them, by request or by a cleanup that takes no pair from its creation:
\* deletion waits for handlers, and the COM device goes first.
THEOREM HandlersAreSafe == Spec /\ [][~Strikes]_vars => []HandlersFindTheirs
<1>1. ASSUME Core, DeviceInv, NEW h \in Handle, file[h].at \in Serving
      PROVE  /\ pair[file[h].pair].locks
             /\ file[h].side = "Com" => device[file[h].pair]["Companion"] # "deleted"
  <2>1. file[h].pair \in Pair /\ file[h].side \in Side
    <3>1. file[h].pair # NULL /\ file[h] \in Open
      BY <1>1 DEF Core, RefInv, Serving, Typed
    <3> QED  BY <3>1, OpenUpdate
  <2>2. device[file[h].pair][file[h].side] = "live"
    BY <1>1 DEF DeviceInv
  <2> QED  BY <1>1, <2>1, <2>2 DEF DeviceInv
<1>2. Core /\ DeviceInv => HandlersFindTheirs
  BY <1>1 DEF HandlersFindTheirs, Serving
<1> QED  BY <1>2, DevicesInvariant, PTL

-----------------------------------------------------------------------------
(* Memory, when no creation runs out of anything and the driver does not   *)
(* stop: then no creation fails once it has its structure, since no device *)
(* of another pair has its name or link, and only the last reference frees *)
(* a structure.                                                            *)

There(p) == \E s \in Side : device[p][s] \in {"building", "live"}

UnfailingInv ==
  /\ work["cleanup"].at = "idle" /\ todo = {}
  /\ control.at \notin {"undoCom", "unlist", "discard", "stopped"}
  /\ \A p \in Pair : There(p) => Owned(p)
  /\ control.at \in {"comDeleted", "bothDeleted", "unlocked"}
       => device[control.pair]["Com"] \notin {"building", "live"}
  /\ control.at \in {"bothDeleted", "unlocked"}
       => device[control.pair]["Companion"] \notin {"building", "live"}
  /\ control.at \in Creating => \A p \in Pair : There(p) /\ p # control.pair
                                                  => pair[p].number # control.number
  /\ \A p \in Pair : pair[p].memory = "freed" => pair[p].RefCount = 0

Unfailing == Failing = {} /\ Stops = FALSE

Settled == Core /\ Calm /\ DeviceInv /\ StageInv /\ NumberInv /\ UnfailingInv

\* Nobody else is there under the creation's number.
LEMMA NameIsFree ==
  ASSUME Settled, NEW s \in Side
  PROVE  /\ CreateDevice(s) => ~NameTaken(control.number, s)
         /\ FinishDevice(s) => ~LinkTaken(control.number, s)
<1>0. /\ \A p \in Pair, t \in Side : device[p][t] \in {"building", "live"} => There(p)
      /\ Side = {"Com", "Companion"}
  BY DEF There, Side
<1>1. ASSUME control.at \in Creating, NEW p \in Pair, pair[p].number = control.number, There(p)
      PROVE  p = control.pair
  BY <1>1 DEF Settled, UnfailingInv
<1>2. CreateDevice(s) => ~NameTaken(control.number, s)
  BY <1>0, <1>1 DEF CreateDevice, NameTaken, Settled, StageInv, Creating, Published, Listing
<1>3. FinishDevice(s) => ~LinkTaken(control.number, s)
  BY <1>0, <1>1 DEF FinishDevice, LinkTaken, Settled, StageInv, Creating, Published, Listing
<1> QED  BY <1>2, <1>3

\* How the control thread moves, while the cleanup does not.
LEMMA UnfailingWork ==
  ASSUME Unfailing, Settled, [Next]_vars
  PROVE  /\ work'["cleanup"] = work["cleanup"] /\ todo' = todo
         /\ ~Discard
         /\ \/ control' = control
            \/ Reserve
            \/ /\ control.at \in Creating
               /\ control'.at \in Creating \ {"undoCom", "unlist", "discard"}
               /\ control'.number = control.number
               /\ control'.pair = control.pair \/ control.pair = NULL
            \/ control'.at \in {"idle", "taken", "inactive", "detached"}
            \/ /\ control'.pair = control.pair
               /\ \/ DeleteFirst("control") /\ control'.at = "comDeleted"
                  \/ DeleteSecond("control") /\ control'.at = "bothDeleted"
                  \/ DeleteLocks("control") /\ control'.at = "unlocked"
<1>0. /\ Typed /\ WorkInv /\ Actor = {"control", "cleanup"} /\ "control" \in Actor
      /\ "cleanup" \in Actor /\ Side = {"Com", "Companion"} /\ Failing = {} /\ Stops = FALSE
      /\ work["cleanup"].at = "idle" /\ todo = {}
      /\ control.at \notin {"undoCom", "unlist", "discard", "stopped"}
  BY DEF Settled, Core, Unfailing, UnfailingInv, Actor, Side
<1>1. ASSUME NEW to, Goes("control", to)
      PROVE  /\ work'["cleanup"] = work["cleanup"] /\ control'.at = to
             /\ control'.number = control.number /\ control'.pair = control.pair
  BY <1>0, <1>1, GoesEffect
<1>2. ASSUME NEW to, NEW p, work' = [work EXCEPT !["control"].at = to, !["control"].pair = p]
      PROVE  /\ work'["cleanup"] = work["cleanup"] /\ control'.at = to
             /\ control'.number = control.number /\ control'.pair = p
  BY <1>0, <1>2 DEF Typed, Job
<1>3. ~Discard
  BY <1>0 DEF Discard
<1>4. CASE Reserve
  BY <1>0, <1>3, <1>4, ReserveEffect DEF Reserve
<1>5. CASE Allocate
  <2>1. PICK p \in Pair : work' = [work EXCEPT !["control"].at = "allocated", !["control"].pair = p]
    BY <1>5 DEF Allocate
  <2>2. control.at \in Reserving /\ control.pair = NULL /\ todo' = todo
    BY <1>0, <1>5 DEF Allocate, WorkInv, Bare, Reserving
  <2> QED  BY <1>2, <1>3, <2>1, <2>2 DEF Creating, Published, Reserving, Listing
<1>6. CASE Publish
  <2>1. control.at = "allocated" /\ Goes("control", "Com") /\ todo' = todo
    BY <1>6 DEF Publish
  <2> QED  BY <1>1, <1>3, <2>1 DEF Creating, Published, Reserving, Listing
<1>7. CASE Respond
  <2>1. /\ work' = [work EXCEPT !["control"].at = "idle", !["control"].pair = NULL]
        /\ todo' = todo
    BY <1>7 DEF Respond
  <2> QED  BY <1>2, <1>3, <2>1
<1>8. ASSUME NEW s \in Side, CreateDevice(s) \/ FinishDevice(s)
      PROVE  /\ work'["cleanup"] = work["cleanup"] /\ todo' = todo
             /\ control.at \in Creating
             /\ control'.at \in Creating \ {"undoCom", "unlist", "discard"}
             /\ control'.number = control.number /\ control'.pair = control.pair
  <2>1. PICK to \in {"ComRest", "Companion", "CompanionRest", "respond"} : Goes("control", to)
    <3>1. CASE CreateDevice(s)
      BY <1>0, <3>1, NameIsFree DEF CreateDevice
    <3>2. CASE FinishDevice(s)
      <4>1. device[control.pair][s] = "building"
        BY <1>0, <3>2 DEF FinishDevice, Settled, StageInv
      <4> QED  BY <1>0, <3>2, <4>1, NameIsFree DEF FinishDevice
    <3> QED  BY <1>8, <3>1, <3>2
  <2>2. control.at \in {"Com", "ComRest", "Companion", "CompanionRest"} /\ todo' = todo
    BY <1>0, <1>8 DEF CreateDevice, FinishDevice
  <2> QED  BY <1>1, <2>1, <2>2 DEF Creating, Published, Reserving, Listing
<1>9. CASE DestroyTake
  <2>1. PICK p : work' = [work EXCEPT !["control"].at = "taken", !["control"].pair = p]
    BY <1>9 DEF DestroyTake
  <2>2. todo' = todo
    BY <1>9 DEF DestroyTake
  <2> QED  BY <1>2, <1>3, <2>1, <2>2
<1>10. ASSUME NEW a \in Actor, Destroy(a)
       PROVE  /\ work'["cleanup"] = work["cleanup"] /\ todo' = todo
              /\ \/ control'.at \in {"idle", "taken", "inactive", "detached"}
                 \/ /\ control'.pair = control.pair
                    /\ \/ DeleteFirst("control") /\ control'.at = "comDeleted"
                       \/ DeleteSecond("control") /\ control'.at = "bothDeleted"
                       \/ DeleteLocks("control") /\ control'.at = "unlocked"
  <2>1. a = "control"
    BY <1>0, <1>10 DEF Destroy, Deactivate, DetachQueues, DeleteFirst, DeleteSecond,
                       DeleteLocks, ReleaseCreation
  <2>2. todo' = todo
    BY <1>10 DEF Destroy, Deactivate, DetachQueues, DeleteFirst, DeleteSecond,
                 DeleteLocks, ReleaseCreation
  <2>3. CASE ReleaseCreation("control")
    <3>1. work' = [work EXCEPT !["control"].at = "idle", !["control"].pair = NULL]
      BY <2>3 DEF ReleaseCreation
    <3> QED  BY <1>2, <2>2, <3>1
  <2>4. CASE ~ReleaseCreation("control")
    <3>1. PICK to : /\ Goes("control", to)
                    /\ \/ to \in {"inactive", "detached"}
                       \/ DeleteFirst("control") /\ to = "comDeleted"
                       \/ DeleteSecond("control") /\ to = "bothDeleted"
                       \/ DeleteLocks("control") /\ to = "unlocked"
      <4>1. CASE Deactivate("control") \/ DetachQueues("control")
        BY <4>1 DEF Deactivate, DetachQueues
      <4>2. CASE DeleteFirst("control")
        <5>1. Goes("control", "comDeleted")
          BY <4>2 DEF DeleteFirst
        <5> QED  BY <4>2, <5>1
      <4>3. CASE DeleteSecond("control")
        <5>1. Goes("control", "bothDeleted")
          BY <4>3 DEF DeleteSecond
        <5> QED  BY <4>3, <5>1
      <4>4. CASE DeleteLocks("control")
        <5>1. Goes("control", "unlocked")
          BY <4>4 DEF DeleteLocks
        <5> QED  BY <4>4, <5>1
      <4> QED  BY <1>10, <2>1, <2>4, <4>1, <4>2, <4>3, <4>4 DEF Destroy
    <3> QED  BY <1>1, <2>2, <3>1
  <2> QED  BY <2>3, <2>4
<1>11. ASSUME NEW h \in Handle,
              OpenCheck(h) \/ IoBegin(h) \/ CloseCom(h) \/ CloseCompanion(h) \/ Callback(h)
       PROVE  work' = work /\ todo' = todo
  BY <1>11, HandleFrame
<1>12. CASE UNCHANGED vars
  BY <1>3, <1>12 DEF vars
<1>13. ~Cleanup /\ ~AllocateFails /\ ~UndoCom /\ ~Unlist
  BY <1>0 DEF Cleanup, CleanupTake, CleanupNext, CleanupEnd, AllocateFails, UndoCom, Unlist
<1> QED
  BY <1>3, <1>4, <1>5, <1>6, <1>7, <1>8, <1>9, <1>10, <1>11, <1>12, <1>13 DEF Next, Create

\* Devices appear with the creation and go with the destruction's two deletions.
LEMMA ThereStep ==
  ASSUME Settled, [Next]_vars
  PROVE  \A p \in Pair, s \in Side :
           device'[p][s] \in {"building", "live"} =>
             device[p][s] \in {"building", "live"} \/ (p = control.pair /\ control.at \in Listing)
<1>1. Core /\ \A s \in Side : CreateDevice(s) \/ FinishDevice(s) => control.at \in Listing
  BY DEF Settled, CreateDevice, FinishDevice, Listing, Side
<1> QED  BY <1>1, DeviceEffect DEF Becomes

LEMMA GoneStep ==
  ASSUME Unfailing, Settled, Core', [Next]_vars
  PROVE  /\ control'.at \in {"comDeleted", "bothDeleted", "unlocked"}
              => device'[control'.pair]["Com"] \notin {"building", "live"}
         /\ control'.at \in {"bothDeleted", "unlocked"}
              => device'[control'.pair]["Companion"] \notin {"building", "live"}
<1>0. /\ Typed /\ WorkInv /\ "control" \in Actor /\ "Com" \in Side /\ "Companion" \in Side
      /\ control.at \in {"comDeleted", "bothDeleted", "unlocked"}
           => device[control.pair]["Com"] \notin {"building", "live"}
      /\ control.at \in {"bothDeleted", "unlocked"}
           => device[control.pair]["Companion"] \notin {"building", "live"}
  BY DEF Settled, Core, UnfailingInv, Actor, Side
<1>1. ASSUME control.at \in DestroyAt
      PROVE  /\ control.pair \in Pair
             /\ \A s \in Side : device'[control.pair][s] \in {"building", "live"} =>
                                  device[control.pair][s] \in {"building", "live"}
  <2>1. control.pair \in Pair /\ control.at \notin Listing
    BY <1>0, <1>1, Held DEF DestroyAt, Bare, Reserving, Listing
  <2> QED  BY <2>1, ThereStep
<1>2. ASSUME NEW s \in Side, DeleteDevice(control.pair, s), control.pair \in Pair
      PROVE  device'[control.pair][s] \notin {"building", "live"}
  <2>1. device' = [device EXCEPT ![control.pair][s] =
                     IF device[control.pair][s] = "none" THEN "none" ELSE "deleted"]
    BY <1>2 DEF DeleteDevice
  <2>2. Becomes(control.pair, s, IF device[control.pair][s] = "none" THEN "none" ELSE "deleted")
    BY <1>0, <1>2, <2>1, DeviceSet
  <2> QED  BY <2>2 DEF Becomes
<1>3. CASE control' = control
  BY <1>0, <1>1, <1>3 DEF DestroyAt
<1>4. CASE Reserve
  BY <1>0, <1>4, ReserveEffect DEF Settled, Core, Reserving
<1>5. CASE control'.at \in (Creating \ {"undoCom", "unlist", "discard"})
                             \union {"idle", "taken", "inactive", "detached"}
  BY <1>5 DEF Creating, Published, Reserving, Listing
<1>6. CASE control'.pair = control.pair /\ DeleteFirst("control") /\ control'.at = "comDeleted"
  <2>1. control.at = "detached" /\ DeleteDevice(control.pair, "Com")
    BY <1>6 DEF DeleteFirst, First
  <2> QED  BY <1>0, <1>1, <1>2, <1>6, <2>1 DEF DestroyAt
<1>7. CASE control'.pair = control.pair /\ DeleteSecond("control") /\ control'.at = "bothDeleted"
  <2>1. control.at = "comDeleted" /\ DeleteDevice(control.pair, "Companion")
    BY <1>7 DEF DeleteSecond, First, Other
  <2> QED  BY <1>0, <1>1, <1>2, <1>7, <2>1 DEF DestroyAt
<1>8. CASE control'.pair = control.pair /\ DeleteLocks("control") /\ control'.at = "unlocked"
  <2>1. control.at = "bothDeleted"
    BY <1>8 DEF DeleteLocks
  <2> QED  BY <1>0, <1>1, <1>8, <2>1 DEF DestroyAt
<1> QED  BY <1>3, <1>4, <1>5, <1>6, <1>7, <1>8, UnfailingWork

\* A handle that is there has a structure that is allocated.
LEMMA InUseIsAllocated ==
  ASSUME Settled, NEW h \in Handle, file[h].at # "none"
  PROVE  file[h].pair \in Pair /\ pair[file[h].pair].memory = "allocated"
<1>0. /\ Typed /\ OwnerInv /\ RefInv /\ DeviceInv /\ file[h] \in Open
      /\ pair \in [Pair -> Structure]
  BY DEF Settled, Core, Typed
<1>1. PICK p \in Pair : p = file[h].pair
  <2>1. file[h].pair # NULL
    BY <1>0 DEF RefInv
  <2> QED  BY <1>0, <2>1, OpenUpdate
<1>2. CASE file[h].at = "checked"
  <2>1. device[p][file[h].side] = "live" /\ file[h].side \in Side
    BY <1>0, <1>1, <1>2, OpenUpdate DEF DeviceInv, Serving
  <2> QED  BY <1>0, <1>1, <2>1 DEF DeviceInv, Settled, Calm
<1>3. CASE file[h].at # "checked"
  <2>1. h \in Holders(p)
    BY <1>1, <1>3 DEF Holders
  <2>2. Cardinality(Holders(p)) \in Nat /\ Cardinality(Holders(p)) # 0
    BY <2>1, HoldersFinite, FS_EmptySet
  <2>3. pair[p].memory # "unused"
    BY <1>0, <1>1 DEF RefInv
  <2>4. pair[p].memory # "freed"
    <3>1. pair[p].memory = "freed" =>
            /\ pair[p].RefCount = 0
            /\ pair[p].RefCount >= Cardinality(Holders(p)) + (IF Owned(p) THEN 1 ELSE 0)
      BY <1>0 DEF RefInv, Settled, UnfailingInv
    <3> QED  BY <2>2, <3>1
  <2>5. pair[p].memory \in {"unused", "allocated", "freed"}
    BY <1>0, StructureFields
  <2> QED  BY <1>1, <2>3, <2>4, <2>5
<1> QED  BY <1>2, <1>3

LEMMA FreedStep ==
  ASSUME Unfailing, Settled, [Next]_vars, NEW p \in Pair, pair'[p].memory = "freed"
  PROVE  pair'[p].RefCount = 0
<1>0. /\ Typed /\ OwnerInv /\ WorkInv /\ EntryInv /\ pair \in [Pair -> Structure] /\ pair[p] \in Structure
      /\ pair[p].memory = "freed" => pair[p].RefCount = 0
      /\ ~Discard
  BY UnfailingWork DEF Settled, Core, Typed, UnfailingInv
<1>1. ASSUME NEW r \in Structure, r.memory = "allocated", Released(r).memory = "freed"
      PROVE  Released(r).RefCount = 0
  BY <1>1 DEF Released, Dropped, Freed, Structure
<1>2. CASE Quiet
  BY <1>0, <1>2, QuietKeeps
<1>3. CASE Allocate
  <2>1. PICK q \in Pair :
           pair' = [pair EXCEPT ![q] =
             [memory |-> "allocated", number |-> work["control"].number, Active |-> TRUE,
              RefCount |-> 1, open |-> {}, locks |-> TRUE, queues |-> {}]]
    BY <1>3 DEF Allocate
  <2> QED  BY <1>0, <2>1
<1>4. ASSUME NEW a \in Actor, ReleaseCreation(a) PROVE pair'[p].RefCount = 0
  <2>1. pair' = [pair EXCEPT ![work[a].pair] = Released(pair[work[a].pair])]
    BY <1>4 DEF ReleaseCreation
  <2>2. CASE p = work[a].pair
    <3>1. pair[p].memory = "allocated"
      BY <2>2, CalmHolds DEF Settled
    <3>2. pair'[p] = Released(pair[p])
      BY <1>0, <2>1, <2>2
    <3> QED  BY <1>0, <1>1, <3>1, <3>2
  <2>3. CASE p # work[a].pair
    BY <1>0, <2>1, <2>3
  <2> QED  BY <2>2, <2>3
<1>5. ASSUME NEW h \in Handle,
             OpenCheck(h) \/ IoBegin(h) \/ CloseCom(h) \/ CloseCompanion(h) \/ Callback(h)
      PROVE  pair'[p].RefCount = 0
  <2>1. CASE OpenCheck(h) \/ IoBegin(h) \/ OpenSignal(h) \/ IoSnapshot(h) \/ IoUse(h)
               \/ CloseCheck(h) \/ CloseSnapshot(h) \/ CloseNotify(h)
    BY <1>0, <2>1 DEF OpenCheck, IoBegin, OpenSignal, IoSnapshot, IoUse, CloseCheck,
                      CloseSnapshot, CloseNotify
  <2>2. CASE CloseCom(h) \/ CloseCompanion(h)
    BY <1>0, <2>2 DEF CloseCom, CloseCompanion, Structure
  <2>3. CASE OpenClaim(h)
    <3>1. CASE UNCHANGED pair
      BY <1>0, <3>1
    <3>2. CASE pair' = [pair EXCEPT ![file[h].pair].open = @ \union {file[h].side},
                                    ![file[h].pair].RefCount = @ + 1]
      <4>0. PICK A, n : pair' = [pair EXCEPT ![file[h].pair].open = A, ![file[h].pair].RefCount = n]
        BY <3>2
      <4>1. pair' = [pair EXCEPT ![file[h].pair] = [@ EXCEPT !.open = A, !.RefCount = n]]
        BY <4>0, ClaimUpdate
      <4>2. file[h].pair = p => pair[p].memory = "allocated"
        BY <2>3, InUseIsAllocated DEF OpenClaim
      <4> QED  BY <1>0, <4>1, <4>2 DEF Structure
    <3> QED  BY <2>3, <3>1, <3>2 DEF OpenClaim
  <2>4. CASE CloseRelease(h)
    <3>1. pair' = [pair EXCEPT ![file[h].pair] = Released(pair[file[h].pair])]
      BY <2>4 DEF CloseRelease, Releases
    <3>2. file[h].pair = p => pair[p].memory = "allocated"
      BY <2>4, InUseIsAllocated DEF CloseRelease
    <3>3. CASE p = file[h].pair
      <4>1. pair'[p] = Released(pair[p])
        BY <1>0, <3>1, <3>3
      <4> QED  BY <1>0, <1>1, <3>2, <3>3, <4>1
    <3>4. CASE p # file[h].pair
      BY <1>0, <3>1, <3>4
    <3> QED  BY <3>3, <3>4
  <2> QED  BY <1>5, <2>1, <2>2, <2>3, <2>4 DEF Callback
<1>6. CASE UNCHANGED vars
  BY <1>0, <1>6 DEF vars
<1> QED
  BY <1>0, <1>2, <1>3, <1>4, <1>5, <1>6 DEF Next, Create, Destroy, Quiet

LEMMA UnfailingStep ==
  ASSUME Unfailing, Settled, Core', [Next]_vars
  PROVE  UnfailingInv'
<1>0. /\ Typed /\ WorkInv /\ WorkInv' /\ OwnerInv /\ EntryInv /\ Side = {"Com", "Companion"}
      /\ Actor = {"control", "cleanup"} /\ "control" \in Actor /\ UnfailingInv
      /\ work["cleanup"].at = "idle" /\ todo = {}
      /\ control.at \notin {"undoCom", "unlist", "discard", "stopped"}
      /\ work'["cleanup"] = work["cleanup"] /\ todo' = todo
  BY UnfailingWork DEF Settled, Core, Actor, Side, UnfailingInv
<1>1. control'.at \notin {"undoCom", "unlist", "discard", "stopped"}
  <2>1. Reserve => control'.at \in Reserving
    BY <1>0, ReserveEffect
  <2> QED  BY <1>0, <2>1, UnfailingWork DEF Creating, Published, Reserving, Listing
<1>2. \A p \in Pair : There(p)' => There(p) \/ (p = control.pair /\ control.at \in Listing)
  BY ThereStep DEF There
<1>3. ASSUME NEW p \in Pair, There(p)' PROVE Owned(p)'
  <2>1. Owned(p)
    BY <1>0, <1>2, <1>3, CalmHolds DEF UnfailingInv, Settled
  <2>2. ~\E a \in Actor : work[a].at \in {"unlocked", "discard"} /\ work[a].pair = p
    <3> SUFFICES ASSUME control.at = "unlocked", control.pair = p PROVE FALSE
      BY <1>0
    <3>1. ~There(p)
      BY <1>0 DEF There, UnfailingInv
    <3> QED  BY <1>2, <1>3, <3>1 DEF Listing
  <2> QED  BY <2>1, <2>2, PairKeeps DEF Settled
<1>4. ASSUME control'.at \in Creating, NEW p \in Pair, There(p)', p # control'.pair
      PROVE  pair'[p].number # control'.number
  <2>1. CASE Reserve
    <3>1. control.pair = NULL /\ control.at = "idle"
      BY <1>0, <2>1 DEF Reserve, WorkInv, Bare
    <3>2. Owned(p)
      BY <1>0, <1>2, <1>4, <3>1, SentinelAssumption DEF UnfailingInv
    <3>3. InTable(p)
      <4>1. work["cleanup"].pair = NULL
        BY <1>0 DEF WorkInv, Bare
      <4> QED  BY <1>0, <3>1, <3>2, <4>1, SentinelAssumption DEF Owned, InTable
    <3>4. p \in Listed
      BY <1>0, <3>3 DEF OwnerInv, Listed, InTable
    <3>5. pair[p].number # control'.number
      BY <1>0, <2>1, <3>4, ReserveEffect
    <3> QED  BY <2>1, <3>5 DEF Reserve
  <2>2. CASE /\ control.at \in Creating /\ control'.number = control.number
             /\ (control'.pair = control.pair \/ control.pair = NULL)
    <3>1. p # control.pair /\ There(p)
      BY <1>2, <1>4, <2>2, SentinelAssumption
    <3>2. pair[p].number # control.number /\ Owned(p)
      BY <1>0, <2>2, <3>1 DEF UnfailingInv
    <3>3. pair[p].memory # "unused"
      BY <1>0, <3>2 DEF OwnerInv
    <3>4. pair'[p].number = pair[p].number
      BY <3>3, PairKeeps DEF Settled
    <3> QED  BY <2>2, <3>2, <3>4
  <2>3. CASE control'.at \in {"idle"} \union DestroyAt
    BY <1>4, <2>3 DEF Creating, Published, Reserving, Listing, DestroyAt
  <2> QED  BY <1>4, <2>1, <2>2, <2>3, UnfailingWork DEF DestroyAt
<1>5. \A p \in Pair : pair'[p].memory = "freed" => pair'[p].RefCount = 0
  BY FreedStep
<1> QED  BY <1>0, <1>1, <1>3, <1>4, <1>5, GoneStep DEF UnfailingInv

\* No handle's thread touches a freed pair, wherever it is, for any number of pairs,
\* numbers and handles, as long as no creation runs out of resources and the driver
\* is not stopped.  Otherwise a creation that has lost frees what handles hold:
\* FreedOnlyUnreferenced is violated.
THEOREM NothingFreedIsUsed ==
  ASSUME Failing = {}, Stops = FALSE
  PROVE  Spec => []NoUseAfterFree
<1>1. Unfailing
  BY DEF Unfailing
<1>2. Init => UnfailingInv
  <2> SUFFICES ASSUME Init PROVE UnfailingInv
    OBVIOUS
  <2>1. /\ \A a \in Actor : work[a].at = "idle"
        /\ "control" \in Actor /\ "cleanup" \in Actor /\ todo = {}
        /\ \A p \in Pair, s \in Side : device[p][s] = "none"
        /\ \A p \in Pair : pair[p].memory = "unused"
    BY DEF Init, Actor
  <2> QED  BY <2>1 DEF UnfailingInv, There, Creating, Published, Reserving, Listing
<1>s. [Next]_vars => [~Strikes]_vars
  BY DEF Strikes, CleanupTake
<1>3. /\ Core /\ Calm /\ DeviceInv /\ StageInv /\ NumberInv /\ UnfailingInv /\ Core' /\ [Next]_vars
      => UnfailingInv'
  BY <1>1, UnfailingStep DEF Settled
<1>4. Core /\ Calm /\ DeviceInv /\ StageInv /\ NumberInv /\ UnfailingInv => NoUseAfterFree
  BY InUseIsAllocated DEF Settled, NoUseAfterFree
<1> QED  BY <1>2, <1>s, <1>3, <1>4, DevicesInvariant, PTL DEF Spec

=============================================================================
