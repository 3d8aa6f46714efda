---------------------------- MODULE PortLifecycle ----------------------------
(***************************************************************************)
(* Creation, use and destruction of port pairs: GcomPortPairCreate,        *)
(* GcomPortPairDestroy and the reference count of portpair.c, the handlers *)
(* of control.c, the open and close callbacks and device creation of       *)
(* comport.c and companion.c, and the cleanup on driver stop of driver.c.  *)
(*                                                                         *)
(* The control queue is sequential, so one thread runs the create and      *)
(* destroy requests; the cleanup is another, which waits for neither;      *)
(* every open handle brings its own.  Structures are never reused here, so *)
(* that a reference to a freed one is seen, and a thread that goes on with *)
(* a freed one finds it as it was left: what the memory holds by then is   *)
(* not known.  The waits in queues and the bytes are other modules'.       *)
(*                                                                         *)
(* Of the framework the model takes what the comments in portpair.c and    *)
(* companion.c rely on: deleting a device waits for the requests in its    *)
(* handlers, its opens included, but not for close callbacks; its names go *)
(* with it; it can be opened once its initialization is finished.          *)
(***************************************************************************)
EXTENDS Integers, FiniteSets

CONSTANTS
  Pair,      (* the GCOM_PORT_PAIR structures that may be allocated (bound) *)
  Number,    (* the COM numbers searched and requested                      *)
  Slots,     (* GCOM_MAX_PORTS                                              *)
  Handle,    (* file handles on any device, reusable (bound)                *)
  Failing,   (* what may run out of resources during a creation             *)
  Stops,     (* whether the driver may be stopped, at any moment (bound)    *)
  NULL,
  RESERVED   (* GCOM_PORT_RESERVED                                          *)

Side == {"Com", "Companion"}
Actor == {"control", "cleanup"}
Resource == {"pair", "ComDevice", "ComRest", "CompanionDevice", "CompanionRest"}

ASSUME NumberAssumption == Number \subseteq Nat \ {0} /\ IsFiniteSet(Number)
ASSUME HandleAssumption == IsFiniteSet(Handle)
ASSUME SlotsAssumption == Slots \in Nat \ {0}
ASSUME FailingAssumption == Failing \subseteq Resource
ASSUME StopsAssumption == Stops \in BOOLEAN
ASSUME SentinelAssumption == NULL \notin Pair /\ RESERVED \notin Pair /\ NULL # RESERVED

VARIABLES
  Ports,      (* the port table                                            *)
  PortCount,
  pair,       (* the structures                                            *)
  device,     (* the COM and companion device of each                      *)
  children,   (* the numbers reported present in the child list            *)
  work,       (* what the control thread and the cleanup are doing         *)
  todo,       (* pairs the cleanup took from the table                     *)
  file,       (* where each handle's thread is                             *)
  twice       (* history: the pairs that were counted out twice            *)

vars == <<Ports, PortCount, pair, device, children, work, todo, file, twice>>

Slot == 1..Slots

Init ==
  /\ Ports = [i \in Slot |-> NULL]
  /\ PortCount = 0
  /\ pair = [p \in Pair |-> [memory |-> "unused", number |-> 0, Active |-> FALSE,
                             RefCount |-> 0, open |-> {}, locks |-> FALSE, queues |-> {}]]
  /\ device = [p \in Pair |-> [s \in Side |-> "none"]]
  /\ children = {}
  /\ work = [a \in Actor |-> [at |-> "idle", pair |-> NULL, slot |-> 0, number |-> 0]]
  /\ todo = {}
  /\ file = [h \in Handle |-> [at |-> "none", pair |-> NULL, side |-> "Com"]]
  /\ twice = {}

-----------------------------------------------------------------------------
(* The table and the object namespace.                                     *)

\* GCOM_PORT_IS_VALID, and active
Listed == {p \in Pair : pair[p].Active /\ \E i \in Slot : Ports[i] = p}

\* \DosDevices\COM<n> and \DosDevices\GCOM<n>
LinkTaken(n, s) == \E p \in Pair : pair[p].number = n /\ device[p][s] = "live"

\* \Device\GCOMSerial<n> and \Device\GCOM<n>
NameTaken(n, s) ==
  \E p \in Pair : pair[p].number = n /\ device[p][s] \in {"building", "live"}

\* A number somebody asks for: the checks in GcomPortPairCreate, and none.
MayRequestAny(n) == TRUE
MayRequest(n) == ~LinkTaken(n, "Com") /\ \A p \in Listed : pair[p].number # n

\* GcomFindFreePortNumber: the first number not listed and with neither link.
FreeNumbers ==
  {n \in Number : /\ \A p \in Listed : pair[p].number # n
                  /\ \A s \in Side : ~LinkTaken(n, s)}

Chosen == {n \in FreeNumbers : \A m \in FreeNumbers : n <= m}

\* Taking the pairs S from the table: the entries, the count, and a count that
\* supposes they are all in it.
Without(S) == [i \in Slot |-> IF Ports[i] \in S THEN NULL ELSE Ports[i]]
CountSupposed(S) == PortCount - Cardinality(S)
CountWithout(S) == PortCount - Cardinality({i \in Slot : Ports[i] \in S})

Goes(a, to) == work' = [work EXCEPT ![a].at = to]

\* ExFreePoolWithTag on the structure
Freed(r) == [r EXCEPT !.memory = "freed"]

\* GcomPortPairRelease, and one that frees with a reference left
Dropped(r) == [r EXCEPT !.RefCount = @ - 1]
ReleasedEarly(r) == IF r.RefCount <= 2 THEN Freed(Dropped(r)) ELSE Dropped(r)
Released(r) == IF r.RefCount = 1 THEN Freed(Dropped(r)) ELSE Dropped(r)

-----------------------------------------------------------------------------
(* IOCTL_GCOM_CREATE_PORT                                                  *)

\* Under PortTableLock: a slot, a number, the sentinel.  A request that finds
\* no slot or number fails and changes nothing.
Reserve ==
  /\ work["control"].at = "idle"
  /\ \E i \in Slot, auto \in BOOLEAN :
       \E n \in IF auto THEN Chosen ELSE {m \in Number : MayRequest(m)} :
         /\ Ports[i] = NULL
         /\ \A j \in Slot : j < i => Ports[j] # NULL
         /\ Ports' = [Ports EXCEPT ![i] = RESERVED]
         /\ work' = [work EXCEPT !["control"] =
              [at |-> IF auto THEN "reservedAuto" ELSE "reserved",
               pair |-> NULL, slot |-> i, number |-> n]]
  /\ PortCount' = PortCount + 1
  /\ UNCHANGED <<pair, device, children, todo, file, twice>>

\* Out of the lock: the structure, its rings and locks.
Allocate ==
  LET w == work["control"]
  IN  /\ w.at \in {"reserved", "reservedAuto"}
      /\ \E p \in Pair :
           /\ pair[p].memory = "unused"
           /\ pair' = [pair EXCEPT ![p] =
                [memory |-> "allocated", number |-> w.number, Active |-> TRUE,
                 RefCount |-> 1, open |-> {}, locks |-> TRUE, queues |-> {}]]
           /\ work' = [work EXCEPT !["control"].at = "allocated", !["control"].pair = p]
      /\ UNCHANGED <<Ports, PortCount, device, children, todo, file, twice>>

\* No memory for the structure, a ring or a lock: the sentinel goes, and what
\* was allocated with it.
AllocateFails ==
  LET i == work["control"].slot
  IN  /\ "pair" \in Failing
      /\ work["control"].at \in {"reserved", "reservedAuto"}
      /\ Ports' = [Ports EXCEPT ![i] = NULL]
      /\ PortCount' = PortCount - 1
      /\ Goes("control", "idle")
      /\ UNCHANGED <<pair, device, children, todo, file, twice>>

\* The real pointer replaces the sentinel before the devices exist.
Publish ==
  LET w == work["control"]
  IN  /\ w.at = "allocated"
      /\ Ports' = [Ports EXCEPT ![w.slot] = w.pair]
      /\ Goes("control", "Com")
      /\ UNCHANGED <<PortCount, pair, device, children, todo, file, twice>>

\* GcomComPortCreate and GcomCompanionCreate: the named device ...
CreateDevice(s) ==
  LET w == work["control"]
  IN  /\ w.at = s
      /\ \/ /\ ~NameTaken(w.number, s)
            /\ device' = [device EXCEPT ![w.pair][s] = "building"]
            /\ Goes("control", IF s = "Com" THEN "ComRest" ELSE "CompanionRest")
         \/ /\ NameTaken(w.number, s) \/ (IF s = "Com" THEN "ComDevice" ELSE "CompanionDevice") \in Failing
            /\ Goes("control", IF s = "Com" THEN "unlist" ELSE "undoCom")
            /\ UNCHANGED device
      /\ UNCHANGED <<Ports, PortCount, pair, children, todo, file, twice>>

\* ... then its queues, the handle of the one for its waits in the structure,
\* and its link, after which it can be opened; the COM side's number is reported
\* present in the child list, for Device Manager.  A failure, before or after
\* the queues, returns without deleting the device; a device that the cleanup
\* has deleted meanwhile cannot be finished.
FinishDevice(s) ==
  LET w == work["control"]
  IN  /\ w.at = IF s = "Com" THEN "ComRest" ELSE "CompanionRest"
      /\ \/ /\ ~LinkTaken(w.number, s)
            /\ device[w.pair][s] = "building"
            /\ device' = [device EXCEPT ![w.pair][s] = "live"]
            /\ pair' = [pair EXCEPT ![w.pair].queues = @ \union {s}]
            /\ children' = IF s = "Com" THEN children \union {w.number} ELSE children
            /\ Goes("control", IF s = "Com" THEN "Companion" ELSE "respond")
         \/ /\ LinkTaken(w.number, s) \/ device[w.pair][s] # "building" \/ w.at \in Failing
            /\ Goes("control", IF s = "Com" THEN "unlist" ELSE "undoCom")
            /\ \E made \in SUBSET {s} :
                 pair' = [pair EXCEPT ![w.pair].queues = @ \union made]
            /\ UNCHANGED <<device, children>>
      /\ UNCHANGED <<Ports, PortCount, todo, file, twice>>

\* The response takes the number from the structure.
Respond ==
  /\ work["control"].at = "respond"
  /\ work' = [work EXCEPT !["control"].at = "idle", !["control"].pair = NULL]
  /\ UNCHANGED <<Ports, PortCount, pair, device, children, todo, file, twice>>

Other(s) == IF s = "Com" THEN "Companion" ELSE "Com"

\* Deletion waits for the requests in the device's handlers.
Serving == {"checked", "opening", "serving", "holding"}

Drained(p, s) ==
  \A h \in Handle : file[h].pair = p /\ file[h].side = s => file[h].at \notin Serving

\* GcomComPortDestroy and GcomCompanionDestroy
DeleteDevice(p, s) ==
  /\ Drained(p, s)
  /\ device' = [device EXCEPT ![p][s] = IF @ = "none" THEN "none" ELSE "deleted"]

UndoCom ==
  /\ work["control"].at = "undoCom"
  /\ DeleteDevice(work["control"].pair, "Com")
  /\ Goes("control", "unlist")
  /\ UNCHANGED <<Ports, PortCount, pair, children, todo, file, twice>>

\* fail_cleanup, which counts the pair out even if the cleanup has done so, and
\* one that leaves the entry where it is
EntryKept(i) == Ports
EntryCleared(i) == [Ports EXCEPT ![i] = NULL]

Unlist ==
  LET w == work["control"]
  IN  /\ w.at = "unlist"
      /\ Ports' = EntryCleared(w.slot)
      /\ PortCount' = PortCount - 1
      /\ twice' = IF Ports[w.slot] = NULL THEN twice \union {w.pair} ELSE twice
      /\ Goes("control", "discard")
      /\ UNCHANGED <<pair, device, children, todo, file>>

\* fail_alloc: locks, rings and the structure, whatever its RefCount and whether
\* or not the cleanup is destroying it; and one that gives back the creation's
\* reference instead.
DiscardCounted ==
  LET p == work["control"].pair
  IN  /\ work["control"].at = "discard"
      /\ pair' = [pair EXCEPT ![p] = Released([@ EXCEPT !.locks = FALSE])]
      /\ work' = [work EXCEPT !["control"].at = "idle", !["control"].pair = NULL]
      /\ UNCHANGED <<Ports, PortCount, device, children, todo, file, twice>>

Discard ==
  LET p == work["control"].pair
  IN  /\ work["control"].at = "discard"
      /\ pair' = [pair EXCEPT ![p] = Freed([@ EXCEPT !.locks = FALSE])]
      /\ work' = [work EXCEPT !["control"].at = "idle", !["control"].pair = NULL]
      /\ UNCHANGED <<Ports, PortCount, device, children, todo, file, twice>>

-----------------------------------------------------------------------------
(* Destruction, by request or by the cleanup.                              *)

\* IOCTL_GCOM_DESTROY_PORT finds an active pair and takes it from the table.
DestroyTake ==
  /\ work["control"].at = "idle"
  /\ \E p \in Listed :
       /\ Ports' = Without({p})
       /\ PortCount' = CountWithout({p})
       /\ work' = [work EXCEPT !["control"].at = "taken", !["control"].pair = p]
  /\ UNCHANGED <<pair, device, children, todo, file, twice>>

\* GcomEvtSelfManagedIoCleanup takes all it finds, a pair whose creation is still
\* going on included: it locks the table and nothing else.
CleanupTake ==
  /\ Stops
  /\ work["cleanup"].at = "idle"
  /\ todo' = Listed
  /\ Ports' = Without(Listed)
  /\ PortCount' = CountWithout(Listed)
  /\ Goes("cleanup", "next")
  /\ UNCHANGED <<pair, device, children, file, twice>>

CleanupNext ==
  /\ work["cleanup"].at = "next"
  /\ \E p \in todo :
       /\ todo' = todo \ {p}
       /\ work' = [work EXCEPT !["cleanup"].at = "taken", !["cleanup"].pair = p]
  /\ UNCHANGED <<Ports, PortCount, pair, device, children, file, twice>>

\* With no pair left the control device goes too, once it serves no request.
CleanupEnd ==
  /\ work["cleanup"].at = "next"
  /\ todo = {}
  /\ work["control"].at = "idle"
  /\ work' = [a \in Actor |-> [work[a] EXCEPT !.at = "stopped"]]
  /\ UNCHANGED <<Ports, PortCount, pair, device, children, todo, file, twice>>

\* GcomPortPairDestroy: no longer active; a second look at the table.
Deactivate(a) ==
  LET p == work[a].pair
  IN  /\ work[a].at = "taken"
      /\ pair' = [pair EXCEPT ![p].Active = FALSE]
      /\ Ports' = Without({p})
      /\ PortCount' = CountWithout({p})
      /\ Goes(a, "inactive")
      /\ UNCHANGED <<device, children, todo, file, twice>>

\* The number is reported missing, then the queue handles go, those of the waits
\* under SignalLock.
DetachQueues(a) ==
  /\ work[a].at = "inactive"
  /\ children' = children \ {pair[work[a].pair].number}
  /\ pair' = [pair EXCEPT ![work[a].pair].queues = {}]
  /\ Goes(a, "detached")
  /\ UNCHANGED <<Ports, PortCount, device, todo, file, twice>>

\* The COM device goes first; Second is the other order.
Second == "Companion"
First == "Com"

DeleteFirst(a) ==
  /\ work[a].at = "detached"
  /\ DeleteDevice(work[a].pair, First)
  /\ Goes(a, "comDeleted")
  /\ UNCHANGED <<Ports, PortCount, pair, children, todo, file, twice>>

DeleteSecond(a) ==
  /\ work[a].at = "comDeleted"
  /\ DeleteDevice(work[a].pair, Other(First))
  /\ Goes(a, "bothDeleted")
  /\ UNCHANGED <<Ports, PortCount, pair, children, todo, file, twice>>

DeleteLocks(a) ==
  /\ work[a].at = "bothDeleted"
  /\ pair' = [pair EXCEPT ![work[a].pair].locks = FALSE]
  /\ Goes(a, "unlocked")
  /\ UNCHANGED <<Ports, PortCount, device, children, todo, file, twice>>

ReleaseCreation(a) ==
  LET p == work[a].pair
  IN  /\ work[a].at = "unlocked"
      /\ pair' = [pair EXCEPT ![p] = Released(@)]
      /\ work' = [work EXCEPT ![a].at = IF a = "control" THEN "idle" ELSE "next",
                              ![a].pair = NULL]
      /\ UNCHANGED <<Ports, PortCount, device, children, todo, file, twice>>

Destroy(a) ==
  \/ Deactivate(a) \/ DetachQueues(a) \/ DeleteFirst(a)
  \/ DeleteSecond(a) \/ DeleteLocks(a) \/ ReleaseCreation(a)

-----------------------------------------------------------------------------
(* Handles.  One request of a handle is in a handler at a time.            *)

Moves(h, to) == file' = [file EXCEPT ![h].at = to]

\* EvtFileCreate: the device is there and the pair is active ...
OpenCheck(h) ==
  /\ file[h].at = "none"
  /\ \E p \in Pair, s \in Side :
       /\ device[p][s] = "live"
       /\ pair[p].Active
       /\ file' = [file EXCEPT ![h] = [at |-> "checked", pair |-> p, side |-> s]]
  /\ UNCHANGED <<Ports, PortCount, pair, device, children, work, todo, twice>>

Closed(h) == [file EXCEPT ![h].at = "none", ![h].pair = NULL]

\* ... the open flag is compared and exchanged, and the handle gets its
\* reference.  MayClaimAny does not compare.
MayClaimAny(p, s) == TRUE
MayClaim(p, s) == s \notin pair[p].open

OpenClaim(h) ==
  LET p == file[h].pair
      s == file[h].side
  IN  /\ file[h].at = "checked"
      /\ \/ /\ MayClaim(p, s)
            /\ pair' = [pair EXCEPT ![p].open = @ \union {s}, ![p].RefCount = @ + 1]
            /\ Moves(h, IF s = "Com" THEN "opening" ELSE "open")
         \/ /\ ~MayClaim(p, s)
            /\ file' = Closed(h)
            /\ UNCHANGED pair
      /\ UNCHANGED <<Ports, PortCount, device, children, work, todo, twice>>

\* GCOM_CHANGED_COM_OPEN
OpenSignal(h) ==
  /\ file[h].at = "opening"
  /\ Moves(h, "open")
  /\ UNCHANGED <<Ports, PortCount, pair, device, children, work, todo, twice>>

\* The queue of the other side's waits, WaitMaskQueue or SignalWaitQueue
OtherQueue(h) == Other(file[h].side) \in pair[file[h].pair].queues

\* A handler that tells the other side something (GcomSignalChanged,
\* GcomCheckWaitMask): the check on entry, the other side's queue read under
\* SignalLock, its use out of the lock.
IoBegin(h) ==
  /\ file[h].at = "open"
  /\ device[file[h].pair][file[h].side] = "live"
  /\ pair[file[h].pair].Active
  /\ Moves(h, "serving")
  /\ UNCHANGED <<Ports, PortCount, pair, device, children, work, todo, twice>>

IoSnapshot(h) ==
  /\ file[h].at = "serving"
  /\ Moves(h, IF OtherQueue(h) THEN "holding" ELSE "open")
  /\ UNCHANGED <<Ports, PortCount, pair, device, children, work, todo, twice>>

IoUse(h) ==
  /\ file[h].at = "holding"
  /\ Moves(h, "open")
  /\ UNCHANGED <<Ports, PortCount, pair, device, children, work, todo, twice>>

\* EvtFileClose, which no deletion waits for.  The COM side clears its flag and
\* signals if the pair is active ...
CloseCom(h) ==
  /\ file[h].at = "open"
  /\ file[h].side = "Com"
  /\ pair' = [pair EXCEPT ![file[h].pair].open = @ \ {"Com"}]
  /\ Moves(h, "closing")
  /\ UNCHANGED <<Ports, PortCount, device, children, work, todo, twice>>

CloseCheck(h) ==
  /\ file[h].at = "closing"
  /\ Moves(h, IF pair[file[h].pair].Active THEN "signalling" ELSE "releasing")
  /\ UNCHANGED <<Ports, PortCount, pair, device, children, work, todo, twice>>

CloseSnapshot(h) ==
  /\ file[h].at = "signalling"
  /\ Moves(h, IF OtherQueue(h) THEN "notifying" ELSE "releasing")
  /\ UNCHANGED <<Ports, PortCount, pair, device, children, work, todo, twice>>

CloseNotify(h) ==
  /\ file[h].at = "notifying"
  /\ Moves(h, "releasing")
  /\ UNCHANGED <<Ports, PortCount, pair, device, children, work, todo, twice>>

\* ... the companion side clears its flag if the pair is active.
CloseCompanion(h) ==
  /\ file[h].at = "open"
  /\ file[h].side = "Companion"
  /\ pair' = [pair EXCEPT ![file[h].pair].open = IF pair[file[h].pair].Active
                                                 THEN @ \ {"Companion"} ELSE @]
  /\ Moves(h, "releasing")
  /\ UNCHANGED <<Ports, PortCount, device, children, work, todo, twice>>

\* The handle's reference goes; ReleasesActive forgets it after a destruction.
ReleasesActive(r) == IF r.Active THEN Released(r) ELSE r
Releases(r) == Released(r)

CloseRelease(h) ==
  /\ file[h].at = "releasing"
  /\ pair' = [pair EXCEPT ![file[h].pair] = Releases(@)]
  /\ file' = Closed(h)
  /\ UNCHANGED <<Ports, PortCount, device, children, work, todo, twice>>

-----------------------------------------------------------------------------
(* The specification.                                                      *)

Create ==
  \/ Reserve \/ Allocate \/ AllocateFails \/ Publish \/ Respond
  \/ \E s \in Side : CreateDevice(s) \/ FinishDevice(s)
  \/ UndoCom \/ Unlist \/ Discard

Cleanup == CleanupTake \/ CleanupNext \/ CleanupEnd

\* What a handle's thread goes on with once in a callback
Callback(h) ==
  \/ OpenClaim(h) \/ OpenSignal(h) \/ IoSnapshot(h) \/ IoUse(h)
  \/ CloseCheck(h) \/ CloseSnapshot(h) \/ CloseNotify(h) \/ CloseRelease(h)

Next ==
  \/ Create \/ DestroyTake \/ Cleanup
  \/ \E a \in Actor : Destroy(a)
  \/ \E h \in Handle :
       OpenCheck(h) \/ IoBegin(h) \/ CloseCom(h) \/ CloseCompanion(h) \/ Callback(h)

Spec == Init /\ [][Next]_vars

\* Threads go on: a request once taken, a callback once entered.  Nobody has to
\* create, destroy, open, use or close anything.
Fairness ==
  /\ WF_vars(CleanupNext)
  /\ \A a \in Actor : WF_vars(Destroy(a))
  /\ \A h \in Handle : WF_vars(Callback(h))

FairSpec == Spec /\ Fairness

-----------------------------------------------------------------------------
(* Properties.                                                             *)

ControlAt == {"idle", "reserved", "reservedAuto", "allocated", "Com", "ComRest",
              "Companion", "CompanionRest", "respond", "undoCom", "unlist", "discard"}
DestroyAt == {"taken", "inactive", "detached", "comDeleted", "bothDeleted", "unlocked"}
HandleAt == Serving \union
            {"none", "open", "closing", "signalling", "notifying", "releasing"}

(* Every variable keeps its type, and no reference count goes below zero.  The *)
(* count of the table may, see CountMatches.                                   *)
TypeOK ==
  /\ Ports \in [Slot -> Pair \union {NULL, RESERVED}]
  /\ PortCount \in Int
  /\ twice \subseteq Pair
  /\ pair \in [Pair -> [memory : {"unused", "allocated", "freed"}, number : Number \union {0},
                        Active : BOOLEAN, RefCount : Nat, open : SUBSET Side,
                        locks : BOOLEAN, queues : SUBSET Side]]
  /\ device \in [Pair -> [Side -> {"none", "building", "live", "deleted"}]]
  /\ work \in [Actor -> [at : ControlAt \union DestroyAt \union {"next", "stopped"},
                         pair : Pair \union {NULL}, slot : Slot \union {0},
                         number : Number \union {0}]]
  /\ children \subseteq Number
  /\ todo \subseteq Pair
  /\ file \in [Handle -> [at : HandleAt, pair : Pair \union {NULL}, side : Side]]

(* PortCount is the number of slots in use, reserved ones included, less one   *)
(* for each creation that failed after the cleanup had taken its pair: that    *)
(* one entry is counted out by both.  Everything else adds or takes one for    *)
(* the entry it sets or clears, the second look of a destruction included.     *)
CountMatches ==
  PortCount = Cardinality({i \in Slot : Ports[i] # NULL}) - Cardinality(twice)

(* Two pairs in the table never have one number, although the search and the   *)
(* check run before the pair is in it and deletion runs after it has left, or  *)
(* while it is being created.                                                  *)
OnePairPerNumber ==
  \A p, q \in Listed : p # q => pair[p].number # pair[q].number

(* Between requests every pair that IOCTL_GCOM_LIST_PORTS reports has both its *)
(* devices, and its number is present in the child list: a creation that       *)
(* failed and a destruction have taken theirs out, and no destruction of an    *)
(* older pair of that number has taken out the child of the new one.  Once a   *)
(* creation has failed under the cleanup this is lost: the cleanup goes on     *)
(* with a freed pair whose number may be another's by then.                    *)
ListedPortsAreReady ==
  work["control"].at \in {"idle", "stopped"} /\ twice = {} =>
    \A p \in Listed :
      pair[p].number \in children /\ \A s \in Side : device[p][s] = "live"

\* The handles that took a reference and have not given it back
Holders(p) == {h \in Handle : file[h].pair = p /\ file[h].at \notin {"none", "checked"}}

\* Who answers for the creation reference: the table, the cleanup, a destruction,
\* or a creation of a pair that nobody has destroyed
Owned(p) ==
  \/ \E i \in Slot : Ports[i] = p
  \/ work["cleanup"].pair = p \/ p \in todo
  \/ work["control"].pair = p /\ (work["control"].at \in DestroyAt \/ pair[p].Active)

(* While a pair is allocated, RefCount is one for each handle in use plus one  *)
(* for the creation until the end of GcomPortPairDestroy.                      *)
RefCountIsExact ==
  \A p \in Pair :
    pair[p].memory = "allocated" =>
      pair[p].RefCount = Cardinality(Holders(p)) + (IF Owned(p) THEN 1 ELSE 0)

(* No handle's thread touches a freed pair, wherever it is: an open that has   *)
(* no reference yet, a handler, a close after the destruction.                 *)
NoUseAfterFree ==
  \A h \in Handle : file[h].at # "none" => pair[file[h].pair].memory = "allocated"

(* "Enforce exclusive access": of the handles on one side of an active pair at *)
(* most one is past its open and not in its close.                             *)
InUse(p, s) == {h \in Holders(p) : /\ file[h].side = s
                                   /\ file[h].at \in {"opening", "open", "serving", "holding"}}

ExclusiveOpen ==
  \A p \in Pair : pair[p].Active => \A s \in Side : Cardinality(InUse(p, s)) <= 1

(* A handler finds what it uses: SignalLock, since deletion waits for handlers  *)
(* before the locks go, and on the COM side SignalWaitQueue after the lock is   *)
(* released, since its own device goes first and the queue's device second.     *)
(* Companion handlers have no such order on their side, closes no wait at all.  *)
HandlersFindTheirs ==
  \A h \in Handle :
    /\ file[h].at \in Serving \ {"checked"} => pair[file[h].pair].locks
    /\ file[h].at = "holding" /\ file[h].side = "Com"
         => device[file[h].pair]["Companion"] # "deleted"

(* A destroyed pair does not leak: it is freed in the end, unless some handle  *)
(* stays open for ever.                                                        *)
DestroyedIsFreed ==
  \A p \in Pair :
    (pair[p].memory = "allocated" /\ ~pair[p].Active)
      ~> (pair[p].memory = "freed" \/ \E h \in Handle : file[h].pair = p /\ file[h].at = "open")

(* portpair.c on the reference count: "The struct is freed when RefCount hits   *)
(* 0", so never while a handle has its reference.                               *)
FreedOnlyUnreferenced ==
  \A p \in Pair : pair[p].memory = "freed" => Holders(p) = {}

=============================================================================
