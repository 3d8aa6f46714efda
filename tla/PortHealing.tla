----------------------------- MODULE PortHealing -----------------------------
(***************************************************************************)
(* Several programs that create, use and give up ports of one driver:      *)
(* createPort with its healing of zombies and VirtualPort.destroy          *)
(* (port.ts), the script that destroys all zombies (check-zombies.ts), the *)
(* CREATE, DESTROY and LIST requests they make (control.rs, control.c) and *)
(* the flag CompanionSideOpen by which a zombie is told (companion.c).     *)
(*                                                                         *)
(* The control queue is sequential, so each request is one step; what goes *)
(* on inside is the subject of PortLifecycle.  A program is one JavaScript *)
(* thread that runs createPort without giving way, but programs interleave *)
(* with each other, and any of them may die between two steps.  The driver *)
(* may refuse any request: its table is full, the control device cannot be *)
(* opened, memory is short.                                                *)
(*                                                                         *)
(* A pair's companion index is its port number, so a number names whatever *)
(* pair has it when the request arrives.                                   *)
(***************************************************************************)
EXTENDS Integers, FiniteSets

CONSTANTS
  Process,  (* programs, each started again when it has ended (bound)      *)
  Number,   (* the COM numbers searched and requested                      *)
  Foreign,  (* the numbers that belong to other drivers                    *)
  NULL      (* nobody                                                      *)

ASSUME NumberAssumption == Number \subseteq Nat \ {0}
ASSUME ForeignAssumption == Foreign \subseteq Number
ASSUME ProcessAssumption == NULL \notin Process

VARIABLES
  Ports,   (* the numbers of the pairs in the table                        *)
  holder,  (* whose handle makes CompanionSideOpen true                    *)
  process  (* where each program is in createPort, destroy or the script   *)

driver == <<Ports, holder>>
vars == <<Ports, holder, process>>

\* request: the number asked for, 0 for any; heal: the option healZombies;
\* number: the port it was given; todo: what it has decided to destroy; newer:
\* the ports opened since it looked at the port or the list it relies on (history).
Ended == [at |-> "ended", request |-> 0, heal |-> FALSE, number |-> 0,
          todo |-> {}, newer |-> {}]

Init ==
  /\ Ports = {}
  /\ holder = [n \in Number |-> NULL]
  /\ process = [p \in Process |-> Ended]

Goes(p, to) == process' = [process EXCEPT ![p].at = to]
Ends(p) == process' = [process EXCEPT ![p] = Ended]

\* The driver has refused what createPort asked, and createPort throws.
Fails(p) == process' = [process EXCEPT ![p] = [Ended EXCEPT !.at = "failed"]]

Zombies == {n \in Ports : holder[n] = NULL}

-----------------------------------------------------------------------------
(* createPort                                                              *)

CreatePort(p) ==
  /\ process[p].at = "ended"
  /\ \E n \in Number \union {0}, heal \in BOOLEAN :
       process' = [process EXCEPT ![p] =
         [Ended EXCEPT !.at = "create", !.request = n, !.heal = heal]]
  /\ UNCHANGED driver

Free == Number \ (Ports \union Foreign)

\* A number asked for, if it is free, or the lowest free one.
Given(n) ==
  {m \in Free : IF n = 0 THEN \A k \in Free : m <= k ELSE m = n}

\* IOCTL_GCOM_CREATE_PORT succeeds; the companion is not open yet.
NativeCreate(p) ==
  /\ process[p].at \in {"create", "retry"}
  /\ \E n \in Given(process[p].request) :
       /\ Ports' = Ports \union {n}
       /\ process' = [process EXCEPT ![p] = [Ended EXCEPT !.at = "open", !.number = n]]
  /\ UNCHANGED holder

\* STATUS_OBJECT_NAME_COLLISION, which a full table precedes, is worth a look at
\* the list if healing is on and this was the first attempt; the variant looks
\* after the second.
MayHealLate(p) == process[p].at = "retry" /\ process[p].heal
MayHeal(p) == process[p].at = "create" /\ process[p].heal

NativeCollides(p) ==
  /\ process[p].at \in {"create", "retry"}
  /\ process[p].request \in Ports \union Foreign
  /\ IF MayHeal(p) THEN Goes(p, "list") ELSE Ends(p)
  /\ UNCHANGED driver

\* Any other error, a full table before the number is looked at: thrown, with
\* no healing.
NativeFails(p) ==
  /\ process[p].at \in {"create", "retry"}
  /\ Fails(p)
  /\ UNCHANGED driver

\* What tryHealZombie takes for a zombie of the number asked for: a pair whose
\* companion is closed.  The variant takes any pair.
StaleAny(p) == Ports \intersect {process[p].request}
Stale(p) == Zombies \intersect {process[p].request}

\* IOCTL_GCOM_LIST_PORTS, and the search in its answer; the collision is thrown
\* if there is no answer or nothing in it.
ListPorts(p) ==
  /\ process[p].at = "list"
  /\ process' = [process EXCEPT ![p] =
       IF Stale(p) = {} THEN Ended ELSE [@ EXCEPT !.at = "heal", !.todo = Stale(p)]]
  /\ UNCHANGED driver

ListFails(p) ==
  /\ process[p].at = "list"
  /\ Fails(p)
  /\ UNCHANGED driver

\* IOCTL_GCOM_DESTROY_PORT by companion index, whoever holds the pair; and one
\* that clears the table entry but leaves the devices.
RemovedEntry(n) ==
  /\ Ports' = Ports \ {n}
  /\ UNCHANGED holder

Removed(n) ==
  /\ Ports' = Ports \ {n}
  /\ holder' = [holder EXCEPT ![n] = NULL]

\* The zombie is destroyed, and the creation is tried once more.
Heal(p) ==
  /\ process[p].at = "heal"
  /\ \E n \in process[p].todo \intersect Ports : Removed(n)
  /\ process' = [process EXCEPT ![p].at = "retry", ![p].todo = {}]

\* It is gone already, STATUS_NOT_FOUND, or the request is refused and it stays;
\* the collision is thrown in either case.
HealFails(p) ==
  /\ process[p].at = "heal"
  /\ IF process[p].todo \intersect Ports = {} THEN Ends(p) ELSE Fails(p)
  /\ UNCHANGED driver

\* The program has seen the error.
Caught(p) ==
  /\ process[p].at = "failed"
  /\ Ends(p)
  /\ UNCHANGED driver

\* Who relies on what it saw, until it destroys
Relying == {"heal", "clean", "live", "destroy"}

\* openPort: the companion's exclusive open, and the VirtualPort.
OpenPort(p) ==
  LET n == process[p].number
  IN  /\ process[p].at = "open"
      /\ n \in Zombies
      /\ holder' = [holder EXCEPT ![n] = p]
      /\ process' = [q \in Process |->
           IF q = p THEN [process[p] EXCEPT !.at = "live"]
           ELSE IF process[q].at \in Relying THEN [process[q] EXCEPT !.newer = @ \union {n}]
           ELSE process[q]]
      /\ UNCHANGED Ports

\* The pair is gone, another program has it, or the open fails; createPort
\* throws and leaves the pair as it is.
OpenFails(p) ==
  /\ process[p].at = "open"
  /\ Ends(p)
  /\ UNCHANGED driver

-----------------------------------------------------------------------------
(* VirtualPort.destroy, death, and the script.                             *)

\* GcomCompEvtFileClose, if the pair the handle was opened on is active.
Closed(p) == [n \in Number |-> IF holder[n] = p THEN NULL ELSE holder[n]]

\* The stream and the watcher are shut down, the companion's handle is closed ...
CloseCompanion(p) ==
  /\ process[p].at = "live"
  /\ holder' = Closed(p)
  /\ Goes(p, "destroy")
  /\ UNCHANGED Ports

\* ... and the driver is told to remove the port; an error is ignored, also
\* when it leaves the pair behind.
NativeDestroy(p) ==
  /\ process[p].at = "destroy"
  /\ Removed(process[p].number) \/ UNCHANGED driver
  /\ Ends(p)

\* A program dies in the middle of anything ...
Crash(p) ==
  /\ process[p].at \notin {"ended", "dead"}
  /\ process' = [process EXCEPT ![p] = [Ended EXCEPT !.at = "dead"]]
  /\ UNCHANGED driver

\* ... and later the system closes its handle.
ReapHandles(p) ==
  /\ process[p].at = "dead"
  /\ holder' = Closed(p)
  /\ Ends(p)
  /\ UNCHANGED Ports

\* check-zombies --clean lists once and then destroys one by one, whatever
\* fails on the way.
Scan(p) ==
  /\ process[p].at = "ended"
  /\ process' = [process EXCEPT ![p].at = "clean", ![p].todo = Zombies]
  /\ UNCHANGED driver

CleanOne(p) ==
  /\ process[p].at = "clean"
  /\ \E n \in process[p].todo :
       /\ Removed(n) \/ UNCHANGED driver
       /\ process' = [process EXCEPT ![p].todo = @ \ {n}]

CleanEnds(p) ==
  /\ process[p].at = "clean"
  /\ process[p].todo = {}
  /\ Ends(p)
  /\ UNCHANGED driver

-----------------------------------------------------------------------------
(* The specification.                                                      *)

\* What a program goes on with of itself
Continues(p) ==
  \/ NativeCreate(p) \/ NativeCollides(p) \/ NativeFails(p)
  \/ ListPorts(p) \/ ListFails(p) \/ Heal(p) \/ HealFails(p) \/ Caught(p)
  \/ OpenPort(p) \/ OpenFails(p) \/ NativeDestroy(p) \/ CleanOne(p) \/ CleanEnds(p)

Next ==
  \E p \in Process :
    \/ CreatePort(p) \/ CloseCompanion(p) \/ Scan(p)
    \/ Crash(p) \/ ReapHandles(p) \/ Continues(p)

Spec == Init /\ [][Next]_vars

\* A program that does not die goes on with what it has begun, and the handles
\* of one that does are closed.  Nobody need create, destroy or clean anything.
Fairness == \A p \in Process : WF_vars(Continues(p)) /\ WF_vars(ReapHandles(p))

FairSpec == Spec /\ Fairness

-----------------------------------------------------------------------------
(* Properties.                                                             *)

Place == {"ended", "create", "list", "heal", "retry", "open", "live", "destroy",
          "clean", "failed", "dead"}
State ==
  [at : Place,
   request : Number \union {0}, heal : BOOLEAN, number : Number \union {0},
   todo : SUBSET Number, newer : SUBSET Number]

(* Every variable keeps its type, and only pairs in the table are held.        *)
TypeOK ==
  /\ Ports \subseteq Number
  /\ holder \in [Number -> Process \union {NULL}]
  /\ process \in [Process -> State]
  /\ \A n \in Number \ Ports : holder[n] = NULL

\* The ports a program is using: opened, neither given up nor abandoned.
InUse == {n \in Number : \E p \in Process : holder[n] = p /\ process[p].at = "live"}

(* Only stale evidence disturbs: when a port in use is taken from the table,    *)
(* the program that does so listed it, or opened one of that number itself,     *)
(* before the port was opened.  No program destroys a port it could have known  *)
(* to be in use.                                                                *)
OnlyStaleEvidenceDisturbs ==
  [][\A n \in InUse \ Ports' :
       \E p \in Process : process'[p] # process[p] /\ n \in process[p].newer]_vars

(* A zombie does not survive a createPort that asks for its number with healing *)
(* on, whatever other programs do to the table between its steps, unless the    *)
(* driver refuses it one of its requests or the program dies.  (When the table  *)
(* is full it is refused before its number is compared, and heals nothing.)     *)
Asks(p, n) ==
  /\ process[p].at = "create"
  /\ process[p].request = n
  /\ process[p].heal

ZombieIsHealed ==
  \A p \in Process, n \in Number :
    (n \in Zombies /\ Asks(p, n)) ~> (n \notin Zombies \/ process[p].at \in {"failed", "dead"})

(* types.ts of healing: "This never disturbs a port that another live process   *)
(* is actually using."                                                          *)
HealingNeverDisturbs ==
  [][\A p \in Process :
       process[p].at = "heal" /\ process'[p].at = "retry" => InUse \subseteq Ports']_vars

=============================================================================
