------------------------- MODULE PortHealingProofs --------------------------
(***************************************************************************)
(* Proofs about PortHealing for any number of programs and any numbers,    *)
(* native or foreign: its type invariant, and that a port in use is only   *)
(* destroyed by a program whose evidence has become stale.                 *)
(***************************************************************************)
EXTENDS PortHealing, TLAPS

USE NumberAssumption, ForeignAssumption, ProcessAssumption

\* The records that programs start and end with have their type.
LEMMA EndedType ==
  /\ Ended \in State
  /\ \A n \in Number \union {0}, heal \in BOOLEAN :
       [Ended EXCEPT !.at = "create", !.request = n, !.heal = heal] \in State
  /\ \A n \in Number : [Ended EXCEPT !.at = "open", !.number = n] \in State
  /\ \A at \in {"dead", "failed"} : [Ended EXCEPT !.at = at] \in State
BY DEF Ended, State, Place

\* So have those that differ from one in where a program is, in what it means to
\* destroy or in what it cannot have seen.
LEMMA UpdateType ==
  ASSUME NEW s \in State, NEW a \in Place, NEW T \in SUBSET Number
  PROVE  /\ [s EXCEPT !.at = a] \in State
         /\ [s EXCEPT !.todo = T] \in State
         /\ [s EXCEPT !.newer = T] \in State
         /\ [s EXCEPT !.at = a, !.todo = T] \in State
BY DEF State

LEMMA FieldTypes ==
  ASSUME NEW s \in State
  PROVE  /\ s.at \in Place /\ s.number \in Number \union {0}
         /\ s.todo \in SUBSET Number /\ s.newer \in SUBSET Number
BY DEF State

-----------------------------------------------------------------------------
(* The types.                                                              *)

\* A port that is destroyed leaves table and handles well typed.
LEMMA RemovedType ==
  ASSUME TypeOK, NEW n, Removed(n)
  PROVE  /\ Ports' \subseteq Number
         /\ holder' \in [Number -> Process \union {NULL}]
         /\ \A k \in Number \ Ports' : holder'[k] = NULL
BY DEF TypeOK, Removed

\* So does a program's handle that is closed.
LEMMA ClosedType ==
  ASSUME TypeOK, NEW p \in Process, holder' = Closed(p)
  PROVE  /\ holder' \in [Number -> Process \union {NULL}]
         /\ \A n \in Number : holder'[n] = NULL \/ holder'[n] = holder[n]
         /\ \A n \in Number : holder[n] = NULL => holder'[n] = NULL
BY DEF TypeOK, Closed

LEMMA InitType == Init => TypeOK
BY EndedType DEF Init, TypeOK

LEMMA StepType ==
  ASSUME TypeOK, [Next]_vars
  PROVE  TypeOK'
<1>0. process \in [Process -> State]
  BY DEF TypeOK
<1>a. ASSUME NEW p \in Process, Ends(p), driver' = driver PROVE TypeOK'
  BY <1>a, EndedType DEF TypeOK, Ends, driver
<1>b. ASSUME NEW p \in Process, Fails(p), driver' = driver PROVE TypeOK'
  BY <1>b, EndedType DEF TypeOK, Fails, driver
<1>1. ASSUME NEW p \in Process, CreatePort(p) PROVE TypeOK'
  <2>1. PICK s \in State : process' = [process EXCEPT ![p] = s]
    BY <1>1, EndedType DEF CreatePort
  <2> QED  BY <1>1, <2>1 DEF CreatePort, TypeOK, driver
<1>2. ASSUME NEW p \in Process, CloseCompanion(p) PROVE TypeOK'
  <2>1. process' \in [Process -> State]
    BY <1>0, <1>2, UpdateType DEF CloseCompanion, Goes, Place
  <2> QED  BY <1>2, <2>1, ClosedType DEF CloseCompanion, TypeOK
<1>3. ASSUME NEW p \in Process, Scan(p) PROVE TypeOK'
  <2>1. Zombies \subseteq Number
    BY DEF Zombies, TypeOK
  <2>2. process' \in [Process -> State]
    <3>1. process' = [process EXCEPT ![p] = [@ EXCEPT !.at = "clean", !.todo = Zombies]]
      BY <1>3 DEF Scan
    <3> QED  BY <1>0, <2>1, <3>1, UpdateType DEF Place
  <2> QED  BY <1>3, <2>2 DEF Scan, TypeOK, driver
<1>4. ASSUME NEW p \in Process, Crash(p) PROVE TypeOK'
  BY <1>4, EndedType DEF Crash, TypeOK, driver
<1>5. ASSUME NEW p \in Process, ReapHandles(p) PROVE TypeOK'
  <2>1. process' \in [Process -> State]
    BY <1>0, <1>5, EndedType DEF ReapHandles, Ends
  <2> QED  BY <1>5, <2>1, ClosedType DEF ReapHandles, TypeOK
<1>6. ASSUME NEW p \in Process, NativeCreate(p) PROVE TypeOK'
  <2>1. PICK n \in Number :
           /\ Ports' = Ports \union {n}
           /\ process' = [process EXCEPT ![p] = [Ended EXCEPT !.at = "open", !.number = n]]
    BY <1>6 DEF NativeCreate, Given, Free
  <2>2. [Ended EXCEPT !.at = "open", !.number = n] \in State
    BY EndedType
  <2> QED  BY <1>6, <2>1, <2>2 DEF NativeCreate, TypeOK
<1>7. ASSUME NEW p \in Process, NativeCollides(p) PROVE TypeOK'
  <2>1. CASE MayHeal(p)
    <3>1. process' \in [Process -> State]
      <4>1. Goes(p, "list")
        BY <1>7, <2>1 DEF NativeCollides
      <4> QED  BY <1>0, <4>1, UpdateType DEF Goes, Place
    <3> QED  BY <1>7, <3>1 DEF NativeCollides, TypeOK, driver
  <2>2. CASE ~MayHeal(p)
    BY <1>7, <1>a, <2>2 DEF NativeCollides
  <2> QED  BY <2>1, <2>2
<1>8. ASSUME NEW p \in Process, ListPorts(p) PROVE TypeOK'
  <2>1. Stale(p) \subseteq Number
    BY DEF Stale, Zombies, TypeOK
  <2>2. process' \in [Process -> State]
    BY <1>0, <1>8, <2>1, EndedType, UpdateType DEF ListPorts, Place
  <2> QED  BY <1>8, <2>2 DEF ListPorts, TypeOK, driver
<1>9. ASSUME NEW p \in Process, Heal(p) PROVE TypeOK'
  <2>1. PICK n \in Number : Removed(n)
    BY <1>0, <1>9, FieldTypes DEF Heal
  <2>2. process' \in [Process -> State]
    <3>1. process' = [process EXCEPT ![p] = [@ EXCEPT !.at = "retry", !.todo = {}]]
      BY <1>9 DEF Heal
    <3> QED  BY <1>0, <3>1, UpdateType DEF Place
  <2> QED  BY <2>1, <2>2, RemovedType DEF TypeOK
<1>10. ASSUME NEW p \in Process, OpenPort(p) PROVE TypeOK'
  <2> DEFINE n == process[p].number
  <2>1. n \in Number /\ n \in Ports
    BY <1>10 DEF OpenPort, Zombies, TypeOK
  <2>2. \A q \in Process :
          /\ [process[p] EXCEPT !.at = "live"] \in State
          /\ [process[q] EXCEPT !.newer = @ \union {n}] \in State
    <3> HIDE DEF n
    <3>1. [process[p] EXCEPT !.at = "live"] \in State
      BY <1>0, UpdateType DEF Place
    <3>2. ASSUME NEW q \in Process
          PROVE  [process[q] EXCEPT !.newer = @ \union {n}] \in State
      <4>1. process[q].newer \union {n} \in SUBSET Number
        BY <1>0, <2>1, FieldTypes
      <4>2. process[q] \in State
        BY <1>0
      <4> QED  BY <4>1, <4>2, UpdateType DEF Place
    <3> QED  BY <3>1, <3>2
  <2>3. process' \in [Process -> State]
    <3>1. process' = [q \in Process |->
            IF q = p THEN [process[p] EXCEPT !.at = "live"]
            ELSE IF process[q].at \in Relying THEN [process[q] EXCEPT !.newer = @ \union {n}]
            ELSE process[q]]
      BY <1>10 DEF OpenPort
    <3> HIDE DEF n
    <3> QED  BY <1>0, <2>2, <3>1
  <2>4. holder' \in [Number -> Process \union {NULL}] /\ \A k \in Number \ Ports : holder'[k] = NULL
    BY <1>10, <2>1 DEF OpenPort, TypeOK
  <2> QED  BY <1>10, <2>3, <2>4 DEF OpenPort, TypeOK
<1>11. ASSUME NEW p \in Process, NativeDestroy(p) PROVE TypeOK'
  <2>1. process' \in [Process -> State]
    BY <1>0, <1>11, EndedType DEF NativeDestroy, Ends
  <2>2. CASE Removed(process[p].number)
    BY <2>1, <2>2, RemovedType DEF TypeOK
  <2>3. CASE UNCHANGED driver
    BY <2>1, <2>3 DEF TypeOK, driver
  <2> QED  BY <1>11, <2>2, <2>3 DEF NativeDestroy
<1>12. ASSUME NEW p \in Process, CleanOne(p) PROVE TypeOK'
  <2>1. PICK n \in process[p].todo :
          /\ Removed(n) \/ UNCHANGED driver
          /\ process' = [process EXCEPT ![p].todo = @ \ {n}]
    BY <1>12 DEF CleanOne
  <2>2. process' \in [Process -> State]
    BY <1>0, <2>1, UpdateType, FieldTypes
  <2>3. CASE Removed(n)
    BY <2>2, <2>3, RemovedType DEF TypeOK
  <2>4. CASE UNCHANGED driver
    BY <2>2, <2>4 DEF TypeOK, driver
  <2> QED  BY <2>1, <2>3, <2>4
<1>13. ASSUME NEW p \in Process, NativeFails(p) \/ ListFails(p) \/ HealFails(p) \/ Caught(p)
                                   \/ OpenFails(p) \/ CleanEnds(p)
       PROVE  TypeOK'
  BY <1>13, <1>a, <1>b DEF NativeFails, ListFails, HealFails, Caught, OpenFails, CleanEnds
<1>14. CASE UNCHANGED vars
  BY <1>14 DEF TypeOK, vars
<1> QED
  BY <1>1, <1>2, <1>3, <1>4, <1>5, <1>6, <1>7, <1>8, <1>9, <1>10, <1>11, <1>12, <1>13, <1>14
  DEF Next, Continues

\* Whatever programs do and whenever they die, the variables keep their types
\* and only pairs in the table are held.
THEOREM TypeCorrect == Spec => []TypeOK
BY InitType, StepType, PTL DEF Spec

-----------------------------------------------------------------------------
(* Evidence.                                                               *)

\* What a program has decided to destroy was a zombie when it looked, and the
\* port it has opened was its own; where that is no longer so, some program has
\* opened the port since, and newer has it.
Evidence ==
  \A p \in Process :
    /\ process[p].at \in {"heal", "clean"} =>
         \A n \in process[p].todo : holder[n] = NULL \/ n \in process[p].newer
    /\ process[p].at \in {"live", "destroy"} =>
         LET n == process[p].number
         IN  /\ n \in Number
             /\ holder[n] \in {NULL, p} \/ n \in process[p].newer

\* A step that leaves every holder as it is or lets go, and changes one program
\* only, keeps the evidence of all others.
LEMMA OthersEvidence ==
  ASSUME TypeOK, Evidence, NEW p \in Process, NEW s,
         process' = [process EXCEPT ![p] = s],
         \A n \in Number : holder'[n] = NULL \/ holder'[n] = holder[n],
         s.at \in {"heal", "clean"} =>
           s.todo \subseteq Number
             /\ \A n \in s.todo : holder'[n] = NULL \/ n \in s.newer,
         s.at \in {"live", "destroy"} =>
           s.number \in Number
             /\ (holder'[s.number] \in {NULL, p} \/ s.number \in s.newer)
  PROVE  Evidence'
<1> SUFFICES ASSUME NEW q \in Process
             PROVE  /\ process'[q].at \in {"heal", "clean"} =>
                         \A n \in process'[q].todo :
                           holder'[n] = NULL \/ n \in process'[q].newer
                    /\ process'[q].at \in {"live", "destroy"} =>
                         /\ process'[q].number \in Number
                         /\ \/ holder'[process'[q].number] \in {NULL, q}
                            \/ process'[q].number \in process'[q].newer
  BY DEF Evidence
<1>1. CASE q = p
  <2>1. process'[q] = s
    BY <1>1 DEF TypeOK
  <2> QED  BY <1>1, <2>1
<1>2. CASE q # p
  <2>1. process'[q] = process[q] /\ process[q] \in State
    BY <1>2 DEF TypeOK
  <2>2. process[q].todo \subseteq Number
    BY <2>1, FieldTypes
  <2> QED  BY <2>1, <2>2 DEF Evidence
<1> QED  BY <1>1, <1>2

LEMMA InitEvidence == Init => Evidence
BY DEF Init, Evidence, Ended

LEMMA StepEvidence ==
  ASSUME TypeOK, Evidence, [Next]_vars
  PROVE  Evidence'
<1>0. process \in [Process -> State]
  BY DEF TypeOK
<1>a. ASSUME NEW p \in Process, Ends(p),
             \A n \in Number : holder'[n] = NULL \/ holder'[n] = holder[n]
      PROVE  Evidence'
  <2>1. process' = [process EXCEPT ![p] = Ended]
    BY <1>a DEF Ends
  <2>2. Ended.at = "ended"
    BY DEF Ended
  <2> QED  BY <1>a, <2>1, <2>2, OthersEvidence
<1>b. ASSUME NEW n, Removed(n) \/ UNCHANGED driver
      PROVE  \A k \in Number : holder'[k] = NULL \/ holder'[k] = holder[k]
  BY <1>b DEF Removed, TypeOK, driver
<1>c. ASSUME NEW p \in Process, Fails(p), holder' = holder PROVE Evidence'
  <2>1. process' = [process EXCEPT ![p] = [Ended EXCEPT !.at = "failed"]]
    BY <1>c DEF Fails
  <2>2. [Ended EXCEPT !.at = "failed"].at = "failed"
    BY DEF Ended
  <2> QED  BY <1>c, <2>1, <2>2, OthersEvidence
<1>1. ASSUME NEW p \in Process, CreatePort(p) PROVE Evidence'
  <2>1. PICK n \in Number \union {0}, heal \in BOOLEAN :
          process' = [process EXCEPT ![p] =
            [Ended EXCEPT !.at = "create", !.request = n, !.heal = heal]]
    BY <1>1 DEF CreatePort
  <2>2. [Ended EXCEPT !.at = "create", !.request = n, !.heal = heal].at = "create"
    BY DEF Ended
  <2>3. holder' = holder
    BY <1>1 DEF CreatePort, driver
  <2> QED  BY <2>1, <2>2, <2>3, OthersEvidence
<1>2. ASSUME NEW p \in Process, CloseCompanion(p) PROVE Evidence'
  <2> DEFINE s == [process[p] EXCEPT !.at = "destroy"]
             n == process[p].number
  <2>1. process' = [process EXCEPT ![p] = s] /\ process[p].at = "live"
    BY <1>2 DEF CloseCompanion, Goes
  <2>2. process[p] \in State
    BY <1>0
  <2>3. s.at = "destroy" /\ s.number = n /\ s.newer = process[p].newer
    BY <2>2 DEF State
  <2>4. n \in Number /\ (holder[n] \in {NULL, p} \/ n \in process[p].newer)
    BY <2>1 DEF Evidence
  <2>5. \A k \in Number : holder'[k] = NULL \/ holder'[k] = holder[k]
    BY <1>2, ClosedType DEF CloseCompanion
  <2> HIDE DEF s, n
  <2> QED  BY <2>1, <2>3, <2>4, <2>5, OthersEvidence
<1>3. ASSUME NEW p \in Process, Scan(p) PROVE Evidence'
  <2> DEFINE s == [process[p] EXCEPT !.at = "clean", !.todo = Zombies]
  <2>1. process' = [process EXCEPT ![p] = s] /\ holder' = holder
    BY <1>3 DEF Scan, driver
  <2>2. s.at = "clean" /\ s.todo = Zombies
    BY <1>0 DEF State
  <2>3. Zombies \subseteq Number /\ \A n \in Zombies : holder[n] = NULL
    BY DEF Zombies, TypeOK
  <2> HIDE DEF s
  <2> QED  BY <2>1, <2>2, <2>3, OthersEvidence
<1>4. ASSUME NEW p \in Process, Crash(p) PROVE Evidence'
  <2>1. process' = [process EXCEPT ![p] = [Ended EXCEPT !.at = "dead"]] /\ holder' = holder
    BY <1>4 DEF Crash, driver
  <2>2. [Ended EXCEPT !.at = "dead"].at = "dead"
    BY DEF Ended
  <2> QED  BY <2>1, <2>2, OthersEvidence
<1>5. ASSUME NEW p \in Process, ReapHandles(p) PROVE Evidence'
  BY <1>5, <1>a, ClosedType DEF ReapHandles
<1>6. ASSUME NEW p \in Process, NativeCreate(p) PROVE Evidence'
  <2>1. PICK n \in Number :
          process' = [process EXCEPT ![p] = [Ended EXCEPT !.at = "open", !.number = n]]
    BY <1>6 DEF NativeCreate, Given, Free
  <2>2. [Ended EXCEPT !.at = "open", !.number = n].at = "open"
    BY DEF Ended
  <2>3. holder' = holder
    BY <1>6 DEF NativeCreate
  <2> QED  BY <2>1, <2>2, <2>3, OthersEvidence
<1>7. ASSUME NEW p \in Process, NativeCollides(p) PROVE Evidence'
  <2>1. holder' = holder
    BY <1>7 DEF NativeCollides, driver
  <2>2. CASE MayHeal(p)
    <3>1. process' = [process EXCEPT ![p] = [process[p] EXCEPT !.at = "list"]]
      BY <1>7, <2>2 DEF NativeCollides, Goes
    <3>2. [process[p] EXCEPT !.at = "list"].at = "list"
      BY <1>0 DEF State
    <3> QED  BY <2>1, <3>1, <3>2, OthersEvidence
  <2>3. CASE ~MayHeal(p)
    BY <1>7, <1>a, <2>1, <2>3 DEF NativeCollides
  <2> QED  BY <2>2, <2>3
<1>8. ASSUME NEW p \in Process, ListPorts(p) PROVE Evidence'
  <2> DEFINE s == IF Stale(p) = {} THEN Ended
                  ELSE [process[p] EXCEPT !.at = "heal", !.todo = Stale(p)]
  <2>1. process' = [process EXCEPT ![p] = s] /\ holder' = holder
    BY <1>8 DEF ListPorts, driver
  <2>2. s.at = "ended" \/ (s.at = "heal" /\ s.todo = Stale(p))
    BY <1>0 DEF State, Ended
  <2>3. Stale(p) \subseteq Number /\ \A n \in Stale(p) : holder[n] = NULL
    BY DEF Stale, Zombies, TypeOK
  <2> HIDE DEF s
  <2> QED  BY <2>1, <2>2, <2>3, OthersEvidence
<1>9. ASSUME NEW p \in Process, Heal(p) PROVE Evidence'
  <2> DEFINE s == [process[p] EXCEPT !.at = "retry", !.todo = {}]
  <2>1. process' = [process EXCEPT ![p] = s]
    BY <1>9 DEF Heal
  <2>2. s.at = "retry"
    BY <1>0 DEF State
  <2>3. PICK n : Removed(n)
    BY <1>9 DEF Heal
  <2> HIDE DEF s
  <2> QED  BY <1>b, <2>1, <2>2, <2>3, OthersEvidence
<1>10. ASSUME NEW p \in Process, OpenPort(p) PROVE Evidence'
  <2> DEFINE n == process[p].number
  <2>1. n \in Number /\ holder' = [holder EXCEPT ![n] = p]
    BY <1>10 DEF OpenPort, Zombies, TypeOK
  <2>2. process' = [q \in Process |->
          IF q = p THEN [process[p] EXCEPT !.at = "live"]
          ELSE IF process[q].at \in Relying THEN [process[q] EXCEPT !.newer = @ \union {n}]
          ELSE process[q]]
    BY <1>10 DEF OpenPort
  <2> HIDE DEF n
  <2>3. /\ process'[p].at = "live" /\ process'[p].number = n
        /\ holder'[n] = p
    BY <1>0, <2>1, <2>2 DEF State, TypeOK, n
  <2>4. ASSUME NEW q \in Process \ {p}, process'[q].at \in {"heal", "clean", "live", "destroy"}
        PROVE  /\ process'[q].at = process[q].at /\ process'[q].todo = process[q].todo
               /\ process'[q].number = process[q].number
               /\ process'[q].newer = process[q].newer \union {n}
               /\ process[q].todo \subseteq Number
    <3>1. process[q] \in State
      BY <1>0
    <3>2. process'[q] = IF process[q].at \in Relying
                        THEN [process[q] EXCEPT !.newer = @ \union {n}] ELSE process[q]
      BY <2>2
    <3>3. process[q].at \in Relying
      BY <2>4, <3>2 DEF Relying
    <3> QED  BY <3>1, <3>2, <3>3 DEF State
  <2>5. \A k \in Number \ {n} : holder'[k] = holder[k]
    BY <2>1 DEF TypeOK
  <2>6. ASSUME NEW q \in Process, process'[q].at \in {"heal", "clean"},
               NEW k \in process'[q].todo
        PROVE  holder'[k] = NULL \/ k \in process'[q].newer
    BY <2>3, <2>4, <2>5, <2>6 DEF Evidence
  <2>7. ASSUME NEW q \in Process, process'[q].at \in {"live", "destroy"}
        PROVE  /\ process'[q].number \in Number
               /\ \/ holder'[process'[q].number] \in {NULL, q}
                  \/ process'[q].number \in process'[q].newer
    <3>1. CASE q = p
      BY <2>1, <2>3, <3>1
    <3>2. CASE q # p
      BY <2>4, <2>5, <2>7, <3>2 DEF Evidence
    <3> QED  BY <3>1, <3>2
  <2> QED  BY <2>6, <2>7 DEF Evidence
<1>11. ASSUME NEW p \in Process, NativeDestroy(p) PROVE Evidence'
  BY <1>11, <1>a, <1>b DEF NativeDestroy
<1>12. ASSUME NEW p \in Process, CleanOne(p) PROVE Evidence'
  <2>1. PICK n \in process[p].todo :
          /\ Removed(n) \/ UNCHANGED driver
          /\ process' = [process EXCEPT ![p].todo = @ \ {n}]
    BY <1>12 DEF CleanOne
  <2> DEFINE s == [process[p] EXCEPT !.todo = @ \ {n}]
  <2>2. process' = [process EXCEPT ![p] = s] /\ process[p].at = "clean"
    BY <1>12, <2>1 DEF CleanOne
  <2>3. /\ s.at = "clean" /\ s.todo = process[p].todo \ {n} /\ s.newer = process[p].newer
        /\ s.todo \subseteq Number
    BY <1>0, <2>2 DEF State
  <2>4. \A k \in process[p].todo : holder[k] = NULL \/ k \in process[p].newer
    BY <2>2 DEF Evidence
  <2>5. \A k \in Number : holder'[k] = NULL \/ holder'[k] = holder[k]
    BY <1>b, <2>1
  <2> HIDE DEF s
  <2> QED  BY <2>2, <2>3, <2>4, <2>5, OthersEvidence
<1>13. ASSUME NEW p \in Process, NativeFails(p) \/ ListFails(p) \/ HealFails(p) \/ Caught(p)
                                   \/ OpenFails(p) \/ CleanEnds(p)
       PROVE  Evidence'
  BY <1>13, <1>a, <1>c
  DEF NativeFails, ListFails, HealFails, Caught, OpenFails, CleanEnds, driver
<1>14. CASE UNCHANGED vars
  BY <1>14 DEF Evidence, vars
<1> QED
  BY <1>1, <1>2, <1>3, <1>4, <1>5, <1>6, <1>7, <1>8, <1>9, <1>10, <1>11, <1>12, <1>13, <1>14
  DEF Next, Continues

\* A port in use leaves the table in a step of a program that could not have
\* known: the port was opened after it looked.
LEMMA StepDisturbs ==
  ASSUME TypeOK, Evidence, Next
  PROVE  \A n \in InUse \ Ports' :
           \E p \in Process : process'[p] # process[p] /\ n \in process[p].newer
<1> SUFFICES ASSUME NEW n \in InUse \ Ports'
             PROVE  \E p \in Process : process'[p] # process[p] /\ n \in process[p].newer
  OBVIOUS
<1>1. PICK r \in Process : holder[n] = r /\ process[r].at = "live"
  BY DEF InUse
<1>2. n \in Number /\ n \in Ports /\ holder[n] # NULL
  BY <1>1 DEF InUse, TypeOK
<1>3. PICK p \in Process : Heal(p) \/ NativeDestroy(p) \/ CleanOne(p)
  BY <1>2 DEF Next, Continues, CreatePort, CloseCompanion, Scan, Crash, ReapHandles,
       NativeCreate, NativeCollides, NativeFails, ListPorts, ListFails, HealFails, Caught,
       OpenPort, OpenFails, CleanEnds, driver
<1>4. process[p] \in State
  BY DEF TypeOK
<1>5. CASE Heal(p)
  <2>1. process[p].at = "heal" /\ n \in process[p].todo
    BY <1>2, <1>5 DEF Heal, Removed
  <2>2. process' = [process EXCEPT ![p] = [@ EXCEPT !.at = "retry", !.todo = {}]]
    BY <1>5 DEF Heal
  <2>3. process'[p].at = "retry"
    BY <1>4, <2>2 DEF TypeOK, State
  <2> QED  BY <1>2, <2>1, <2>3 DEF Evidence
<1>6. CASE NativeDestroy(p)
  <2>1. process[p].at = "destroy" /\ n = process[p].number /\ process'[p] = Ended
    BY <1>2, <1>6 DEF NativeDestroy, Removed, Ends, TypeOK, driver
  <2>2. r # p /\ process'[p].at = "ended"
    BY <1>1, <2>1 DEF Ended
  <2> QED  BY <1>1, <1>2, <2>1, <2>2 DEF Evidence
<1>7. CASE CleanOne(p)
  <2>1. PICK k \in process[p].todo :
          /\ Removed(k) \/ UNCHANGED driver
          /\ process' = [process EXCEPT ![p].todo = @ \ {k}]
    BY <1>7 DEF CleanOne
  <2>2. process[p].at = "clean" /\ n = k
    BY <1>2, <1>7, <2>1 DEF CleanOne, Removed, driver
  <2>3. process'[p].todo = process[p].todo \ {n}
    BY <1>4, <2>1, <2>2 DEF TypeOK, State
  <2> QED  BY <1>2, <2>1, <2>2, <2>3 DEF Evidence
<1> QED  BY <1>3, <1>5, <1>6, <1>7

\* No program destroys a port it could have known to be in use.
THEOREM StaleEvidenceOnly == Spec => OnlyStaleEvidenceDisturbs
<1>1. Init => TypeOK /\ Evidence
  BY InitType, InitEvidence
<1>2. TypeOK /\ Evidence /\ [Next]_vars => (TypeOK /\ Evidence)'
  BY StepType, StepEvidence
<1> DEFINE Disturbs ==
      \A n \in InUse \ Ports' :
        \E p \in Process : process'[p] # process[p] /\ n \in process[p].newer
<1>3. TypeOK /\ Evidence /\ [Next]_vars => [Disturbs]_vars
  BY StepDisturbs
<1> HIDE DEF Disturbs
<1>4. Spec => [][Disturbs]_vars
  BY <1>1, <1>2, <1>3, PTL DEF Spec
<1> QED  BY <1>4 DEF OnlyStaleEvidenceDisturbs, Disturbs

=============================================================================
