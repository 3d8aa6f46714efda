# GhostCOM in TLA+

GhostCOM gives Windows programs virtual COM ports. A kernel driver
(`driver/src`, KMDF, C) pairs a COM device `COM<N>` with a companion device
`GCOM<N>`; a native addon (`addon/src`, Rust) reads, writes and watches the
companion device from threads; a TypeScript API (`src`) offers each port as a
Duplex stream with signal events. This directory holds the TLA+ modules that
model it, the TLC configurations that check them, and the proofs.

Run `tlc -config X.cfg M` on the pairs listed under *Runs*, and `tlapm M.tla`
on the `*Proofs` modules.

## The system

| Component | State | Operations | What makes it correct |
|---|---|---|---|
| Ring buffer (`ringbuf.h`) | array, `WritePos`, `ReadPos` | write, read, flush | a queue of `Size - 1` bytes, whatever wraps |
| Data path (`comport.c`, `companion.c`, `portpair.c`) | two rings, four queues of pended requests, `DataLock`, `Timeouts` | read, write, drain loops, PURGE, IMMEDIATE_CHAR, SET_TIMEOUTS, cancellation | no byte lost, repeated or overtaken; nobody waits without cause |
| Signal path (`portpair.c`, `comport.c`, `companion.c`, `signals.rs`) | `SignalState` with its number and mask, `SignalLock`, `SignalWaitQueue` | open, close, `SET_*`, `GcomSignalChanged`, the watcher's waits | no change is silent, notifications say what changed, in order |
| COM event waits (`portpair.c`, `comport.c`, `companion.c`) | `WaitMask`, `WaitMaskQueue`, `CompDtr`, `CompRts` | SET_WAIT_MASK, WAIT_ON_MASK, SET_SIGNALS, `GcomCheckWaitMask` | an event that a queued wait asks for completes it, no wait outlives its mask, no change of a line is lost |
| Port pair lifecycle (`portpair.c`, `control.c`, `driver.c`) | port table, `Active`, `RefCount`, devices, names, locks, child list | create, destroy, list, open, close, driver cleanup | one pair per number, nothing used after it is deleted, all freed once |
| Addon threads (`stream.rs`, `signals.rs`, `port.rs`, `overlapped.rs`) | shutdown and pause flags, outstanding I/O, the handle | read loop, write loop, watch loop, shutdown, close | whole chunks written in order, shutdown ends |
| TypeScript API (`port.ts`, `stream.ts`, `control.ts`), `check-zombies.ts` | last signal state, `destroyed`, lists of ports | `createPort` with healing of zombies, `destroy`, `setSignals`, `isComOpen`; the script's sweep | a port in use is never healed away, a zombie whose number is wanted is |

The components meet in four places. Handlers of both devices call into one
port pair, on parallel queues. `DataLock` guards the rings and is taken by
every read, write and clearing purge; `SignalLock` guards the settings. The
driver's manual queues hold requests until a handler of the *other* side
completes them. The addon's threads block on overlapped requests in those
queues, and hand results to JavaScript through thread-safe callbacks.

What is hard: handlers that interleave between their critical sections;
requests cancelled while a loop works on their queue; a purge that empties one
half of a connected pair; notifications completed without the lock that
numbered them; waits completed by the mask of a moment ago; handles that
outlive their port; partly failed creation; threads that block just after they
were told to stop, on a handle whose cancellation reaches them all; and
programs that decide from a stale list, or die before they have cleaned up.

## Modules

| Module | Models |
|---|---|
| `FifoOps` | taking a prefix of a byte sequence and leaving the rest (`min(Length, available)` in `ringbuf.h`) |
| `BoundedFifo` | abstract: what a ring promises |
| `RingBuffer` | `ringbuf.h`: positions, masking, the two copies of a wrapping transfer |
| `BytePipe` | abstract: what one direction of a port promises |
| `DataPath` | the handlers that move bytes, the drain loops, PURGE |
| `SignalPath` | `GcomSignalChanged`, its callers, the watcher |
| `CommEvents` | event waits of the COM side: SET_WAIT_MASK, WAIT_ON_MASK, `GcomCheckWaitMask`, SET_SIGNALS |
| `PortLifecycle` | the port table, creation, destruction, references, handles, driver stop, child list |
| `AddonThreads` | one open port in a program: the event loop, reader, writer and watcher threads, shutdown |
| `PortHealing` | programs that create, heal, use, destroy and sweep ports of one driver, and die |
| `MC*` | the small instances TLC checks |
| `FifoOpsProofs`, `RingBufferProofs`, `DataPathProofs`, `SignalPathProofs`, `CommEventsProofs`, `PortLifecycleProofs`, `AddonThreadsProofs`, `PortHealingProofs` | the theorems |

### RingBuffer

One action per function of `ringbuf.h`; each is one step because every call
runs under `DataLock`. `Masked` is `x & Mask`. `moved` is what the last call
copied. `ImplementsFifo` refines `BoundedFifo` with the bytes between the two
positions as its content.

### DataPath

`ring[d]` is the content of a ring, used as `RingBuffer` justifies; `readQ`
and `writeQ` are the four manual queues. Bytes are the numbers of their order
of offering, so the streams show every loss, repetition and overtaking.
A handler is the step that takes `DataLock` and moves its own bytes, then one
step per iteration of the drain loop it calls, then the release. Between these
steps the framework may cancel any queued request, a purge may empty a queue
(`WdfIoQueuePurge` runs without the lock), a queue may be restarted, and the
timeouts may change (they are stored under the other lock, so a read may see a
mixture: `timeouts = "torn"`). `sent` is what writes report, `received` what
reads return, in the order of the lock; the order in which the programs see
two completions that overlap is not modelled. IMMEDIATE_CHAR ignores the
count the ring accepted, so its character may vanish before it is `sent`.

Left out: `PerfStats`, which nothing reads but the statistics request;
`GcomCheckWaitMask`, which touches no state here; requests that fail to
validate and change nothing. The port is active throughout.

### SignalPath

A `caller` is a thread in a handler of `comport.c`: it stores settings under
`SignalLock`, releases it, and calls `GcomSignalChanged`, which is
`TakeSnapshot` (first critical section), `CompleteWait`/`CompleteEnd` (the loop
over `SignalWaitQueue`, no lock) and `ClearBits` (second critical section).
The default queue dispatches in parallel, so several threads are in it at once;
a close waits for the handle's requests. The watcher of `signals.rs` is between two
waits, waiting, or woken; `heard` is the last two snapshots its callback got.
`log` is history: what each number stood for. The purge of `WaitMaskQueue` in
SET_WAIT_MASK touches nothing here.

### CommEvents

A `thread` runs a handler of either device. SET_WAIT_MASK is two steps: the
mask stored under `SignalLock` (`StoreMask`), the queue purged after it
(`PurgeWaits`); the purge's callback restarts the queue (`Restart`), and until
then a wait is refused. A handler that raises events is the step that decides
on them (`RaiseData` for EV_RXCHAR, EV_TXEMPTY and EV_BREAK; `SetSignals`,
which stores both lines and keeps the values it found), then
`GcomCheckWaitMask`: `CheckMask` is its critical section, `CompleteWait` and
`CompleteEnd` its loop without the lock. A wait belongs to a program that may
cancel it at any time and wait again once answered. `wait[w].mask` (under which
mask it was pended) and `signalled` (which lines have been raised an odd number
of times) are history.

Taken of the framework: a purge cancels what is queued and refuses what comes
until its callback has restarted the queue; a manual queue hands out its oldest
request. Left out: when data events are due (`RaiseData` raises them at will,
which is more than the handlers do), GET_WAIT_MASK, an answer whose buffer
cannot be retrieved, and the destruction of the pair, which is
`PortLifecycle`'s.

### PortLifecycle

The control device's queue is sequential, so one thread (`work["control"]`)
goes through a create or destroy request step by step; `work["cleanup"]` is
`GcomEvtSelfManagedIoCleanup`; each handle's thread (`file[h]`) opens, makes
requests and closes. A step is one critical section, one interlocked operation
or one framework call. `pair[p]` is the structure: `open` is the set of
`ComSideOpen` and `CompanionSideOpen`, `queues` says which of `WaitMaskQueue`
("Com") and `SignalWaitQueue` ("Companion") it points to, `memory` whether it
is allocated. `device[p][s]` is "building" between `WdfDeviceCreate` and
`WdfControlFinishInitializing`. The cleanup locks the table and nothing else, so
`CleanupTake` may come between any two steps of a creation: it then takes a pair
that was published before its devices exist, or misses a reserved slot. `twice`
is history: the pairs that both the cleanup and a failing creation counted out. `Failing` names what may run out of resources.
A handler that tells the other side something is "serving", then "holding"
that side's queue outside `SignalLock`.

What is taken of the framework, from the driver's own comments
(`portpair.c:410-424`, `companion.c:75-79`): deleting a device waits for the
requests in its handlers and its opens, but not for close callbacks and not
for the other device; names go with the device. Structures are never reused,
so that a freed one is recognised; a thread that goes on with a freed one finds in
it what was left there, though in the program the memory may hold anything. `children` is what the driver has told the
child list to be present. Left out: the data queues' handles, the SERIALCOMM
registry value, and what the framework does with the child list.

### AddonThreads

`reader`, `watcher` and `writer` say where each native thread is: before its
look at the shutdown flag ("check"), in the pause loop ("gate"), about to make
its call ("issue"), waiting, or gone. `request[t]` is the thread's overlapped
request. A step of a thread is one access to a flag or one call. `js` is the
JavaScript thread: in its event loop, or blocked somewhere in
`PortStreamNative::shutdown`, `SignalWatcher::stop`, `NativePort::close`,
which it runs for `VirtualPort.destroy`, and the first of them also when a read
or write error makes Node destroy the stream. `chunks` holds the data
callbacks the reader has queued, `buffer` is Node's, `reading` is the stream's
`#reading`.

Taken of the outside: the driver completes requests as the driver modules say
and fails them when the pair is removed; a request on a removed pair may fail
at once or after it was pended, since that is the framework's choice; Node
makes one `_write` at a time, no `_read` between one and the next `push`, and
destroys a stream whose write failed; the value of a closed handle may be used
again (`WriterAstray`). Left out: failures to start a thread or make an event,
the sleeps, the synchronous GET and SET IOCTLs, a write completed with 0 bytes
(the driver pends it instead), what the signal callback gets.

### PortHealing

Each program is in one place of `createPort` (`port.ts`), `VirtualPort.destroy`
or `check-zombies --clean`; its JavaScript never gives way in between, but
programs interleave and may die at any step, after which the system closes
their handle in its own time (`ReapHandles`). The control queue is sequential,
so CREATE, LIST and DESTROY are one step each on `Ports`, the numbers in the
table, as `PortLifecycle` justifies, and the driver may refuse any of them: its
table is full, which it finds before it looks at the number
(`portpair.c:137-148`), or the control device cannot be opened. A program whose
creation is refused is at "failed" until it has seen the error; `holder[n]` is whose handle makes
`CompanionSideOpen` true. DESTROY names a pair by its companion index, which
is its number, so it hits whatever pair has the number when it arrives.
`Foreign` numbers belong to other drivers: a request for one collides, and no
healing helps. `newer` is history: the ports opened since the program looked
at what it relies on. Left out: COM-side handles, which decide nothing here,
and the errors' texts, by which `createPort` knows a collision.

## Runs

All bounds are constants of the configurations.

| Run | Question | Bounds, and why they are enough |
|---|---|---|
| `MCRingBuffer` | is the array a queue? | 4 slots, writes and reads up to 4 bytes, 3 byte values: every pair of positions, full and empty rings, transfers that wrap and that ask for more than fits |
| `MCDataPath` | are both directions pipes at once, with nobody waiting without cause, does every accepted byte arrive, is every pended write served? | capacity 2, 4 bytes from the companion and 1 from the COM side in writes of 1 to 3 (one exceeds the ring; the fourth byte could overtake a pended third), 2 requests per queue: partial writes, a queue with an oldest and a newest, cancellations, aborts, restarts, IMMEDIATE_CHAR |
| `MCDataPathPurge` | does any purge make a byte arrive twice? | all fifteen flag sets, both directions |
| `MCSignalPath` | do overlapping calls keep the mask and the settings consistent, and is an armed watcher woken? | three threads (the third meets two in flight), two settings, one call that stores both, three changes, so that all three overlap |
| `MCCommEvents` | do waits, masks and lines keep together when their handlers overlap, and is a wait whose event comes answered? | two threads, so that a mask changes, a line changes back and a wait is completed under each other's feet; two waits, so that one is completed while another comes; masks that ask for a line, for data, for both |
| `MCPortLifecycle` | are table, count, numbers and child list right through every failure? | two pairs, two numbers, two slots, one handle; every resource may fail; the driver stops at any moment, within a creation or a destruction too |
| `MCPortLifecycleRefs` | are the references exact, is memory never used after it is freed, and is a destroyed pair freed? | one pair and three handles, so that two compete for a side while a third is in its close; nothing fails, no stop (with either, `MCPortLifecycleFree` shows use after free) |
| `MCPortLifecycleFree` | expected violation, below | one handle, one pair |
| `MCAddonThreads` | are both streams pipes, does back-pressure ever stop one for good, what does a shutdown at any moment do to each thread? | two bytes read one by one with a high-water mark of one, so that the stream pauses with a read in flight and with one queued; two chunks of two bytes, so that a write is partial and another follows; shutdown, stream errors and removal at any moment |
| `MCAddonThreadsHang` | expected violation, below | one byte, one chunk |
| `MCPortHealing` | who can destroy a port in use, and does a zombie go when its number is wanted? | three programs, so that one owns a port while two others heal, sweep or replace it; any request may be refused; one number of the driver and one foreign, the sweep of several being left to the proof |
| `MCPortHealingLive` | expected violation, below | the same |

`CHECK_DEADLOCK FALSE` appears in the lifecycle runs, where the structures are
used up or the driver has stopped, in the addon runs, where the port is
destroyed, and in the signal runs: with every handler
returned and the watcher waiting the system is at rest, and stays there when
the bounded number of changes has been made. The runs of event waits and of
healing have it too: nobody there need do anything further.

**Fairness.** `DataPath!FairSpec`: a handler that holds the lock finishes its
loops (nothing in them blocks), and programs go on reading while there is
something to read; the companion's reader thread does, of the COM application
it is an assumption. Nobody need write, cancel or purge. `SignalPath!FairSpec`:
a handler goes on to its end and the watcher goes round its loop; no
application need open, set or close anything. That every handler *returns* is
not claimed: the completing loop runs as long as the watcher re-arms in time.
`PortLifecycle!FairSpec`: a
destruction and a callback that have begun go on; no handle need be closed, so
the property excuses a pair whose handle stays open. `AddonThreads!FairSpec`:
threads run on, the event loop gets to each kind of callback, a pended read is
given bytes that are there (`EveryByteArrives` of the driver), and the program
goes on reading; the COM application need do nothing, so that a pended write
or wait may stay pended. `CommEvents!FairSpec`: a handler goes on to its end
and the framework calls back after a purge; no program need wait, set a mask or
change anything. `PortHealing!FairSpec`: a program that does not die goes on
with the creation, destruction or sweep it has begun, and the handle of a dead
one is closed.

## What the runs show

The ring is a queue. With every purge that only aborts, each direction is a
byte pipe, in order, without loss or repetition; a read waits only beside an
empty ring and a write only beside a full one. `GcomDrainWritesToRing`'s drain
of the peer's reads is never needed (`AdmittedDrainFindsNoReader`).
No stored setting goes without a number; a snapshot's mask has the bits of its
own change and none of a later one, however calls overlap; and a watcher whose
wait is queued when a change is signalled is woken.

No event wait outlives its mask without a purge on its way; every change of a
companion's line is raised exactly once, which rests on the comparison of the
values captured under the lock (`ChangedReread` shows what a second read would
do); and a wait that is queued when a matching event is looked up is answered,
by the mask the completing thread has read, which may be older or newer than the
one the wait was pended under.

No two listed pairs share a number, even when creations fail and the driver
stops within them. `PortCount` is the number of used slots, but for a creation
that fails after the cleanup has taken its pair: `fail_cleanup` and the cleanup
both count that one out. Until that happens, what is listed between requests has
both devices and is in the child list; the reference count is one per handle plus
the creation's; with no creation failing nothing touches a freed pair, requests
find the locks and queues they use, and every destroyed pair is freed.

In a program, both streams are byte pipes through every cut of a chunk, pause,
error and shutdown; a chunk reported as written is in the driver whole;
back-pressure never leaves the reader paused for good; and shutting down the
stream, which cancels the watcher's request too, does not end the watcher. A
join ends whenever the thread was not between its check of the flag and its
request, and a writer thread, which nothing joins, ends once the port is
destroyed.

Between programs, a port in use is only ever destroyed by one whose evidence
is stale: it listed the port, or held another of that number, before this one
was opened. A zombie whose number is asked for, with healing on, goes, unless
the driver refuses one of the requests of the program that asks, or that program
dies.

Three disagreements with what the repository says of itself, each a run that
TLC must find violated:

* `MCPortLifecycleFree`: when the companion device cannot be made (no
  resources, or its name still belongs to a pair being destroyed by the
  cleanup), the structure is freed under a handle on the COM device, against
  `portpair.c:448`.
* `MCAddonThreadsHang`: a shutdown that stores the flag and cancels while the
  thread is past its check and not yet in its request joins a thread that
  waits until the other side does something, and blocks the event loop with
  it; against `stream.rs:182`, `signals.rs:123` and `ISSUES.md:190`, where the
  call to `CancelIoEx` is the fix of that hang.
* `MCPortHealingLive`: a new pair looks like a zombie until its creator has
  opened the companion, and one listed as a zombie may have been opened since;
  healing destroys it in use, against `types.ts:18` ("This never disturbs a
  port that another live process is actually using") and `port.ts:266`.

Other behaviours that surprised, in the models but without a run:

* PURGE with RXCLEAR empties the ring but leaves pended companion writes in
  their queue (`DataPath!PurgeClear`), which `driver.h:109` describes as
  "Pending companion writes (when ring full)"; the proof of
  `WritersWaitForRoom` assumes that no purge clears.
* A change signalled while the watcher is between two waits is in no
  notification's mask (`SignalPath!ClearBits`), against `types.ts:97`
  ("Bitmask of what changed since the last notification") and the comment at
  `portpair.c:506` ("Clear only the bits that were actually delivered to
  waiters"): every bit of a snapshot is cleared, delivered or not. The properties
  of `SignalPath` say nothing of such bits, either way. Overlapping handlers can
  deliver snapshots in the opposite order of their numbers, and one handler may
  deliver its snapshot again to a watcher that re-arms.
* A thread that read the mask before a SET_WAIT_MASK may tell a wait pended
  after it of an event that only the old mask had (`CommEvents!CompleteWait`).
* An event between two WAIT_ON_MASKs is not latched, and a WAIT_ON_MASK between
  a SET_WAIT_MASK's purge and its callback is refused (`CommEvents`).
* A close that found the pair active takes `SignalLock` after it was deleted,
  against the comment at `comport.c:83-91`: the reference keeps the memory, not
  the locks and queues in it. A companion handler may use `WaitMaskQueue` after
  the COM device is deleted. `HandlersFindTheirs` states the part that holds.
* A driver stop within a creation (`PortLifecycle!CleanupTake`): a pair not yet
  published is left in the table; a published one is destroyed while its
  devices are being made, and if its creation then fails it is counted out
  twice and its structure is freed while the cleanup uses it. Nothing reads
  `PortCount`. After a creation that failed past its COM
  device, the search returns that device's number again and again (`devAttr`,
  prepared at `portpair.c:105` for the check of the device's name, is never
  used). When the companion fails, the child stays in the child list: the last
  comment of `GcomComPortDestroy` (`comport.c:475`) has no code.
* A writer thread may go on after `close()`, on whatever file has been given
  the handle's value (`AddonThreads!WriterAstray`).

## Proofs

For every value of the constants:

* `FifoOpsProofs`: what `Take`, `Drop` and removal return and preserve.
* `RingBufferProofs`: `TypeCorrect`, and `ArrayIsAQueue`, the refinement of
  `BoundedFifo`. `MaskedValue` says that masking a sum or a difference of
  positions takes off `Size`, adds it or does nothing, `Distance` that the bytes
  between two positions number less than `Size`, and `WriteCopies` and `ReadCopies` that the two
  copies of a transfer put byte `i` at the masked position `i` further on; then
  the content after each call is compared element by element.
* `DataPathProofs`: `TypeCorrect`; `ReadersNeverStarve` and `PeerDrainIdle`,
  by the invariant `ReadersInv`, which says for each phase of the lock holder
  whether a ring and the read queue can both be non-empty: the plain property
  is silent while the lock is held, so it is not inductive; and
  `WritersWaitForRoom`, by `WritersInv`, assuming `NoClear` (no purge clears a
  ring), without which it is false. Its second half rests on the first: a drain
  of reads frees no room under a pended write because no reader waits while a
  writer does.
  The order of the bytes goes by `Effects`: whatever the handler, a step does
  one of six things to a direction (leaves it, hands bytes over, clears the
  ring, pends a write, accepts a part of one, lets the oldest in). From there
  `QueueInv` (pended writes are in the order of their offering) and `AheadInv`
  (what was let in comes before all that is pended; this needs `WritersInv`: a
  new write gets into the ring only when none is pended) give
  `WritesKeepTheirOrder`; `OnceInv` (what was handed over and what is in the
  ring are distinct bytes, none of them pended) gives `BytesAreHandedOverOnce`
  for every purge; and `PipeInv` (`sent` is `received` and then the ring) gives
  `DirectionsAreBytePipes`, the refinement of `BytePipe`. The first and the last
  assume `NoClear`: a purge that clears a ring loses bytes that were `sent`.
* `SignalPathProofs`: `TypeCorrect`, `ChangesAreSignalled`, `SnapshotsAreJustified`, by `SignalInv`. It adds
  `Numbering`: a snapshot is held exactly while its caller is in flight and is
  numbered no higher than the counter, which counts the history; and
  `MaskIsInFlight`, that each bit of `ChangedMask` belongs to a caller in flight.
  The mask of a new snapshot is justified because the snapshots of those callers
  are.
* `CommEventsProofs`: `TypeCorrect`, `NoStaleWaits` and `NoChangeIsLost`, whose
  properties are inductive with the types. `NoChangeIsLost` counts the threads that are about to raise a line:
  each lemma on `Pending` adds or removes one, and parity does the rest.
* `PortHealingProofs`: `TypeCorrect`, and `StaleEvidenceOnly` by the invariant
  `Evidence`: what a program means to destroy was a zombie when it looked, so
  whatever of that is in use now was opened since, which `newer` remembers.

* `PortLifecycleProofs`: one invariant, `Core`, carries the table, the count,
  the references and the opens together, since none is inductive alone:
  `WorkInv` and `EntryInv` say where the control thread and the cleanup are and
  what their slot holds at each step of a creation, whether or not the cleanup
  has taken the pair; `OwnerInv` that a pair has one slot at most and none once
  somebody is about to release it, which is what makes the release of the
  creation's reference happen once; `CountInv` which creations the cleanup and
  `fail_cleanup` have both counted; `UniqueInv` that the number of a creation
  under way is no listed pair's; `RefInv` that the count is the owner's reference
  and the handles'; `OpenInv` that a handle in use has its side's flag and shares
  it with nobody. It gives `TypeCorrect`, `CountIsRight`, `NumbersAreUnique`,
  `ReferencesAreCounted` and `OpensAreExclusive`, through every failure and a
  driver stop at any moment.
  The others are about behaviours in which the cleanup takes no pair from its
  creation (`[][~Strikes]_vars`, a hypothesis of the theorems); the driver may
  stop at any other moment. `Calm` says that then a creation's pair keeps its
  slot, its locks and `Active`, and that a pair somebody answers for is allocated. On top of it `DeviceInv` (a live device has an owned pair with
  its locks; the COM device goes first) gives `HandlersAreSafe`; `StageInv`
  (which device exists at which step) and `NumberInv` (live COM devices have
  different numbers, so the name collision stops a creation whose number is still
  being destroyed) give `ReadyBetweenRequests`; its property is model-checked
  beyond that hypothesis, up to the first creation that is counted out twice.
  `NothingFreedIsUsed` assumes that nothing fails and the driver is not stopped
  (`Failing = {}`, `Stops = FALSE`); otherwise it is false, which
  `MCPortLifecycleFree` shows. `UnfailingInv` then says that the only frees are
  those of the last reference.
* `AddonThreadsProofs`: `TypeCorrect` and `WrittenIsWritten` by `Core`, whose
  `WriteInv` says for each place of the writer thread how many bytes the driver
  has accepted; it must except a failed request and a thread gone astray on a
  closed handle, and `ShutdownInv` shows that the latter is never reported as
  written.
  `WritesAreABytePipe` follows with `WriteEffects`. `ReadsAreABytePipe` needs
  `ReadInv`: until the shutdown, Node's buffer, the queued callbacks and the
  reader's completed request hold, end to end, the bytes between those consumed
  and those taken (`Flows`, whose lemmas follow a byte from the request to the
  queue to the buffer to the program); the shutdown drops them, and nothing is
  consumed after it. `ThreadsLeaveFirst` (no run's property, but TLC has checked
  its invariant `JoinInv`) says what `close` may rely on: both threads that are
  joined have left when the handle goes.

The assumptions are those named in the modules: positive capacities and
lengths, finite sets of threads and of handles (so that counting them means
something), a `None` that is no snapshot, a `NULL` that is no program, pair or
reservation, masks of known events. `NoClear`, `[][~Strikes]_vars` and the two hypotheses of
`NothingFreedIsUsed` are hypotheses of their theorems, not assumptions of the
modules; the runs `MCDataPath` and `MCPortLifecycleRefs` meet them.

Every invariant, action property and refinement that a passing run checks is
also proved, under these hypotheses. Only model-checked are the liveness properties, since the prover
reasons neither about fairness nor about `ENABLED` (`EveryByteArrives`,
`EveryWriteIsServed`, `ArmedWatcherIsNotified`, `MatchedWaitEnds`,
`DestroyedIsFreed`, `IncomingIsConsumed`, `WatcherRearms`,
`NoticedShutdownEnds`, `ZombieIsHealed`).

## Plan

1. Proofs: what `DataPath` still promises under purges that clear (the order of
   what is handed over among the bytes of one write), and which settings the
   last snapshot of `SignalPath` carries.
2. The data queues' handles in `PortLifecycle`, which a destruction clears
   without `DataLock`.

Not modelled, and not planned: how the framework turns the child list into
devices, the callback that dresses them and the diagnostic registry values
(`driver.c`, the wait in `comport.c`), which exist for Device Manager's display
and carry no I/O; `isComOpen` and the defaults of `setSignals` (`port.ts`),
which read one cached record whose DTR is the companion's own until the first
notification (`companion.c:464`) and the COM side's after it; the layouts of
`ioctls.h` and `ioctl.rs`; error texts (`error.rs`); decoding of a raw state
into an object (`signals.ts`); the other scripts, examples, tests and the INF.
