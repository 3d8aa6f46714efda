---------------------------- MODULE AddonThreads -----------------------------
(***************************************************************************)
(* One open port in a program: the JavaScript thread (stream.ts, port.ts)  *)
(* and the native threads of the addon that share the companion handle     *)
(* with it: the reader and the writers of stream.rs, the signal watcher of *)
(* signals.rs.                                                             *)
(*                                                                         *)
(* Every thread blocks on an overlapped request of its own.  CancelIoEx    *)
(* names the handle, so it cancels all requests of all threads that are    *)
(* pending at that moment, and none that is issued later.                  *)
(*                                                                         *)
(* The driver and Node's streams are external: the driver completes        *)
(* requests as DataPath and SignalPath say, Node calls _write again only   *)
(* after the callback of the one before, and _read not again before a      *)
(* push.                                                                   *)
(***************************************************************************)
EXTENDS Integers, Sequences

CONSTANTS
  MaxBytes,    (* bytes the COM application sends (bound)                  *)
  BufSize,     (* READ_BUF_SIZE                                            *)
  HighWater,   (* readableHighWaterMark                                    *)
  ChunkLen,    (* bytes in a chunk the program writes                      *)
  MaxChunks    (* chunks the program writes (bound)                        *)

ASSUME SizesAssumption == {BufSize, HighWater, ChunkLen} \subseteq Nat \ {0}
ASSUME BoundsAssumption == {MaxBytes, MaxChunks} \subseteq Nat

VARIABLES
  \* the driver, through the handle
  incoming,    (* bytes the COM application has sent: 1, 2, 3, ...         *)
  taken,       (* how many of them reads were completed with               *)
  accepted,    (* the bytes writes were completed for                      *)
  request,     (* each thread's overlapped request                         *)
  removed,     (* the pair is inactive                                     *)
  handle,
  \* the native threads
  reader, watcher,
  writer,      (* the writer thread: where it is and its offset            *)
  shutdown,    (* the flags of PortStreamNative and SignalWatcher          *)
  paused,
  stop,
  \* the JavaScript thread
  js,          (* in the event loop, or within shutdown, stop, close       *)
  destroyed,   (* VirtualPort.#destroyed                                   *)
  chunks,      (* calls of the data callback queued by the reader          *)
  readError,   (* a call of the error callback queued by the reader        *)
  reading,     (* VirtualPortStream.#reading                               *)
  asked,       (* Node: _read was called and nothing pushed since          *)
  buffer,      (* Node: the readable buffer                                *)
  consumed,    (* the bytes the program has read                           *)
  offered,     (* chunks passed to native.write                            *)
  written      (* chunks whose callback reported success                   *)

driver == <<incoming, taken, accepted, request, removed>>
flags == <<shutdown, paused, stop>>
calls == <<chunks, readError>>
readable == <<reading, asked, buffer, consumed>>
writable == <<offered, written>>
vars == <<driver, handle, reader, watcher, writer, flags, js, destroyed,
          calls, readable, writable>>

Thread == {"read", "write", "watch"}
NoRequest == [state |-> "none", bytes |-> 0]
Pending == [state |-> "pending", bytes |-> 0]
Failed == [state |-> "failed", bytes |-> 0]
Done(n) == [state |-> "done", bytes |-> n]

NoWriter == [at |-> "none", offset |-> 0]

\* Bytes m+1 .. n of a stream whose bytes are numbered.
Bytes(m, n) == [i \in 1..(n - m) |-> m + i]

Lesser(m, n) == IF m < n THEN m ELSE n

Init ==
  /\ incoming = 0 /\ taken = 0 /\ accepted = <<>>
  /\ request = [t \in Thread |-> NoRequest]
  /\ removed = FALSE /\ handle = "open"
  /\ reader = "check" /\ watcher = "check" /\ writer = NoWriter
  /\ shutdown = FALSE /\ paused = FALSE /\ stop = FALSE
  /\ js = "loop" /\ destroyed = FALSE
  /\ chunks = <<>> /\ readError = FALSE
  /\ reading = FALSE /\ asked = FALSE /\ buffer = <<>> /\ consumed = <<>>
  /\ offered = 0 /\ written = 0

-----------------------------------------------------------------------------
(* The driver and the COM application.                                     *)

AllPendingFail == [t \in Thread |->
  IF request[t] = Pending THEN Failed ELSE request[t]]

\* What the next read is completed with.
Share == Lesser(BufSize, incoming - taken)

\* The bytes of the current chunk that are still to be written; and the whole
\* chunk, offered again.
LeftWhole == ChunkLen
Left == ChunkLen - writer.offset

Accept(k) == accepted' = accepted \o
  Bytes((offered - 1) * ChunkLen + writer.offset, (offered - 1) * ChunkLen + writer.offset + k)

Arrive ==
  /\ incoming < MaxBytes
  /\ ~removed
  /\ incoming' = incoming + 1
  /\ UNCHANGED <<taken, accepted, request, removed, handle, reader, watcher, writer,
                 flags, js, destroyed, calls, readable, writable>>

CompleteRead ==
  /\ request["read"] = Pending
  /\ Share > 0
  /\ request' = [request EXCEPT !["read"] = Done(Share)]
  /\ taken' = taken + Share
  /\ UNCHANGED <<incoming, accepted, removed, handle, reader, watcher, writer,
                 flags, js, destroyed, calls, readable, writable>>

CompleteWrite ==
  /\ request["write"] = Pending
  /\ \E k \in 1..Left :
       /\ request' = [request EXCEPT !["write"] = Done(k)]
       /\ Accept(k)
  /\ UNCHANGED <<incoming, taken, removed, handle, reader, watcher, writer,
                 flags, js, destroyed, calls, readable, writable>>

CompleteWatch ==
  /\ request["watch"] = Pending
  /\ request' = [request EXCEPT !["watch"] = Done(0)]
  /\ UNCHANGED <<incoming, taken, accepted, removed, handle, reader, watcher, writer,
                 flags, js, destroyed, calls, readable, writable>>

\* Another process destroys the pair.
RemovedElsewhere ==
  /\ ~removed
  /\ removed' = TRUE
  /\ request' = AllPendingFail
  /\ UNCHANGED <<incoming, taken, accepted, handle, reader, watcher, writer,
                 flags, js, destroyed, calls, readable, writable>>

-----------------------------------------------------------------------------
(* read_thread_main.                                                       *)

readerUnchanged == <<handle, watcher, writer, flags, js, destroyed, readable, writable>>

ReaderCheck ==
  /\ reader = "check"
  /\ reader' = IF shutdown THEN "exited" ELSE "gate"
  /\ UNCHANGED <<driver, calls, readerUnchanged>>

\* while paused: look at shutdown, sleep; once not paused, shutdown is not
\* looked at again before the read is issued.
ReaderGate ==
  /\ reader = "gate"
  /\ \/ ~paused /\ reader' = "issue"
     \/ paused /\ shutdown /\ reader' = "exited"
  /\ UNCHANGED <<driver, calls, readerUnchanged>>

ReaderIssue ==
  /\ reader = "issue"
  /\ ~removed
  /\ reader' = "wait"
  /\ request' = [request EXCEPT !["read"] = IF Share > 0 THEN Done(Share) ELSE Pending]
  /\ taken' = taken + Share
  /\ UNCHANGED <<incoming, accepted, removed, calls, readerUnchanged>>

\* ReadFile fails at once: the thread ends, and unless it is shut down or the
\* error is ERROR_OPERATION_ABORTED it reports first.
ReaderIssueFails ==
  /\ reader = "issue"
  /\ removed
  /\ reader' = "exited"
  /\ readError' \in IF shutdown THEN {readError} ELSE BOOLEAN
  /\ UNCHANGED <<driver, chunks, readerUnchanged>>

\* The framework pends the request before the driver fails it.
ReaderIssuePended ==
  /\ reader = "issue"
  /\ removed
  /\ reader' = "wait"
  /\ request' = [request EXCEPT !["read"] = Failed]
  /\ UNCHANGED <<incoming, taken, accepted, removed, calls, readerUnchanged>>

\* What the data callback is called with, and a buffer that is never emptied.
DeliveredAll == Bytes(0, taken)
Delivered == Bytes(taken - request["read"].bytes, taken)

ReaderGetsData ==
  /\ reader = "wait"
  /\ request["read"].state = "done"
  /\ chunks' = Append(chunks, Delivered)
  /\ request' = [request EXCEPT !["read"] = NoRequest]
  /\ reader' = "check"
  /\ UNCHANGED <<incoming, taken, accepted, removed, readError, readerUnchanged>>

\* get_result fails: the thread ends only if it was told to.
ReaderGetsError ==
  /\ reader = "wait"
  /\ request["read"] = Failed
  /\ request' = [request EXCEPT !["read"] = NoRequest]
  /\ reader' = IF shutdown THEN "exited" ELSE "check"
  /\ UNCHANGED <<incoming, taken, accepted, removed, calls, readerUnchanged>>

Reader ==
  \/ ReaderCheck \/ ReaderGate \/ ReaderIssue \/ ReaderIssueFails
  \/ ReaderIssuePended \/ ReaderGetsData \/ ReaderGetsError

-----------------------------------------------------------------------------
(* SignalWatcher::thread_main.  What the callback gets is SignalPath's.    *)

watcherUnchanged == <<incoming, taken, accepted, removed, handle, reader, writer,
                      flags, js, destroyed, calls, readable, writable>>

WatcherCheck ==
  /\ watcher = "check"
  /\ watcher' = IF stop THEN "exited" ELSE "issue"
  /\ UNCHANGED <<request, watcherUnchanged>>

WatcherIssue ==
  /\ watcher = "issue"
  /\ watcher' = "wait"
  /\ request' = [request EXCEPT !["watch"] = IF removed THEN Failed ELSE Pending]
  /\ UNCHANGED watcherUnchanged

\* The IOCTL fails at once: unless told to stop, sleep and try again.
WatcherIssueFails ==
  /\ watcher = "issue"
  /\ removed
  /\ watcher' = IF stop THEN "exited" ELSE "check"
  /\ UNCHANGED <<request, watcherUnchanged>>

\* Where a completed wait leads, and where it would if any failure ended it.
AfterWaitStrict == IF request["watch"] = Failed THEN "exited" ELSE "check"
AfterWait == IF request["watch"] = Failed /\ stop THEN "exited" ELSE "check"

WatcherWoken ==
  /\ watcher = "wait"
  /\ request["watch"] # Pending
  /\ watcher' = AfterWait
  /\ request' = [request EXCEPT !["watch"] = NoRequest]
  /\ UNCHANGED watcherUnchanged

Watcher == WatcherCheck \/ WatcherIssue \/ WatcherIssueFails \/ WatcherWoken

-----------------------------------------------------------------------------
(* do_write, in a thread of its own for each chunk.                        *)

writerUnchanged == <<incoming, taken, removed, handle, reader, watcher,
                     flags, js, destroyed, calls, readable, writable>>

\* The writer after a WriteFile that took k bytes, one that does not look at
\* k, and one that starts the next WriteFile at the wrong place.
AdvancedWhole(k) == [at |-> "ok", offset |-> ChunkLen]
AdvancedTo(k) == [at |-> IF k = ChunkLen THEN "ok" ELSE "issue", offset |-> k]
Advanced(k) == AdvancedTo(writer.offset + k)

WriterIssue ==
  /\ writer.at = "issue"
  /\ handle = "open" /\ ~removed
  /\ \/ /\ \E k \in 1..Left :
             /\ request' = [request EXCEPT !["write"] = Done(k)]
             /\ Accept(k)
     \/ /\ request' = [request EXCEPT !["write"] = Pending]
        /\ UNCHANGED accepted
  /\ writer' = [writer EXCEPT !.at = "wait"]
  /\ UNCHANGED writerUnchanged

WriterIssueFails ==
  /\ writer.at = "issue"
  /\ handle = "closed" \/ removed
  /\ \/ writer' = [writer EXCEPT !.at = "error"] /\ UNCHANGED request
     \/ /\ request' = [request EXCEPT !["write"] = Failed]
        /\ writer' = [writer EXCEPT !.at = "wait"]
  /\ UNCHANGED <<accepted, writerUnchanged>>

\* Nobody joins this thread: the closed handle's value may by now be another
\* file's, which takes the bytes.
WriterAstray ==
  /\ writer.at = "issue"
  /\ handle = "closed"
  /\ \E k \in 1..Left : writer' = Advanced(k)
  /\ UNCHANGED <<accepted, request, writerUnchanged>>

WriterWoken ==
  /\ writer.at = "wait"
  /\ request["write"] # Pending
  /\ writer' = IF request["write"] = Failed
               THEN [writer EXCEPT !.at = "error"]
               ELSE Advanced(request["write"].bytes)
  /\ request' = [request EXCEPT !["write"] = NoRequest]
  /\ UNCHANGED <<accepted, writerUnchanged>>

Writer == WriterIssue \/ WriterIssueFails \/ WriterAstray \/ WriterWoken

-----------------------------------------------------------------------------
(* The JavaScript thread in its event loop: callbacks of the native        *)
(* threads, and what Node's streams and the program do.                    *)

threads == <<driver, handle, reader, watcher>>

\* The stream's callbacks and methods run between tasks, and not once it is
\* destroyed.
StreamRuns == js = "loop" /\ ~shutdown

\* onData of stream.ts, with push returning false at the high-water mark; and
\* one that leaves #reading as it is.
PauseKept(full) == paused' = (paused \/ full) /\ UNCHANGED reading
Pause(full) == paused' = (paused \/ full) /\ reading' = (reading /\ ~full)

OnData ==
  /\ StreamRuns
  /\ chunks # <<>>
  /\ chunks' = Tail(chunks)
  /\ buffer' = buffer \o Head(chunks)
  /\ asked' = FALSE
  /\ Pause(Len(buffer') >= HighWater)
  /\ UNCHANGED <<threads, writer, shutdown, stop, js, destroyed, readError, consumed, writable>>

\* _read: resumes the reader unless it has been since the last pause.
Read ==
  /\ StreamRuns
  /\ ~asked /\ Len(buffer) < HighWater
  /\ asked' = TRUE
  /\ reading' = TRUE
  /\ paused' = (paused /\ reading)
  /\ UNCHANGED <<threads, writer, shutdown, stop, js, destroyed, calls, buffer, consumed, writable>>

Consume ==
  /\ StreamRuns
  /\ buffer # <<>>
  /\ buffer' = Tail(buffer)
  /\ consumed' = Append(consumed, Head(buffer))
  /\ UNCHANGED <<threads, writer, flags, js, destroyed, calls, reading, asked, writable>>

\* native.write: one writer thread; Node's _write waits for the callback.
Write ==
  /\ StreamRuns
  /\ writer = NoWriter
  /\ offered < MaxChunks
  /\ offered' = offered + 1
  /\ writer' = [at |-> "issue", offset |-> 0]
  /\ UNCHANGED <<threads, flags, js, destroyed, calls, readable, written>>

OnWritten ==
  /\ js \in {"loop", "done"}
  /\ writer.at = "ok"
  /\ writer' = NoWriter
  /\ written' = IF shutdown THEN written ELSE written + 1
  /\ UNCHANGED <<threads, flags, js, destroyed, calls, readable, offered>>

\* shutdown() of stream.rs begins: from _destroy, which runs once.
BeginShutdown == shutdown' = TRUE /\ js' = "cancelRead"

\* Node destroys a stream whose write failed.
OnWriteError ==
  /\ js \in {"loop", "done"}
  /\ writer.at = "error"
  /\ writer' = NoWriter
  /\ IF shutdown THEN UNCHANGED <<shutdown, js>> ELSE BeginShutdown
  /\ UNCHANGED <<threads, paused, stop, destroyed, calls, readable, writable>>

\* onReadError of stream.ts.
OnReadError ==
  /\ StreamRuns
  /\ readError
  /\ readError' = FALSE
  /\ BeginShutdown
  /\ UNCHANGED <<threads, writer, paused, stop, destroyed, chunks, readable, writable>>

\* VirtualPort.destroy: the stream first, then the watcher and the handle.
Destroy ==
  /\ js = "loop"
  /\ ~destroyed
  /\ destroyed' = TRUE
  /\ IF shutdown THEN js' = "stopWatcher" /\ UNCHANGED shutdown ELSE BeginShutdown
  /\ UNCHANGED <<threads, writer, paused, stop, calls, readable, writable>>

-----------------------------------------------------------------------------
(* The JavaScript thread within shutdown, stop, close and destroy.         *)

closing == <<incoming, taken, accepted, reader, watcher, writer, destroyed, paused,
             readable, writable>>

\* cancel_io: every request pending on the handle fails, whoever waits for
\* it; and the join without it.
NotCancelled == request
Cancelled == AllPendingFail

CancelRead ==
  /\ js = "cancelRead"
  /\ request' = Cancelled
  /\ js' = "joinReader"
  /\ UNCHANGED <<closing, removed, handle, shutdown, stop, calls>>

\* join returns; the callbacks are aborted with the calls they have queued.
JoinReader ==
  /\ js = "joinReader"
  /\ reader = "exited"
  /\ chunks' = <<>> /\ readError' = FALSE
  /\ js' = IF destroyed THEN "stopWatcher" ELSE "loop"
  /\ UNCHANGED <<closing, request, removed, handle, shutdown, stop>>

StopWatcher ==
  /\ js = "stopWatcher"
  /\ stop' = TRUE
  /\ js' = "cancelWatch"
  /\ UNCHANGED <<closing, request, removed, handle, shutdown, calls>>

CancelWatch ==
  /\ js = "cancelWatch"
  /\ request' = Cancelled
  /\ js' = "joinWatcher"
  /\ UNCHANGED <<closing, removed, handle, shutdown, stop, calls>>

\* The watcher's join returns.
Joined == watcher = "exited"

JoinWatcher ==
  /\ js = "joinWatcher"
  /\ Joined
  /\ js' = "close"
  /\ UNCHANGED <<closing, request, removed, handle, shutdown, stop, calls>>

Close ==
  /\ js = "close"
  /\ handle' = "closed"
  /\ js' = "remove"
  /\ UNCHANGED <<closing, request, removed, shutdown, stop, calls>>

\* nativeDestroyPort: the driver's destruction fails what is still pending;
\* and one that leaves it.
RemovedKeeps == request
RemovedFails == AllPendingFail
Remove ==
  /\ js = "remove"
  /\ removed' = TRUE
  /\ request' = RemovedFails
  /\ js' = "done"
  /\ UNCHANGED <<closing, handle, shutdown, stop, calls>>

Shutdown ==
  \/ CancelRead \/ JoinReader \/ StopWatcher \/ CancelWatch \/ JoinWatcher \/ Close \/ Remove

Callback == OnData \/ OnReadError \/ OnWritten \/ OnWriteError

Driver == CompleteRead \/ CompleteWrite \/ CompleteWatch \/ RemovedElsewhere

Next ==
  \/ Arrive \/ Driver
  \/ Reader \/ Watcher \/ Writer
  \/ Callback \/ Read \/ Consume \/ Write \/ Destroy
  \/ Shutdown

Spec == Init /\ [][Next]_vars

(* Threads run on, the event loop gets to every callback, the driver gives  *)
(* a pended read the bytes that are there, and the program goes on reading. *)
(* The COM application need not send, read or change anything, so a pended  *)
(* write and a pended wait may stay so.                                     *)
Fairness ==
  /\ WF_vars(Reader) /\ WF_vars(Watcher) /\ WF_vars(Writer) /\ WF_vars(Shutdown)
  /\ WF_vars(CompleteRead)
  /\ WF_vars(OnData) /\ WF_vars(OnReadError) /\ WF_vars(OnWritten \/ OnWriteError)
  /\ WF_vars(Read) /\ WF_vars(Consume)

FairSpec == Spec /\ Fairness

-----------------------------------------------------------------------------
(* Properties.                                                             *)

\* The variables have their types.
TypeOK ==
  /\ incoming \in 0..MaxBytes /\ taken \in 0..incoming
  /\ \A i \in DOMAIN accepted : accepted[i] \in 1..(MaxChunks * ChunkLen)
  /\ request \in [Thread -> [state : {"none", "pending", "failed", "done"}, bytes : Nat]]
  /\ reader \in {"check", "gate", "issue", "wait", "exited"}
  /\ watcher \in {"check", "issue", "wait", "exited"}
  /\ writer \in [at : {"none", "issue", "wait", "ok", "error"}, offset : 0..ChunkLen]
  /\ {removed, shutdown, paused, stop, destroyed, readError, reading, asked} \subseteq BOOLEAN
  /\ handle \in {"open", "closed"}
  /\ js \in {"loop", "cancelRead", "joinReader", "stopWatcher", "cancelWatch",
             "joinWatcher", "close", "remove", "done"}
  /\ offered \in 0..MaxChunks /\ written \in 0..offered

\* The program reads the bytes the driver handed out, once each and in order,
\* through reads, cancellations, callbacks and back-pressure.
Reads == INSTANCE BytePipe WITH
  Capacity <- MaxBytes, sent <- Bytes(0, taken), received <- consumed
ReadsImplementPipe == Reads!SafeSpec

\* The driver gets the bytes of the program's chunks, once each and in order,
\* however do_write cuts them up and wherever it is cancelled.
Writes == INSTANCE BytePipe WITH
  Capacity <- MaxChunks * ChunkLen, sent <- Bytes(0, offered * ChunkLen), received <- accepted
WritesImplementPipe == Writes!SafeSpec

\* "callers always get a fully-written guarantee" (stream.rs:304): chunks that
\* were reported as written are in the driver whole.
ReportedIsAccepted == written * ChunkLen <= Len(accepted)

\* Back-pressure never leaves the reader paused for good: as long as the
\* stream lives and the program reads, what the COM application sent arrives.
IncomingIsConsumed ==
  \A n \in 1..MaxBytes : incoming >= n ~> (Len(consumed) >= n \/ shutdown \/ removed)

\* The stream's shutdown cancels the watcher's request with its own; the
\* watcher, which was not told to stop, asks again.
WatcherRearms ==
  request["watch"] = Failed ~> (request["watch"] = Pending \/ stop \/ removed)

\* The thread has looked at the flag for the last time before its request.
ReaderInWindow == reader = "issue" \/ (reader = "gate" /\ ~paused)
WatcherInWindow == watcher = "issue"

\* A join ends if the thread was not between its check of the flag and its
\* request when the flag was stored: the one CancelIoEx reaches every thread
\* that waits, and the others see the flag ("stop() now calls
\* cancel_io(handle)", ISSUES.md:192).  A writer thread, which nobody joins, ends
\* once the port is destroyed.
NoticedShutdownEnds ==
  /\ (js = "cancelRead" /\ ~ReaderInWindow) ~> js \notin {"cancelRead", "joinReader"}
  /\ (js = "cancelWatch" /\ ~WatcherInWindow) ~> js \notin {"cancelWatch", "joinWatcher"}
  /\ js = "done" ~> writer.at \notin {"issue", "wait"}

\* "Cancel pending I/O so the read thread unblocks" (stream.rs:182) and "the
\* thread's wait_infinite() unblocks immediately" (signals.rs:123): the joins
\* end.
ShutdownEnds == js \in {"joinReader", "joinWatcher"} ~> js \notin {"joinReader", "joinWatcher"}

=============================================================================
