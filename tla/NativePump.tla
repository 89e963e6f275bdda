------------------------------ MODULE NativePump ------------------------------
(***************************************************************************)
(* One inter-stage hop of a pipeline: cuprum/_pipeline_streams.py hands the *)
(* descriptors of two asyncio transports to a native worker thread, or      *)
(* pumps in Python (_streams_pump.py) where it cannot.  The worker is the   *)
(* pump of rust/cuprum-streams, and it outlives a hop that is cancelled:    *)
(* _pipeline_stream_native_cleanup.py settles what the two share.           *)
(*                                                                          *)
(* The hop's task, the event loop's callbacks, the worker thread and the    *)
(* two stages move independently.  Data is counted in numbered chunks.      *)
(***************************************************************************)
EXTENDS Naturals, Sequences

CONSTANTS
    Chunks,        \* how many chunks the upstream stage may write
    PipeCapacity,  \* chunks a pipe holds
    ReaderLimit,   \* a StreamReader with more than this stops its transport
    HighWater,     \* a write buffer above this makes drain() wait
    MaxCancels     \* how often the hop is cancelled

ASSUME PumpAssumption ==
    /\ Chunks \in Nat /\ PipeCapacity \in Nat \ {0}
    /\ ReaderLimit \in Nat /\ HighWater \in Nat /\ MaxCancels \in Nat

\* The worker's descriptors: the duplicates that carry the blocking mode, and
\* the ones the native call is given.
Fds == {"stR", "stW", "naR", "naW"}

VARIABLES
    backend,    \* the stream backend, "none" until the hop has asked for it
    cancels,    \* cancellations left
    pc,         \* the await the hop's task is suspended at
    err,        \* the exception on its way out, or "none"
    up, down,   \* the two pipes
    produced,   \* chunks the upstream stage has written
    received,   \* chunks the downstream stage has read
    upOpen,     \* somebody holds the upstream pipe's write end
    downOpen,   \* the downstream stage holds its read end
    rtr,        \* the reader's transport: "reading", "paused" or "closed"
    arriving,   \* read by the transport, not yet in the StreamReader
    rbuf,       \* the StreamReader's buffer
    wtr,        \* the writer's transport: "open", "closing" or "closed"
    wbuf,       \* its write buffer
    fd,         \* every descriptor: "none", "open" or "closed"
    twice,      \* a descriptor was closed that was not open
    guard,      \* the blocking mode is engaged
    worker,     \* what the worker thread is doing
    hand,       \* the chunks it has read and not written
    latched,    \* the native pump has seen its writer break
    completed,  \* _cleanup_completed
    deferred,   \* was_deferred
    unwaited,   \* the hop went without its cleanup and deferred nothing
    callback,   \* the resume callback: "none", "scheduled", "ran" or "lost"
    loop        \* the event loop is open

task == << pc, err, cancels >>
stages == << up, down, produced, received, upOpen, downOpen >>
reading == << rtr, arriving, rbuf >>
writing == << wtr, wbuf >>
descriptors == << fd, twice, guard >>
thread == << worker, hand, latched >>
cleanup == << completed, deferred, unwaited, callback >>
vars == << backend, task, stages, reading, writing, descriptors, thread, cleanup,
           loop >>

Init ==
    /\ backend = "none"
    /\ cancels = MaxCancels
    /\ pc = "begin" /\ err = "none"
    /\ up = << >> /\ down = << >>
    /\ produced = 0 /\ received = << >>
    /\ upOpen = TRUE /\ downOpen = TRUE
    /\ rtr = "reading" /\ arriving = << >> /\ rbuf = << >>
    /\ wtr = "open" /\ wbuf = << >>
    /\ fd = [f \in Fds |-> "none"]
    /\ twice = FALSE /\ guard = FALSE
    /\ worker = "none" /\ hand = << >> /\ latched = FALSE
    /\ completed = FALSE /\ deferred = FALSE /\ unwaited = FALSE
    /\ callback = "none"
    /\ loop = TRUE

-----------------------------------------------------------------------------
\* The two stages.

ReadEndOpen == rtr # "closed" \/ fd["stR"] = "open" \/ fd["naR"] = "open"

Produce ==
    /\ upOpen /\ ReadEndOpen
    /\ produced < Chunks
    /\ Len(up) < PipeCapacity
    /\ produced' = produced + 1
    /\ up' = Append(up, produced + 1)
    /\ UNCHANGED << backend, task, down, received, upOpen, downOpen, reading,
                    writing, descriptors, thread, cleanup, loop >>

UpstreamCloses ==
    /\ upOpen
    /\ upOpen' = FALSE
    /\ UNCHANGED << backend, task, up, down, produced, received, downOpen,
                    reading, writing, descriptors, thread, cleanup, loop >>

Receive ==
    /\ downOpen
    /\ down # << >>
    /\ received' = Append(received, Head(down))
    /\ down' = Tail(down)
    /\ UNCHANGED << backend, task, up, produced, upOpen, downOpen, reading,
                    writing, descriptors, thread, cleanup, loop >>

DownstreamCloses ==
    /\ downOpen
    /\ downOpen' = FALSE
    /\ down' = << >>
    /\ UNCHANGED << backend, task, up, produced, received, upOpen, reading,
                    writing, descriptors, thread, cleanup, loop >>

-----------------------------------------------------------------------------
\* asyncio: the two transports.

LoopReads ==
    /\ loop /\ rtr = "reading"
    /\ arriving = << >> /\ Len(rbuf) <= ReaderLimit
    /\ up # << >>
    /\ arriving' = << Head(up) >>
    /\ up' = Tail(up)
    /\ UNCHANGED << backend, task, down, produced, received, upOpen, downOpen,
                    rtr, rbuf, writing, descriptors, thread, cleanup, loop >>

LoopDelivers ==
    /\ loop /\ arriving # << >>
    /\ rbuf' = rbuf \o arriving
    /\ arriving' = << >>
    /\ UNCHANGED << backend, task, stages, rtr, writing, descriptors, thread,
                    cleanup, loop >>

\* A transport that meets the end of its pipe closes itself.
LoopReadsEof ==
    /\ loop /\ rtr = "reading"
    /\ up = << >> /\ ~ upOpen /\ arriving = << >>
    /\ rtr' = "closed"
    /\ UNCHANGED << backend, task, stages, arriving, rbuf, writing, descriptors,
                    thread, cleanup, loop >>

LoopWrites ==
    /\ loop /\ wbuf # << >>
    /\ downOpen /\ Len(down) < PipeCapacity
    /\ down' = Append(down, Head(wbuf))
    /\ wbuf' = Tail(wbuf)
    /\ UNCHANGED << backend, task, up, produced, received, upOpen, downOpen,
                    reading, wtr, descriptors, thread, cleanup, loop >>

\* The pipe broke, or the last buffered chunk of a closing transport is out.
WriterTransportCloses ==
    /\ loop /\ wtr # "closed"
    /\ ~ downOpen \/ (wtr = "closing" /\ wbuf = << >>)
    /\ wtr' = "closed"
    /\ wbuf' = << >>
    /\ UNCHANGED << backend, task, stages, reading, descriptors, thread, cleanup,
                    loop >>

\* writer.write: what the pipe takes at once, the rest into the buffer.
Written(chunks) ==
    LET room == IF wbuf = << >> /\ downOpen THEN PipeCapacity - Len(down) ELSE 0
        now == IF room < Len(chunks) THEN room ELSE Len(chunks)
    IN  IF wtr = "open" /\ downOpen
        THEN /\ down' = down \o SubSeq(chunks, 1, now)
             /\ wbuf' = wbuf \o SubSeq(chunks, now + 1, Len(chunks))
        ELSE UNCHANGED << down, wbuf >>

\* writer.drain returns: it waits above the mark only, or raises when broken.
Drained == Len(wbuf) <= HighWater \/ wtr = "closed"

-----------------------------------------------------------------------------
\* Descriptors.

Open(fs) == fd' = [f \in Fds |-> IF f \in fs THEN "open" ELSE fd[f]]

Close(fs) ==
    /\ fd' = [f \in Fds |-> IF f \in fs THEN "closed" ELSE fd[f]]
    /\ twice' = (twice \/ \E f \in fs : fd[f] # "open")

Resumed == IF rtr = "paused" THEN "reading" ELSE rtr

Goes(where) == pc' = where /\ UNCHANGED << err, cancels >>
Raises(e) == pc' = "close" /\ err' = e /\ UNCHANGED cancels

-----------------------------------------------------------------------------
\* The stream backend (_backend.py): CUPRUM_STREAM_BACKEND, stripped and in
\* lower case, and what importing the extension gives.
Raw == {"", "auto", "rust", "python", "other"}
Extension == {"absent", "broken", "unusable", "usable"}

ParseBackendValue(raw) ==
    CASE raw = "" -> "auto" [] raw = "other" -> "error" [] OTHER -> raw

\* _rust_backend.is_available: only an absent module is a plain no.
IsAvailable(extension) ==
    CASE extension = "usable" -> "yes"
      [] extension = "broken" -> "error"
      [] extension \in {"absent", "unusable"} -> "no"

\* The Python backend asks for nothing, and auto takes a failed import for a no.
ProbeRustAvailability(requested, extension) ==
    CASE requested = "python" -> "skipped"
      [] requested = "auto" /\ IsAvailable(extension) = "error" -> "skipped"
      [] OTHER -> IsAvailable(extension)

ResolveBackend(requested, available) ==
    CASE requested = "rust" -> IF available = "yes" THEN "rust" ELSE "error"
      [] requested = "auto" -> IF available = "yes" THEN "rust" ELSE "python"
      [] requested \in {"python", "error"} -> requested

\* get_stream_backend: the first answer of the process is kept, an error is not.
GetStreamBackend(cached, raw, extension) ==
    LET requested == ParseBackendValue(raw)
    IN  IF cached # "none" THEN cached
        ELSE ResolveBackend(requested, ProbeRustAvailability(requested, extension))

\* The hop's task begins.  An error leaves at once, and the writer open.
Resolve ==
    /\ pc = "begin"
    /\ \E cached \in {"none", "rust", "python"}, raw \in Raw, extension \in Extension :
         LET answer == GetStreamBackend(cached, raw, extension)
         IN  IF answer = "error"
             THEN pc' = "done" /\ err' = "error" /\ UNCHANGED << cancels, backend >>
             ELSE backend' = answer /\ Goes("dispatch")
    /\ UNCHANGED << stages, reading, writing, descriptors, thread, cleanup, loop >>

\* _pump_stream_dispatch and _try_rust_pump: the Python backend, a platform or
\* a stream without descriptors, and a transport that is closing decline.
Decline ==
    /\ pc = "dispatch"
    /\ Goes("py_read")
    /\ UNCHANGED << backend, stages, reading, writing, descriptors, thread,
                    cleanup, loop >>

\* _pause_reader_transport.
Pause ==
    /\ pc = "dispatch"
    /\ backend = "rust"
    /\ rtr = "reading"
    /\ rtr' = "paused"
    /\ Goes("settle")
    /\ UNCHANGED << backend, stages, arriving, rbuf, writing, descriptors, thread,
                    cleanup, loop >>

\* Fault: what the transport is still delivering is not waited for.
DrainBufferAtOnce ==
    /\ pc = "settle"
    /\ Written(rbuf)
    /\ Goes(IF rbuf = << >> THEN "create" ELSE "drain")
    /\ UNCHANGED << backend, up, produced, received, upOpen, downOpen, reading,
                    wtr, descriptors, thread, cleanup, loop >>

\* _drain_reader_buffer, once the callbacks queued before the pause have run.
DrainBuffer ==
    /\ pc = "settle"
    /\ arriving = << >>
    /\ Written(rbuf)
    /\ Goes(IF rbuf = << >> THEN "create" ELSE "drain")
    /\ UNCHANGED << backend, up, produced, received, upOpen, downOpen, reading,
                    wtr, descriptors, thread, cleanup, loop >>

BufferDrained ==
    /\ pc = "drain"
    /\ Drained
    /\ rbuf' = << >>
    /\ Goes("create")
    /\ UNCHANGED << backend, stages, rtr, arriving, writing, descriptors, thread,
                    cleanup, loop >>

\* No duplicates, or no blocking mode: what was opened is closed again and the
\* Python pump takes the hop.
CreateFails ==
    /\ pc = "create"
    /\ rtr' = Resumed
    /\ Goes("py_read")
    /\ UNCHANGED << backend, stages, arriving, rbuf, writing, descriptors, thread,
                    cleanup, loop >>

\* _create_rust_pump_state.
Create ==
    /\ pc = "create"
    /\ Open({"stR", "stW"})
    /\ guard' = TRUE
    /\ Goes("start")
    /\ UNCHANGED << backend, stages, reading, writing, twice, thread, cleanup,
                    loop >>

\* _rollback_rust_pump_start: no native module, no duplicates, no worker.
StartFails ==
    /\ pc = "start"
    /\ guard' = FALSE
    /\ rtr' = Resumed
    /\ Close({"stR", "stW"})
    /\ Raises("error")
    /\ UNCHANGED << backend, stages, arriving, rbuf, writing, thread, cleanup,
                    loop >>

\* _start_rust_pump_with_cleanup.
Start ==
    /\ pc = "start"
    /\ Open({"naR", "naW"})
    /\ worker' = "moving"
    /\ Goes("native")
    /\ UNCHANGED << backend, stages, reading, writing, twice, guard, hand,
                    latched, cleanup, loop >>

-----------------------------------------------------------------------------
\* The worker thread.

WorkerReads ==
    /\ worker = "moving"
    /\ hand = << >> /\ up # << >>
    /\ up' = Tail(up)
    /\ hand' = IF latched THEN << >> ELSE << Head(up) >>
    /\ UNCHANGED << backend, task, down, produced, received, upOpen, downOpen,
                    reading, writing, descriptors, worker, latched, cleanup,
                    loop >>

\* A broken pipe latches the writer closed; the reader is drained to its end.
WorkerWrites ==
    /\ worker = "moving"
    /\ hand # << >>
    /\ \/ downOpen /\ Len(down) < PipeCapacity /\ down' = down \o hand
          /\ UNCHANGED latched
       \/ ~ downOpen /\ latched' = TRUE /\ UNCHANGED down
    /\ hand' = << >>
    /\ UNCHANGED << backend, task, up, produced, received, upOpen, downOpen,
                    reading, writing, descriptors, worker, cleanup, loop >>

\* The native call consumes its writer on every path.
WorkerReturns ==
    /\ worker = "moving"
    /\ hand = << >> /\ up = << >> /\ ~ upOpen
    /\ worker' = "returned"
    /\ Close({"naW"})
    /\ UNCHANGED << backend, task, stages, reading, writing, guard, hand, latched,
                    cleanup, loop >>

WorkerFails ==
    /\ worker = "moving"
    /\ worker' = "raised"
    /\ Close({"naW"})
    /\ UNCHANGED << backend, task, stages, reading, writing, guard, hand, latched,
                    cleanup, loop >>

\* Fault: the finalizer closes the writer the native call has consumed.
FinalizeClosingAll ==
    /\ worker \in {"returned", "raised"}
    /\ callback = "none" /\ ~ completed /\ guard
    /\ guard' = FALSE
    /\ Close(Fds)
    /\ UNCHANGED << backend, task, stages, reading, writing, thread, cleanup,
                    loop >>

\* _finalize_native_pump_resources.
Finalize ==
    /\ worker \in {"returned", "raised"}
    /\ callback = "none" /\ ~ completed /\ guard
    /\ guard' = FALSE
    /\ Close({"naR", "stR", "stW"})
    /\ UNCHANGED << backend, task, stages, reading, writing, thread, cleanup,
                    loop >>

\* complete_cleanup takes the cleanup lock.
CompleteCleanup ==
    /\ worker \in {"returned", "raised"}
    /\ ~ guard /\ ~ completed
    /\ completed' = TRUE
    /\ UNCHANGED << backend, task, stages, reading, writing, descriptors, thread,
                    deferred, unwaited, callback, loop >>

\* _schedule_native_pump_completion; a closed loop refuses the callback.
SignalCompletion ==
    /\ completed /\ callback = "none"
    /\ callback' = IF loop THEN "scheduled" ELSE "lost"
    /\ UNCHANGED << backend, task, stages, reading, writing, descriptors, thread,
                    completed, deferred, unwaited, loop >>

\* _resume_reader_after_rust_pump_cleanup.
ResumeReader ==
    /\ loop /\ callback = "scheduled"
    /\ rtr' = Resumed
    /\ callback' = "ran"
    /\ UNCHANGED << backend, task, stages, arriving, rbuf, writing, descriptors,
                    thread, completed, deferred, unwaited, loop >>

-----------------------------------------------------------------------------
\* _run_rust_pump_with_blocking_fds.

\* The native call's own failure is kept; its cleanup is waited for.  A worker
\* that is over before the hop asks for its result has not always cleaned up.
NativeDone ==
    /\ pc = "native"
    /\ worker \in {"returned", "raised"}
    /\ pc' = "cleanup"
    /\ err' = IF worker = "raised" THEN "error" ELSE "none"
    /\ UNCHANGED << backend, cancels, stages, reading, writing, descriptors,
                    thread, cleanup, loop >>

CleanupDone ==
    /\ pc \in {"cleanup", "grace"}
    /\ callback = "ran"
    /\ Goes("close")
    /\ UNCHANGED << backend, stages, reading, writing, descriptors, thread,
                    cleanup, loop >>

\* Fault: the grace period has no end.
GraceUnbounded ==
    /\ pc = "grace" /\ callback # "ran"
    /\ completed
    /\ unwaited' = TRUE
    /\ Goes("close")
    /\ UNCHANGED << backend, stages, reading, writing, descriptors, thread,
                    completed, deferred, callback, loop >>

\* defer_cleanup: a worker that has completed keeps its reader, for its callback
\* to resume; any other loses it, because this loop may not be there to do so.
GraceExpires ==
    /\ pc = "grace" /\ callback # "ran"
    /\ IF completed
       THEN unwaited' = TRUE /\ UNCHANGED << deferred, rtr >>
       ELSE deferred' = TRUE /\ rtr' = "closed" /\ UNCHANGED unwaited
    /\ Goes("close")
    /\ UNCHANGED << backend, stages, arriving, rbuf, writing, descriptors, thread,
                    completed, callback, loop >>

-----------------------------------------------------------------------------
\* _pump_stream.

PyReads ==
    /\ pc = "py_read"
    /\ \/ /\ rbuf # << >>
          /\ Written(<< Head(rbuf) >>)
          /\ rbuf' = Tail(rbuf)
          /\ Goes("py_write")
       \/ /\ rbuf = << >> /\ arriving = << >> /\ rtr = "closed"
          /\ Goes("close")
          /\ UNCHANGED << down, wbuf, rbuf >>
    /\ UNCHANGED << backend, up, produced, received, upOpen, downOpen, rtr,
                    arriving, wtr, descriptors, thread, cleanup, loop >>

PyWrites ==
    /\ pc = "py_write"
    /\ Drained
    /\ Goes(IF wtr = "closed" THEN "py_discard" ELSE "py_read")
    /\ UNCHANGED << backend, stages, reading, writing, descriptors, thread,
                    cleanup, loop >>

\* _drain_stream_reader_bounded_result: to the end, or until its bound.
PyDiscards ==
    /\ pc = "py_discard"
    /\ \/ rbuf # << >> /\ rbuf' = Tail(rbuf) /\ Goes("py_discard")
       \/ UNCHANGED rbuf /\ Goes("close")
    /\ UNCHANGED << backend, stages, rtr, arriving, writing, descriptors, thread,
                    cleanup, loop >>

-----------------------------------------------------------------------------
\* _close_stream_writer.
CloseWriter ==
    /\ pc = "close"
    /\ wtr' = IF wtr = "open" THEN "closing" ELSE wtr
    /\ Goes("closing")
    /\ UNCHANGED << backend, stages, reading, wbuf, descriptors, thread, cleanup,
                    loop >>

WriterClosed ==
    /\ pc = "closing"
    /\ wtr = "closed"
    /\ Goes("done")
    /\ UNCHANGED << backend, stages, reading, writing, descriptors, thread,
                    cleanup, loop >>

\* A cancellation, by the await it is delivered at; a task that has not begun
\* never does.  The grace period goes on.  The shielded wait for the cleanup is
\* left at once, and nothing is deferred there.
Cancel ==
    /\ cancels > 0
    /\ pc \notin {"dispatch", "create", "start", "close", "done"}
    /\ cancels' = cancels - 1
    /\ CASE pc \in {"settle", "drain"} ->
              pc' = "close" /\ err' = "cancelled" /\ rtr' = Resumed
         [] pc = "native" ->
              pc' = "grace" /\ err' = "cancelled" /\ UNCHANGED rtr
         [] pc \in {"cleanup", "py_read", "py_write", "py_discard"} ->
              pc' = "close" /\ err' = "cancelled" /\ UNCHANGED rtr
         [] pc \in {"begin", "closing"} ->
              pc' = "done" /\ err' = "cancelled" /\ UNCHANGED rtr
         [] pc = "grace" -> UNCHANGED << pc, err, rtr >>
    /\ unwaited' = (unwaited \/ (pc = "cleanup" /\ callback # "ran"))
    /\ UNCHANGED << backend, stages, arriving, rbuf, writing, descriptors, thread,
                    completed, deferred, callback, loop >>

\* The run is over; its event loop closes under a worker that is still busy, and
\* drops what it has not run.
LoopCloses ==
    /\ loop /\ pc = "done"
    /\ wtr = "closed"
    /\ loop' = FALSE
    /\ callback' = IF callback = "scheduled" THEN "lost" ELSE callback
    /\ UNCHANGED << backend, task, stages, reading, writing, descriptors, thread,
                    completed, deferred, unwaited >>

-----------------------------------------------------------------------------
HopSteps ==
    \/ Resolve \/ Decline \/ Pause \/ DrainBuffer \/ BufferDrained
    \/ Create \/ Start \/ NativeDone \/ CleanupDone \/ GraceExpires
    \/ PyReads \/ PyWrites \/ PyDiscards \/ CloseWriter \/ WriterClosed

WorkerSteps ==
    \/ WorkerReads \/ WorkerWrites \/ WorkerReturns
    \/ Finalize \/ CompleteCleanup \/ SignalCompletion

LoopSteps ==
    LoopReads \/ LoopDelivers \/ LoopReadsEof \/ LoopWrites
    \/ WriterTransportCloses \/ ResumeReader

Next ==
    \/ Produce \/ UpstreamCloses \/ Receive \/ DownstreamCloses
    \/ HopSteps \/ CreateFails \/ StartFails \/ Cancel
    \/ WorkerSteps \/ WorkerFails \/ LoopSteps \/ LoopCloses

Spec == Init /\ [][Next]_vars

\* The event loop and the worker thread run when they can, and the clock ends
\* every grace period.  Nothing is assumed of the two stages.
FairSpec ==
    /\ Spec
    /\ WF_vars(HopSteps)
    /\ WF_vars(WorkerSteps)
    /\ WF_vars(LoopReads \/ LoopDelivers)
    /\ WF_vars(LoopReadsEof)
    /\ WF_vars(WriterTransportCloses)
    /\ WF_vars(ResumeReader)

-----------------------------------------------------------------------------
WorkerBusy == worker = "moving"

\* The worker owns what it uses until it is done with it, whatever becomes of
\* the hop and of the loop: its descriptors are open while it moves data, none
\* is closed twice, the loop does not read from a pipe in blocking mode, and
\* when hop and worker are over every descriptor is closed and the blocking
\* mode is restored.  The reader is then resumed or closed, with one exception:
\* a cancelled hop that went without its cleanup and had nothing to defer leaves
\* it paused if the loop closes before the callback that resumes it.  That is
\* where defer_cleanup finds _cleanup_completed, and where the shielded wait for
\* the cleanup is cancelled; _ReaderPause means release to prevent it.
WorkerOwnsDescriptors ==
    /\ ~ twice
    /\ WorkerBusy => guard /\ \A f \in Fds : fd[f] = "open"
    /\ guard => rtr # "reading"
    /\ deferred => rtr = "closed"
    /\ pc = "done" /\ worker = "none" =>
         /\ \A f \in Fds : fd[f] # "open"
         /\ rtr # "paused"
    /\ pc = "done" /\ callback \in {"ran", "lost"} =>
         /\ ~ guard
         /\ \A f \in Fds : fd[f] = "closed"
         /\ rtr = "paused" => callback = "lost" /\ unwaited /\ err = "cancelled"

\* A hop that is over has closed its writer, so that the downstream stage meets
\* the end of its input, unless it never had a backend: one that is cancelled
\* before it begins, or that cannot resolve it, leaves its writer open.
\* And a hop that ends well has given the downstream stage every chunk exactly
\* once, those that asyncio had buffered before the hand-off included.
NothingLost ==
    LET out == received \o down
    IN  /\ pc = "done" /\ backend # "none" => wtr # "open"
        /\ pc = "done" /\ err = "none" /\ downOpen =>
             /\ Len(out) = produced
             /\ \A n \in 1..produced : \E i \in 1..Len(out) : out[i] = n

\* A hop whose downstream stage is gone ends as soon as it is cancelled or has
\* failed, though the upstream stage may never close its pipe and the worker
\* may stay blocked on it; and it ends when both stages are gone.
HopEnds ==
    (~ downOpen /\ (err # "none" \/ ~ upOpen)) ~> (pc = "done")
=============================================================================
