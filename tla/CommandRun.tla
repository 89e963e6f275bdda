------------------------------ MODULE CommandRun ------------------------------
(***************************************************************************)
(* One run of a single command, from its spawn to the result or the error  *)
(* of SafeCmd.run: cuprum/_subprocess_execution.py over _subprocess_spawn, *)
(* _subprocess_stream_run, _subprocess_stream_exit, _subprocess_direct_run,*)
(* _subprocess_rendezvous, _subprocess_deadline, _subprocess_wait and the  *)
(* stdin writer's modules.                                                 *)
(*                                                                          *)
(* The run is a coroutine and pc names the await it is suspended at; its   *)
(* exit wait is a task of its own when there is a stdin writer to race it. *)
(* The writer, the two readers, the heartbeat, the child and a descendant   *)
(* of the child move on their own.  The caller may cancel at any await:     *)
(* a plain await ends there, a shielded one first finishes its work.        *)
(*                                                                          *)
(* A stop of the child is used as GroupTeardown models it for processes    *)
(* this user may signal: it leaves no child and, in an owned group, nobody. *)
(***************************************************************************)
EXTENDS Naturals

CONSTANT MaxCancels   \* how often the caller cancels the run

ASSUME CommandAssumption == MaxCancels \in Nat

Streams == {"stdout", "stderr"}

VARIABLES
    mode,        \* "streamed" with output consumers, or "direct"
    owned,       \* the child leads a process group of its own
    source,      \* what feeds stdin: "none", "payload" or "stream"
    obstinate,   \* the stream's producer swallows its cancellation
    deadline,    \* "none", "armed", "elapsed" (non-positive) or "passed"
    cancels,     \* cancellations the caller has left
    interrupted, \* a cancellation waits for the shielded work to finish
    pc,          \* the await the run is suspended at
    err,         \* the exception on its way out, or "none"
    started,     \* the start event was emitted and the run owns its child
    child,       \* what has become of the direct child
    desc,        \* its descendant: "none", "quiet", or "holding" the pipes
    exitw,       \* the exit wait
    expiryReported,    \* the expiry was reported
    writer,      \* the stdin writer's task
    asked,       \* the run has cancelled the writer
    reader,      \* the consumer of every output stream
    sinks,       \* capture sinks are not released
    beat         \* the idle heartbeat: "off", "armed", "on" or "stopped"

fixed == << mode, owned, source, obstinate >>
control == << pc, err, interrupted, cancels >>
processes == << child, desc >>
waiting == << exitw, expiryReported >>
tasks == << writer, asked, reader, sinks, beat >>
commandVars == << fixed, deadline, control, started, processes, waiting, tasks >>

\* The awaits under _shielded_cleanup.
ShieldedAwaits ==
    {"stop_exit", "finalize", "settle_group", "recon_writer", "recon_readers",
     "clean_writer", "clean_group", "idle_final"}

Awaits ==
    ShieldedAwaits \cup
    {"spawn", "start", "race", "wait", "writer", "gather", "direct_writer",
     "done"}

Errors == {"expired", "cancelled", "error"}
ExitDone == {"exited", "timeout", "cancelled"}
WriterFailures == {"failed", "timedout"}
WriterDone == WriterFailures \cup {"ok", "cancelled"}

CommandInit ==
    /\ mode \in {"streamed", "direct"}
    /\ owned \in BOOLEAN
    /\ source \in {"none", "payload", "stream"}
    /\ obstinate \in BOOLEAN
    /\ obstinate => source = "stream"
    /\ deadline \in {"none", "armed", "elapsed"}
    /\ cancels = MaxCancels
    /\ interrupted = FALSE
    /\ pc = "spawn"
    /\ err = "none"
    /\ started = FALSE
    /\ child = "none"
    /\ desc = "none"
    /\ exitw = "none"
    /\ expiryReported = FALSE
    /\ writer = "none"
    /\ asked = FALSE
    /\ reader = [s \in Streams |-> "none"]
    /\ sinks = FALSE
    /\ beat \in {"off", "armed"}
    /\ beat = "armed" => mode = "streamed"

-----------------------------------------------------------------------------
\* The processes, the clock and the tasks beside the run.

ChildExits ==
    /\ pc # "start"
    /\ child = "running"
    /\ child' = "exited"
    /\ UNCHANGED << fixed, deadline, control, started, desc, waiting, tasks >>

\* The child leaves a process behind, which may hold the child's pipes.
ChildForks ==
    /\ pc # "start"
    /\ child = "running"
    /\ desc = "none"
    /\ desc' \in {"quiet", "holding"}
    /\ UNCHANGED << fixed, deadline, control, started, child, waiting, tasks >>

DescendantExits ==
    /\ pc # "start"
    /\ desc # "none"
    /\ desc' = "none"
    /\ UNCHANGED << fixed, deadline, control, started, child, waiting, tasks >>

TimePasses ==
    /\ started
    /\ deadline = "armed"
    /\ deadline' = "passed"
    /\ UNCHANGED << fixed, control, started, processes, waiting, tasks >>

\* Every byte was written, or the child closed its end early.
WriterFinishes ==
    /\ writer = "writing"
    /\ writer' = "ok"
    /\ UNCHANGED << fixed, deadline, control, started, processes, waiting,
                    asked, reader, sinks, beat >>

\* A producer, the encoder or the pipe failed, or an observe hook raised: a
\* TimeoutError if that is what the hook of a payload's event raised.
WriterFails ==
    /\ writer = "writing"
    /\ \/ writer' = "failed"
       \/ source = "payload" /\ writer' = "timedout"
    /\ UNCHANGED << fixed, deadline, control, started, processes, waiting,
                    asked, reader, sinks, beat >>

\* End of file: no process holds the write end any more.
ReaderEnds(s) ==
    /\ reader[s] = "reading"
    /\ child # "running"
    /\ desc # "holding"
    /\ reader' = [reader EXCEPT ![s] = "eof"]
    /\ UNCHANGED << fixed, deadline, control, started, processes, waiting,
                    writer, asked, sinks, beat >>

\* A line hook, the relay or the capture failed.
ReaderFails(s) ==
    /\ reader[s] = "reading"
    /\ reader' = [reader EXCEPT ![s] = "failed"]
    /\ UNCHANGED << fixed, deadline, control, started, processes, waiting,
                    writer, asked, sinks, beat >>

-----------------------------------------------------------------------------
\* A stop of the child, or of everyone in the group it leads.
Stop ==
    /\ child' = IF child = "running" THEN "killed" ELSE child
    /\ desc' = IF owned THEN "none" ELSE desc

\* _settle_owned_group_before_draining.
SettleGroup == IF owned THEN Stop ELSE UNCHANGED processes

\* Fault: a producer that swallows its cancellation is waited for.
CancelWriterToTheEnd ==
    /\ ~ (writer = "writing" /\ obstinate)
    /\ writer' = IF writer = "writing" THEN "cancelled" ELSE writer
    /\ asked' = (asked \/ writer = "writing")

\* Wait at most the reclaim budget: an obstinate producer stays behind.
CancelWriter ==
    /\ writer' = IF writer = "writing" /\ ~ obstinate THEN "cancelled"
                                                      ELSE writer
    /\ asked' = (asked \/ writer = "writing")

\* A reader that has not reached the end is cancelled and keeps what it read.
CutReaders ==
    reader' = [s \in Streams |->
                 IF reader[s] = "reading" THEN "cut" ELSE reader[s]]

StopIdle == beat' = IF beat = "on" THEN "stopped" ELSE beat

\* What a shielded await raises when its work is done.
Raised == IF interrupted THEN "cancelled" ELSE err

\* The TimeoutError e, not told apart from an expiry, needs a deadline to name.
AsExpiry == IF deadline = "none" THEN "error" ELSE "expired"

\* Where a failed exit wait is handled.
OnWaitFailure == IF mode = "streamed" THEN "recon_writer" ELSE "clean_writer"

-----------------------------------------------------------------------------
\* spawn_wait4_process: a failure or a cancellation while the pipes are being
\* connected stops the child again.
SpawnFails ==
    /\ pc = "spawn"
    /\ \/ err' = "error" /\ UNCHANGED cancels
       \/ cancels > 0 /\ cancels' = cancels - 1 /\ err' = "cancelled"
    /\ child' \in {"none", "killed"}
    /\ pc' = "done"
    /\ UNCHANGED << fixed, deadline, interrupted, started, desc, waiting,
                    tasks >>

Spawn ==
    /\ pc = "spawn"
    /\ child' = "running"
    /\ pc' = "start"
    /\ UNCHANGED << fixed, deadline, err, interrupted, cancels, started, desc,
                    waiting, tasks >>

\* _start_owned_process: nothing handles a synchronous hook that raises.
StartHookFails ==
    /\ pc = "start"
    /\ err' = "error"
    /\ pc' = "done"
    /\ UNCHANGED << fixed, deadline, interrupted, cancels, started, processes,
                    waiting, tasks >>

\* The tasks are created and the exit wait begins; a deadline that has already
\* elapsed begins with the stop.
Start ==
    /\ pc = "start"
    /\ started' = TRUE
    /\ writer' = IF source = "none" THEN "none" ELSE "writing"
    /\ reader' = [s \in Streams |->
                    IF mode = "streamed" THEN "reading" ELSE "none"]
    /\ sinks' = (mode = "streamed")
    /\ exitw' = IF deadline = "elapsed" THEN "expiring" ELSE "waiting"
    /\ beat' = IF beat = "armed" THEN "on" ELSE beat
    /\ pc' = IF source = "none" THEN "wait" ELSE "race"
    /\ UNCHANGED << fixed, deadline, err, interrupted, cancels, processes,
                    expiryReported, asked >>

-----------------------------------------------------------------------------
\* _wait_for_exit_code_within_timeout.

ExitSeen ==
    /\ exitw = "waiting"
    /\ child # "running"
    /\ exitw' = "exited"
    /\ UNCHANGED << fixed, deadline, control, started, processes, expiryReported,
                    tasks >>

ExitExpires ==
    /\ exitw = "waiting"
    /\ deadline = "passed"
    /\ exitw' = "expiring"
    /\ UNCHANGED << fixed, deadline, control, started, processes, expiryReported,
                    tasks >>

\* The shielded stop is over: only then is the expiry reported and raised.
ExitStopped ==
    /\ exitw \in {"expiring", "cancelling"}
    /\ Stop
    /\ IF exitw = "expiring"
       THEN exitw' = "timeout" /\ expiryReported' = TRUE
       ELSE exitw' = "cancelled" /\ UNCHANGED expiryReported
    /\ UNCHANGED << fixed, deadline, control, started, tasks >>

CancelledExit == IF exitw \in ExitDone THEN exitw ELSE "cancelling"

-----------------------------------------------------------------------------
\* _await_exit_or_writer_failure.

\* The writer is done first.  A failure cancels the exit wait, which stops the
\* child; a writer that merely finished changes nothing.
WriterFirst ==
    /\ pc = "race"
    /\ exitw \notin ExitDone
    /\ writer \in WriterDone
    /\ IF writer \in WriterFailures
       THEN /\ err' = IF writer = "failed" THEN "error" ELSE AsExpiry
            /\ exitw' = CancelledExit
            /\ pc' = "stop_exit"
       ELSE /\ pc' = "wait"
            /\ UNCHANGED << err, exitw >>
    /\ UNCHANGED << fixed, deadline, interrupted, cancels, started, processes,
                    expiryReported, tasks >>

\* The exit wait is done; the heartbeat is told to stop on the way to the
\* output.
ExitFirst ==
    /\ pc \in {"race", "wait"}
    /\ exitw \in ExitDone
    /\ CASE exitw = "exited" ->
              /\ pc' = CASE mode = "streamed" -> "writer"
                         [] mode = "direct" /\ source # "none" -> "direct_writer"
                         [] OTHER -> "idle_final"
              /\ StopIdle
              /\ UNCHANGED err
         [] exitw = "timeout" ->
              err' = "expired" /\ pc' = OnWaitFailure /\ UNCHANGED beat
         [] exitw = "cancelled" ->
              err' = "cancelled" /\ pc' = OnWaitFailure /\ UNCHANGED beat
    /\ UNCHANGED << fixed, deadline, interrupted, cancels, started, processes,
                    waiting, writer, asked, reader, sinks >>

\* _cancel_exit_wait has gathered the exit wait.
ExitWaitStopped ==
    /\ pc = "stop_exit"
    /\ exitw \in ExitDone
    /\ err' = Raised
    /\ interrupted' = FALSE
    /\ pc' = OnWaitFailure
    /\ UNCHANGED << fixed, deadline, cancels, started, processes, waiting,
                    tasks >>

-----------------------------------------------------------------------------
\* _collect_stream_output: the writer and the readers under one deadline.

Fail(e) == err' = e /\ pc' = "settle_group"

\* Fault: a writer that is done is reclaimed like one whose window closed.
WriterSettlesQuietly ==
    /\ pc = "writer"
    /\ CancelWriter
    /\ pc' = "gather"
    /\ UNCHANGED << fixed, deadline, err, interrupted, cancels, started,
                    processes, waiting, reader, sinks, beat >>

\* _await_stdin_writer: the writer is done, or its window closes.
WriterSettles ==
    /\ pc = "writer"
    /\ IF writer \in WriterFailures
       THEN Fail("error") /\ UNCHANGED << writer, asked >>
       ELSE CancelWriter /\ pc' = "gather" /\ UNCHANGED err
    /\ UNCHANGED << fixed, deadline, interrupted, cancels, started, processes,
                    waiting, reader, sinks, beat >>

\* The deadline passes first; a gather that is cancelled cancels the readers.
CollectionExpires ==
    /\ pc \in {"writer", "gather"}
    /\ deadline = "passed"
    /\ Fail("expired")
    /\ IF pc = "gather" THEN CutReaders ELSE UNCHANGED reader
    /\ UNCHANGED << fixed, deadline, interrupted, cancels, started, processes,
                    waiting, writer, asked, sinks, beat >>

Gather ==
    /\ pc = "gather"
    /\ \/ /\ \E s \in Streams : reader[s] = "failed"
          /\ Fail("error")
       \/ /\ \A s \in Streams : reader[s] = "eof"
          /\ pc' = "finalize" /\ UNCHANGED err
    /\ UNCHANGED << fixed, deadline, interrupted, cancels, started, processes,
                    waiting, tasks >>

\* _finalize_capture_handles of a successful run.
Finalize ==
    /\ pc = "finalize"
    /\ sinks' = FALSE
    /\ err' = Raised
    /\ interrupted' = FALSE
    /\ pc' = "idle_final"
    /\ UNCHANGED << fixed, deadline, cancels, started, processes, waiting,
                    writer, asked, reader, beat >>

-----------------------------------------------------------------------------
\* _settle_group_and_reconcile_consumers and _reconcile_shielded: one shield
\* over the group, the writer and the readers.

GroupSettled ==
    /\ pc = "settle_group"
    /\ SettleGroup
    /\ pc' = "recon_writer"
    /\ UNCHANGED << fixed, deadline, err, interrupted, cancels, started,
                    waiting, tasks >>

ReconcileWriter ==
    /\ pc = "recon_writer"
    /\ StopIdle
    /\ CancelWriter
    /\ pc' = "recon_readers"
    /\ UNCHANGED << fixed, deadline, err, interrupted, cancels, started,
                    processes, waiting, reader, sinks >>

\* Fault: a gather that has failed is taken to have settled its readers.
ReconcileNoReaders ==
    /\ pc = "recon_readers"
    /\ UNCHANGED reader
    /\ sinks' = FALSE
    /\ err' = Raised
    /\ interrupted' = FALSE
    /\ pc' = "idle_final"
    /\ UNCHANGED << fixed, deadline, cancels, started, processes, waiting,
                    writer, asked, beat >>

\* _drain_stream_consumers, after its grace for an expired run, and the sinks.
ReconcileReaders ==
    /\ pc = "recon_readers"
    /\ CutReaders
    /\ sinks' = FALSE
    /\ err' = Raised
    /\ interrupted' = FALSE
    /\ pc' = "idle_final"
    /\ UNCHANGED << fixed, deadline, cancels, started, processes, waiting,
                    writer, asked, beat >>

-----------------------------------------------------------------------------
\* The direct run after its exit.

DirectFail(e) == err' = e /\ pc' = "clean_writer"

\* _await_writer_within_deadline.  Without a deadline the settle window ends
\* the wait, shielded; with one only the writer or the deadline does.
DirectWriterSettles ==
    /\ pc = "direct_writer"
    /\ writer \in WriterDone \/ deadline = "none"
    /\ CASE interrupted -> DirectFail("cancelled")
         [] ~ interrupted /\ writer = "failed" -> DirectFail("error")
         [] ~ interrupted /\ writer = "timedout" -> DirectFail(AsExpiry)
         [] OTHER -> pc' = "idle_final" /\ UNCHANGED err
    /\ CancelWriter
    /\ interrupted' = FALSE
    /\ UNCHANGED << fixed, deadline, cancels, started, processes, waiting,
                    reader, sinks, beat >>

\* The expiry of a direct run is reported where it is raised.
DirectWriterExpires ==
    /\ pc = "direct_writer"
    /\ deadline = "passed"
    /\ DirectFail("expired")
    /\ expiryReported' = TRUE
    /\ UNCHANGED << fixed, deadline, interrupted, cancels, started, processes,
                    exitw, tasks >>

\* _cleanup_direct_run.
CleanWriter ==
    /\ pc = "clean_writer"
    /\ CancelWriter
    /\ pc' = "clean_group"
    /\ UNCHANGED << fixed, deadline, err, interrupted, cancels, started,
                    processes, waiting, reader, sinks, beat >>

CleanGroup ==
    /\ pc = "clean_group"
    /\ SettleGroup
    /\ err' = Raised
    /\ interrupted' = FALSE
    /\ pc' = "idle_final"
    /\ UNCHANGED << fixed, deadline, cancels, started, waiting, tasks >>

-----------------------------------------------------------------------------
\* The finally of _await_direct_completion.
IdleFinal ==
    /\ pc = "idle_final"
    /\ StopIdle
    /\ err' = Raised
    /\ interrupted' = FALSE
    /\ pc' = "done"
    /\ UNCHANGED << fixed, deadline, cancels, started, processes, waiting,
                    writer, asked, reader, sinks >>

-----------------------------------------------------------------------------
\* The caller cancels the run.

SpendCancel == cancels > 0 /\ cancels' = cancels - 1

\* Both are pending: the exit wait is cancelled in its turn, under a shield.
\* An exit wait that is done is not looked at.
CancelRace ==
    /\ pc = "race"
    /\ SpendCancel
    /\ err' = "cancelled"
    /\ exitw' = CancelledExit
    /\ pc' = IF exitw \in ExitDone THEN OnWaitFailure ELSE "stop_exit"
    /\ UNCHANGED << fixed, deadline, interrupted, started, processes, expiryReported,
                    tasks >>

\* The run awaits the exit wait itself, and cancels it by being cancelled.
CancelWait ==
    /\ pc = "wait"
    /\ SpendCancel
    /\ IF exitw \in ExitDone
       THEN /\ source # "none"
            /\ err' = "cancelled" /\ pc' = OnWaitFailure /\ UNCHANGED exitw
       ELSE exitw' = "cancelling" /\ UNCHANGED << err, pc >>
    /\ UNCHANGED << fixed, deadline, interrupted, started, processes, expiryReported,
                    tasks >>

CancelCollection ==
    /\ pc \in {"writer", "gather"}
    /\ SpendCancel
    /\ Fail("cancelled")
    /\ IF pc = "gather" THEN CutReaders ELSE UNCHANGED reader
    /\ UNCHANGED << fixed, deadline, interrupted, started, processes, waiting,
                    writer, asked, sinks, beat >>

CancelDirectWriter ==
    /\ pc = "direct_writer"
    /\ SpendCancel
    /\ IF deadline = "none"
       THEN writer = "writing" /\ interrupted' = TRUE /\ UNCHANGED << err, pc >>
       ELSE DirectFail("cancelled") /\ UNCHANGED interrupted
    /\ UNCHANGED << fixed, deadline, started, processes, waiting, tasks >>

CancelShielded ==
    /\ pc \in ShieldedAwaits
    /\ SpendCancel
    /\ interrupted' = TRUE
    /\ UNCHANGED << fixed, deadline, pc, err, started, processes, waiting,
                    tasks >>

-----------------------------------------------------------------------------
ExitWait == ExitSeen \/ ExitExpires \/ ExitStopped

RunSteps ==
    \/ Start \/ ExitWait
    \/ WriterFirst \/ ExitFirst \/ ExitWaitStopped
    \/ WriterSettles \/ CollectionExpires \/ Gather \/ Finalize
    \/ GroupSettled \/ ReconcileWriter \/ ReconcileReaders
    \/ DirectWriterSettles \/ DirectWriterExpires \/ CleanWriter \/ CleanGroup
    \/ IdleFinal

Environment ==
    \/ ChildExits \/ ChildForks \/ DescendantExits
    \/ WriterFinishes \/ WriterFails
    \/ \E s \in Streams : ReaderEnds(s) \/ ReaderFails(s)

Cancellations ==
    CancelRace \/ CancelWait \/ CancelCollection \/ CancelDirectWriter
    \/ CancelShielded

CommandNext ==
    \/ Spawn \/ SpawnFails \/ StartHookFails
    \/ RunSteps \/ TimePasses \/ Environment \/ Cancellations

CommandSpec == CommandInit /\ [][CommandNext]_commandVars

\* The event loop runs every ready task and the clock moves.  Nothing is
\* assumed of the child, its descendant, the producer or the pipes.
CommandFairSpec ==
    /\ CommandSpec
    /\ WF_commandVars(Spawn)
    /\ WF_commandVars(RunSteps)
    /\ WF_commandVars(ExitWait)
    /\ WF_commandVars(TimePasses)

-----------------------------------------------------------------------------
CommandType ==
    /\ mode \in {"streamed", "direct"}
    /\ owned \in BOOLEAN /\ obstinate \in BOOLEAN
    /\ source \in {"none", "payload", "stream"}
    /\ deadline \in {"none", "armed", "elapsed", "passed"}
    /\ cancels \in 0..MaxCancels
    /\ interrupted \in BOOLEAN /\ started \in BOOLEAN
    /\ pc \in Awaits
    /\ err \in Errors \cup {"none"}
    /\ child \in {"none", "running", "exited", "killed"}
    /\ desc \in {"none", "quiet", "holding"}
    /\ exitw \in ExitDone \cup {"none", "waiting", "expiring", "cancelling"}
    /\ expiryReported \in BOOLEAN /\ asked \in BOOLEAN /\ sinks \in BOOLEAN
    /\ writer \in WriterDone \cup {"none", "writing"}
    /\ reader \in [Streams -> {"none", "reading", "eof", "failed", "cut"}]
    /\ beat \in {"off", "armed", "on", "stopped"}

\* A run that got past its start event leaves nothing of its own behind,
\* however it ends: the child is not running, no reader and no heartbeat is
\* left, the capture sinks are released, and a stdin writer that is still
\* there is one whose producer swallowed its cancellation.
NothingLeftBehind ==
    pc = "done" /\ started =>
        /\ child # "running"
        /\ \A s \in Streams : reader[s] # "reading"
        /\ ~ sinks
        /\ beat # "on"
        /\ writer = "writing" => obstinate

\* The outcome says what happened.  A result is returned only when the child
\* ended by itself, both streams were read to their end and the stdin writer
\* did not fail before the run gave it up; TimeoutExpired only when the
\* deadline is over, or for a writer that raised a TimeoutError of its own;
\* a cancellation only when there was one; any other error only when the
\* spawn, a hook, the writer or a reader failed.
OutcomeTruthful ==
    pc = "done" =>
        CASE err = "none" ->
               /\ child = "exited"
               /\ mode = "streamed" => \A s \in Streams : reader[s] = "eof"
               /\ writer \in WriterFailures => asked
          [] err = "expired" ->
               deadline \in {"passed", "elapsed"} \/ writer = "timedout"
          [] err = "cancelled" -> cancels < MaxCancels
          [] err = "error" ->
               \/ ~ started
               \/ writer \in WriterFailures
               \/ \E s \in Streams : reader[s] = "failed"

\* A run with a deadline ends, whatever the child, its descendant, the
\* producer and the pipes do; and so does any run once something has failed
\* or it was cancelled.
RunEnds == (deadline # "none" \/ err # "none") ~> (pc = "done")
=============================================================================
