----------------------------- MODULE PipelineRun -----------------------------
(***************************************************************************)
(* One run of a pipeline, from the plan events to the result or the error   *)
(* that Pipeline.run hands to its caller: cuprum/_pipeline_internals.py     *)
(* with _pipeline_spawn.py, _pipeline_wait.py, _pipeline_teardown.py,       *)
(* _pipeline_collect.py, _pipeline_settlement.py and _pipeline_finalize.py. *)
(*                                                                          *)
(* The run is one coroutine.  pc names the await it is suspended at; what   *)
(* it does between two awaits is one action.  Stages exit whenever they     *)
(* like, and the caller may cancel the run at any await, more than once.    *)
(* A cancellation at a plain await ends it there.  At a shielded one the    *)
(* shielded work is finished first and the cancellation is raised after it. *)
(*                                                                          *)
(* A stop of a stage is used as GroupTeardown models it for processes this  *)
(* user may signal: it leaves no leader and, in an owned group, nobody.     *)
(***************************************************************************)
EXTENDS Naturals, FiniteSets

CONSTANTS
    N,            \* the number of stages
    MaxCancels    \* how often the caller cancels the run

ASSUME PipelineAssumption == N \in Nat /\ N >= 2 /\ MaxCancels \in Nat

Stages == 1..N
Pumps == 1..(N - 1)

VARIABLES
    owned,      \* every stage leads a process group of its own
    idle,       \* an idle heartbeat is configured
    deadline,   \* "none", "armed", "elapsed" before the wait, or "expired"
    cancels,    \* cancellations the caller has left
    landed,     \* the awaits at which the caller's cancellations arrived
    pc,         \* the await the run is suspended at
    err,        \* the exception on its way out, or "none"
    spawned,    \* the number of stages spawned
    stage,      \* what has become of the leader of every stage
    stopped,    \* stages that were still running when the run stopped them
    desc,       \* stages with a live descendant that holds their pipes
    pending,    \* stages whose exit has not been taken from asyncio.wait
    batch,      \* stages of one asyncio.wait answer still to be processed
    codes,      \* _PipelineWaitState.exit_codes
    failure,    \* _PipelineWaitState.failure_index, 0 for None
    readers,    \* stages with output consumers that are not settled
    sinks,      \* stages with capture sinks that are not released
    pumps,      \* inter-stage pumps that are not settled
    asked,      \* the pumps have been cancelled
    gathered,   \* the wait is over and the outputs are being gathered
    planned,    \* stages whose plan event was emitted
    settled,    \* the outcome of every stage's settled event, or "none"
    undrained,  \* observe-hook tasks may be pending
    worker,     \* the delivery worker is open
    session     \* "open", "failed" when its close raised, or the outcome

setup == << owned, idle >>
interrupts == << deadline, cancels, landed >>
control == << pc, err >>
processes == << spawned, stage, stopped, desc >>
waits == << pending, batch, codes, failure >>
streams == << readers, sinks, pumps, asked, gathered >>
events == << planned, settled, undrained, worker, session >>
vars == << setup, interrupts, control, processes, waits, streams, events >>

Exited == {"zero", "nonzero"}
Errors == {"timeout", "cancelled", "error"}

\* The awaits inside asyncio.wait_for, where the deadline interrupts too.
WaitPoints ==
    {"waiting", "fail_fast", "cleanup_stop", "cleanup_pumps", "cleanup_waits",
     "collect_pumps"}

\* Where the run is between two awaits, and no other task runs.
Synchronous == {"plan", "collect", "batch", "build"}

Awaits ==
    WaitPoints \cup Synchronous \cup
    {"spawn", "spawn_idle", "spawn_stop", "spawn_readers",
     "outer_worker", "outer_sink", "outer_drain", "zero_wait",
     "wait_idle", "expire_stop", "expire_pumps", "expire_settle",
     "reconcile", "gather", "settle", "close_worker", "result_sink",
     "hook_sink", "success_sink", "final_drain", "release",
     "timeout_worker", "timeout_sink", "observe", "run_failure",
     "idle_final", "guard", "done"}

Init ==
    /\ owned \in BOOLEAN
    /\ idle \in BOOLEAN
    /\ deadline \in {"none", "armed", "elapsed"}
    /\ cancels = MaxCancels
    /\ landed = {}
    /\ pc = "plan"
    /\ err = "none"
    /\ spawned = 0
    /\ stage = [i \in Stages |-> "none"]
    /\ stopped = {}
    /\ desc = {}
    /\ pending = {}
    /\ batch = {}
    /\ codes = [i \in Stages |-> "none"]
    /\ failure = 0
    /\ readers = {}
    /\ sinks = {}
    /\ pumps = {}
    /\ asked = FALSE
    /\ gathered = FALSE
    /\ planned = {}
    /\ settled = [i \in Stages |-> "none"]
    /\ undrained = FALSE
    /\ worker = TRUE
    /\ session = "open"

-----------------------------------------------------------------------------
\* The processes.

\* A stage ends, and may leave a descendant that holds its pipes.
StageExits(i) ==
    /\ pc \notin Synchronous
    /\ stage[i] = "running"
    /\ \E c \in Exited : stage' = [stage EXCEPT ![i] = c]
    /\ \E left \in SUBSET {i} : desc' = desc \cup left
    /\ UNCHANGED << setup, interrupts, control, spawned, stopped, waits,
                    streams, events >>

DescendantExits(i) ==
    /\ pc \notin Synchronous
    /\ i \in desc
    /\ desc' = desc \ {i}
    /\ UNCHANGED << setup, interrupts, control, spawned, stage, stopped, waits,
                    streams, events >>

\* Fault: a stage whose leader has exited is taken for settled, group and all.
StopLiveOnly(S) ==
    LET live == {i \in S : stage[i] = "running"}
    IN  /\ \E c \in [live -> Exited] :
              stage' = [i \in Stages |-> IF i \in live THEN c[i] ELSE stage[i]]
        /\ stopped' = stopped \cup live
        /\ IF owned
           THEN desc' = desc \ live
           ELSE \E left \in SUBSET live : desc' = desc \cup left
        /\ UNCHANGED spawned

\* _terminate_process for every stage of S: the leaders end, with a code of
\* their own choosing.  A group is stopped with its descendants; a leader that
\* is signalled alone may leave one.
Stop(S) ==
    LET live == {i \in S : stage[i] = "running"}
    IN  /\ \E c \in [live -> Exited] :
              stage' = [i \in Stages |-> IF i \in live THEN c[i] ELSE stage[i]]
        /\ stopped' = stopped \cup live
        /\ IF owned
           THEN desc' = desc \ S
           ELSE \E left \in SUBSET live : desc' = desc \cup left
        /\ UNCHANGED spawned

-----------------------------------------------------------------------------
\* Awaits and their interruptions.

Uninterrupted == UNCHANGED interrupts

Cancelled ==
    /\ cancels > 0
    /\ cancels' = cancels - 1
    /\ landed' = landed \cup {pc}
    /\ UNCHANGED deadline

DeadlineExpires ==
    /\ deadline = "armed"
    /\ deadline' = "expired"
    /\ UNCHANGED << cancels, landed >>

\* asyncio.wait_for cancels what it waits for.
Interrupted == Cancelled \/ DeadlineExpires

Continue(to) == pc' = to /\ UNCHANGED err
Raise(e, to) == err' = e /\ pc' = to

\* Uninterrupted, the run goes on to next; a cancellation raised by the shield
\* takes it to cut instead.
Shielded(next, cut) ==
    \/ Uninterrupted /\ Continue(next)
    \/ Cancelled /\ Raise("cancelled", cut)

\* The same inside asyncio.wait_for.
ShieldedInWait(next, cut) ==
    \/ Uninterrupted /\ Continue(next)
    \/ Interrupted /\ Raise("cancelled", cut)

-----------------------------------------------------------------------------
\* What the finalization paths have in common.

\* _outcome_for_error
Outcome(e) == IF e \in {"timeout", "cancelled"} THEN e ELSE "error"

\* _outcome_for_result
ResultOutcome(code) == IF code = "zero" THEN "exit_zero" ELSE "exit_nonzero"

\* _pipeline_result_outcome
PipelineOutcome ==
    IF \A i \in Stages : codes[i] = "zero" THEN "exit_zero" ELSE "exit_nonzero"

\* _SinkBracket.aclose: the first close takes the session.
Close(outcome) == session' = IF session = "open" THEN outcome ELSE session

\* emit_terminal: once, and only for a stage whose plan was emitted.
EmitTerminal(outcome) ==
    settled' = [i \in Stages |->
                   IF i \in planned /\ settled[i] = "none"
                   THEN outcome[i] ELSE settled[i]]

\* _emit_terminal_events: best effort, the same outcome for every stage.
EmitTerminalEvents(outcome) == EmitTerminal([i \in Stages |-> outcome])

\* A drain of the observe tasks; a task that failed takes the run to "error".
DrainTasks(next, cut) ==
    /\ undrained' = FALSE
    /\ \/ Shielded(next, cut)
       \/ Uninterrupted /\ Raise("error", cut)

\* A close of the session that may raise, or be followed by a cancellation.
\* Either way what the code does next is skipped.
CloseCut(outcome, cut) ==
    /\ UNCHANGED settled
    /\ \/ Cancelled /\ Close(outcome) /\ Raise("cancelled", cut)
       \/ Uninterrupted /\ Close("failed") /\ Raise("error", cut)

\* Where an error that leaves _collect_and_settle_pipeline_inputs is handled.
Finalizer(e) == IF e = "timeout" THEN "timeout_worker" ELSE "run_failure"

-----------------------------------------------------------------------------
\* _spawn_and_drive_pipeline: plan, spawn, and what a failed spawn owes.

\* _build_pipeline_observations and _emit_plan_events_and_run_before_hooks.
\* The allowlist, a before hook or an observer may refuse after k plans.
Plan ==
    /\ pc = "plan"
    /\ undrained' = TRUE
    /\ \/ planned' = Stages /\ Continue("spawn")
       \/ \E k \in 0..N : planned' = 1..k /\ Raise("error", "outer_worker")
    /\ UNCHANGED << setup, interrupts, processes, waits, streams, settled,
                    worker, session >>

\* The await of _stop_idle_monitor is only there for a launched monitor.
SpawnFailed == IF idle /\ readers # {} THEN "spawn_idle" ELSE "spawn_stop"

\* One turn of the loop of _spawn_pipeline_stages.  asyncio kills a process it
\* was still creating when the cancellation arrives.
Spawn ==
    LET k == spawned + 1
        Started ==
            /\ spawned' = k
            /\ stage' = [stage EXCEPT ![k] = "running"]
        Fails(e) == Raise(e, SpawnFailed) /\ UNCHANGED << readers, sinks >>
    IN  /\ pc = "spawn"
        /\ \/ /\ Uninterrupted
              /\ Started
              /\ readers' = readers \cup {k}
              /\ sinks' = sinks \cup {k}
              /\ Continue(IF k = N THEN "collect" ELSE "spawn")
           \/ Uninterrupted /\ Started /\ Fails("error")
           \/ Uninterrupted /\ UNCHANGED << spawned, stage >> /\ Fails("error")
           \/ Cancelled /\ UNCHANGED << spawned, stage >> /\ Fails("cancelled")
        /\ UNCHANGED << setup, stopped, desc, waits, pumps, asked, gathered,
                        events >>

\* _spawn_pipeline_processes awaits _stop_idle_monitor without a shield, before
\* the stages are stopped.
SpawnIdle ==
    /\ pc = "spawn_idle"
    /\ \/ Uninterrupted /\ Continue("spawn_stop")
       \/ Cancelled /\ Raise("cancelled", "outer_worker")
    /\ UNCHANGED << setup, processes, waits, streams, events >>

\* Fault: the stage whose start event failed is not among those stopped.
SpawnStopOneShort ==
    /\ pc = "spawn_stop"
    /\ Stop({i \in Stages : i < spawned})
    /\ Shielded("spawn_readers", "outer_worker")
    /\ UNCHANGED << setup, waits, streams, events >>

\* _cleanup_spawned_processes, its first shield
SpawnStop ==
    /\ pc = "spawn_stop"
    /\ Stop(1..spawned)
    /\ Shielded("spawn_readers", "outer_worker")
    /\ UNCHANGED << setup, waits, streams, events >>

\* _cancel_stage_tasks_and_sinks, then the settled events of the failed spawn
SpawnReaders ==
    /\ pc = "spawn_readers"
    /\ readers' = {}
    /\ sinks' = {}
    /\ Shielded("outer_worker", "outer_worker")
    /\ IF cancels' = cancels
       THEN EmitTerminalEvents(Outcome(err))
       ELSE UNCHANGED settled
    /\ UNCHANGED << setup, processes, waits, pumps, asked, gathered, planned,
                    undrained, worker, session >>

OuterWorker ==
    /\ pc = "outer_worker"
    /\ worker' = FALSE
    /\ Shielded("outer_sink", "idle_final")
    /\ UNCHANGED << setup, processes, waits, streams, planned, settled,
                    undrained, session >>

OuterSink ==
    /\ pc = "outer_sink"
    /\ \/ /\ Uninterrupted
          /\ Close(Outcome(err))
          /\ EmitTerminalEvents(Outcome(err))
          /\ Continue("outer_drain")
       \/ CloseCut(Outcome(err), "idle_final")
    /\ UNCHANGED << setup, processes, waits, streams, planned, undrained,
                    worker >>

OuterDrain ==
    /\ pc = "outer_drain"
    /\ DrainTasks("idle_final", "idle_final")
    /\ UNCHANGED << setup, processes, waits, streams, planned, settled, worker,
                    session >>

-----------------------------------------------------------------------------
\* _wait_for_pipeline, under asyncio.wait_for when there is a deadline.

\* asyncio.wait_for makes the cancellation it caused a timeout, unless the
\* caller has cancelled as well.
WaitError(e) ==
    IF e = "cancelled" /\ deadline' = "expired" /\ landed' \cap WaitPoints = {}
    THEN "timeout" ELSE e

LeaveWait(e) == Raise(WaitError(e), "wait_idle")

\* _collect_pipeline_inputs creates the pumps.  A deadline that is over when
\* the wait begins cancels _wait_for_pipeline before it runs.
Collect ==
    /\ pc = "collect"
    /\ pumps' = Pumps
    /\ IF deadline = "elapsed"
       THEN Continue("zero_wait") /\ UNCHANGED pending
       ELSE Continue("waiting") /\ pending' = Stages
    /\ UNCHANGED << setup, interrupts, processes, batch, codes, failure,
                    readers, sinks, asked, gathered, events >>

ZeroWait ==
    /\ pc = "zero_wait"
    /\ \/ Uninterrupted /\ Raise("timeout", "wait_idle")
       \/ Cancelled /\ Raise("cancelled", "wait_idle")
    /\ UNCHANGED << setup, processes, waits, streams, events >>

\* asyncio.wait returns every wait task that is done.
Wait ==
    LET finished == {i \in pending : stage[i] \in Exited}
    IN  /\ pc = "waiting"
        /\ \/ /\ Uninterrupted
              /\ finished # {}
              /\ batch' = finished
              /\ pending' = pending \ finished
              /\ Continue("batch")
           \/ /\ Interrupted
              /\ Raise("cancelled", "cleanup_stop")
              /\ UNCHANGED << batch, pending >>
        /\ UNCHANGED << setup, processes, codes, failure, streams, events >>

\* _stages_to_terminate
StagesToTerminate(failed) ==
    {i \in Stages : owned \/ (i # failed /\ stage[i] = "running")}

NextCompletion(rest) ==
    IF rest # {} THEN "batch"
    ELSE IF pending # {} THEN "waiting" ELSE "collect_pumps"

\* Fault: the failure recorded last wins.
LatchesLast(i) == stage[i] = "nonzero"

\* record_completion: the first failure in completion order is latched.
Latches(i) == failure = 0 /\ stage[i] = "nonzero"

\* should_terminate_others, for a stage that was just latched
FailsFast(i) == i # N /\ StagesToTerminate(i) # {}

\* _process_completed_task for the earliest stage of the batch.  A hook told of
\* the first failure may raise.
ProcessCompleted(i) ==
    /\ pc = "batch"
    /\ i \in batch
    /\ \A j \in batch : i <= j
    /\ batch' = batch \ {i}
    /\ codes' = [codes EXCEPT ![i] = stage[i]]
    /\ IF Latches(i)
       THEN /\ failure' = i
            /\ \/ Continue(IF FailsFast(i) THEN "fail_fast"
                           ELSE NextCompletion(batch'))
               \/ Raise("error", "cleanup_stop")
       ELSE /\ UNCHANGED failure
            /\ Continue(NextCompletion(batch'))
    /\ UNCHANGED << setup, interrupts, processes, pending, streams, events >>

\* _terminate_and_report; its closing report may raise.
FailFast ==
    /\ pc = "fail_fast"
    /\ Stop(StagesToTerminate(failure))
    /\ \/ ShieldedInWait(NextCompletion(batch), "cleanup_stop")
       \/ Uninterrupted /\ Raise("error", "cleanup_stop")
    /\ UNCHANGED << setup, waits, streams, events >>

\* _cleanup_pipeline_on_error terminates every stage, then cancels the pumps.
\* Cut short, it leaves them to _finalize_pipeline_wait, which cancels nothing.
CleanupStop ==
    /\ pc = "cleanup_stop"
    /\ Stop(Stages)
    /\ ShieldedInWait("cleanup_pumps", "collect_pumps")
    /\ UNCHANGED << setup, waits, streams, events >>

CleanupPumps ==
    /\ pc = "cleanup_pumps"
    /\ asked' = TRUE
    /\ pumps' = {}
    /\ ShieldedInWait("cleanup_waits", "collect_pumps")
    /\ UNCHANGED << setup, processes, waits, readers, sinks, gathered, events >>

\* The gather of the wait tasks after _cleanup_pipeline_on_error
CleanupWaits ==
    /\ pc = "cleanup_waits"
    /\ \A i \in Stages : stage[i] # "running"
    /\ \/ Uninterrupted /\ LeaveWait(err)
       \/ Interrupted /\ LeaveWait("cancelled")
    /\ UNCHANGED << setup, processes, waits, streams, events >>

\* _finalize_pipeline_wait: a pump ends when nobody holds the pipe it reads.
\* A cancellation of the gather cancels the pumps.
CollectPumps ==
    /\ pc = "collect_pumps"
    /\ pumps' = {}
    /\ \/ /\ Uninterrupted
          /\ asked \/ desc \cap Pumps = {}
          /\ LeaveWait(err)
          /\ UNCHANGED asked
       \/ Interrupted /\ LeaveWait("cancelled") /\ asked' = TRUE
    /\ UNCHANGED << setup, processes, waits, readers, sinks, gathered, events >>

\* _surface_unexpected_pipe_failures
PumpFailed ==
    /\ pc = "collect_pumps"
    /\ err = "none"
    /\ desc \cap Pumps = {}
    /\ pumps' = {}
    /\ Uninterrupted
    /\ LeaveWait("error")
    /\ UNCHANGED << setup, processes, waits, readers, sinks, asked, gathered,
                    events >>

\* The finally of _await_pipeline_wait_result
WaitIdle ==
    /\ pc = "wait_idle"
    /\ Shielded(IF err = "timeout" THEN "expire_stop" ELSE "reconcile",
                "reconcile")
    /\ UNCHANGED << setup, processes, waits, streams, events >>

-----------------------------------------------------------------------------
\* _collect_pipeline_inputs once the wait is over.

\* _expired_pipeline_outputs.  The wait-timeout route passes the reconciliation
\* of the finally on its way out, the route from the gather does not.
AfterExpiry(e) == IF gathered THEN Finalizer(e) ELSE "reconcile"

ExpireStop ==
    /\ pc = "expire_stop"
    /\ Stop(Stages)
    /\ Shielded("expire_pumps", AfterExpiry("cancelled"))
    /\ UNCHANGED << setup, waits, streams, events >>

ExpirePumps ==
    /\ pc = "expire_pumps"
    /\ asked' = TRUE
    /\ pumps' = {}
    /\ Shielded("expire_settle", AfterExpiry("cancelled"))
    /\ UNCHANGED << setup, processes, waits, readers, sinks, gathered, events >>

ExpireSettle ==
    /\ pc = "expire_settle"
    /\ readers' = {}
    /\ Shielded(AfterExpiry("timeout"), AfterExpiry("cancelled"))
    /\ UNCHANGED << setup, processes, waits, sinks, pumps, asked, gathered,
                    events >>

Reconcile ==
    /\ pc = "reconcile"
    /\ pumps' = {}
    /\ Shielded(IF err = "none" THEN "gather" ELSE Finalizer(err),
                "run_failure")
    /\ gathered' = (pc' = "gather")
    /\ UNCHANGED << setup, processes, waits, readers, sinks, asked, events >>

\* Fault: the deadline does not bound the gather.
GatherUnbounded ==
    /\ pc = "gather"
    /\ \/ Uninterrupted /\ desc = {} /\ Continue("settle")
       \/ Cancelled /\ Raise("cancelled", "run_failure")
    /\ UNCHANGED << setup, processes, waits, streams, events >>

\* _gather_pipeline_outputs: the readers end when nobody holds a pipe.
Gather ==
    /\ pc = "gather"
    /\ \/ Uninterrupted /\ desc = {} /\ Continue("settle")
       \/ DeadlineExpires /\ Raise("timeout", "expire_stop")
       \/ Cancelled /\ Raise("cancelled", "run_failure")
    /\ UNCHANGED << setup, processes, waits, streams, events >>

\* _bounded_payloads raises what a reader raised.
ReaderFailed ==
    /\ pc = "gather"
    /\ Uninterrupted
    /\ Raise("error", "run_failure")
    /\ UNCHANGED << setup, processes, waits, streams, events >>

\* _settle_gathered_outputs
SettleOutputs ==
    /\ pc = "settle"
    /\ readers' = {}
    /\ Shielded("close_worker", "run_failure")
    /\ UNCHANGED << setup, processes, waits, sinks, pumps, asked, gathered,
                    events >>

\* _collect_and_settle_pipeline_inputs
CloseWorker ==
    /\ pc = "close_worker"
    /\ worker' = FALSE
    /\ Shielded("build", "run_failure")
    /\ UNCHANGED << setup, processes, waits, streams, planned, settled,
                    undrained, session >>

-----------------------------------------------------------------------------
\* _run_spawned_pipeline and _pipeline_finalize.py: how a run ends.

\* _build_pipeline_stage_results, then _run_pipeline_after_hooks; an observer
\* of an exit event or an after hook may raise.
Build ==
    /\ pc = "build"
    /\ \/ Continue("success_sink")
       \/ Raise("error", "result_sink")
       \/ Raise("error", "hook_sink")
    /\ UNCHANGED << setup, interrupts, processes, waits, streams, events >>

\* _finalize_pipeline_stage_result_failure
ResultSink ==
    /\ pc = "result_sink"
    /\ \/ /\ Uninterrupted
          /\ Close(Outcome(err))
          /\ EmitTerminalEvents(Outcome(err))
          /\ Continue("observe")
       \/ CloseCut(Outcome(err), "observe")
    /\ UNCHANGED << setup, processes, waits, streams, planned, undrained,
                    worker >>

\* _finalize_pipeline_execution after a failing after hook
HookSink ==
    /\ pc = "hook_sink"
    /\ \/ /\ Uninterrupted
          /\ Close(Outcome(err))
          /\ EmitTerminalEvents(Outcome(err))
          /\ Continue("final_drain")
       \/ CloseCut(Outcome(err), "release")
    /\ UNCHANGED << setup, processes, waits, streams, planned, undrained,
                    worker >>

\* _finalize_pipeline_execution after the after hooks; an observer of a settled
\* event may raise once every stage has had its event.
SuccessSink ==
    /\ pc = "success_sink"
    /\ \/ /\ Uninterrupted
          /\ Close(PipelineOutcome)
          /\ EmitTerminal([i \in Stages |-> ResultOutcome(codes[i])])
          /\ Continue("final_drain") \/ Raise("error", "final_drain")
       \/ CloseCut(PipelineOutcome, "release")
    /\ UNCHANGED << setup, processes, waits, streams, planned, undrained,
                    worker >>

FinalDrain ==
    /\ pc = "final_drain"
    /\ DrainTasks("release", "release")
    /\ UNCHANGED << setup, processes, waits, streams, planned, settled, worker,
                    session >>

\* The finally of _run_spawned_pipeline: _finalize_capture_handles
Release ==
    /\ pc = "release"
    /\ sinks' = {}
    /\ Shielded("idle_final", "idle_final")
    /\ UNCHANGED << setup, processes, waits, readers, pumps, asked, gathered,
                    events >>

\* _finalize_pipeline_timeout
TimeoutWorker ==
    /\ pc = "timeout_worker"
    /\ worker' = FALSE
    /\ Shielded("timeout_sink", "observe")
    /\ UNCHANGED << setup, processes, waits, streams, planned, settled,
                    undrained, session >>

TimeoutSink ==
    /\ pc = "timeout_sink"
    /\ \/ /\ Uninterrupted
          /\ Close("timeout")
          /\ EmitTerminalEvents("timeout")
          /\ Continue("observe")
       \/ CloseCut("timeout", "observe")
    /\ UNCHANGED << setup, processes, waits, streams, planned, undrained,
                    worker >>

\* _settle_observe_tasks
SettleObserveTasks ==
    /\ pc = "observe"
    /\ sinks' = {}
    /\ DrainTasks("idle_final", "idle_final")
    /\ UNCHANGED << setup, processes, waits, readers, pumps, asked, gathered,
                    planned, settled, worker, session >>

\* _finalize_pipeline_run_failure: _reconcile_pipeline_run_failure as a whole
\* is under one shield.
RunFailure ==
    /\ pc = "run_failure"
    /\ readers' = {}
    /\ worker' = FALSE
    /\ sinks' = {}
    /\ \/ /\ Close(Outcome(err))
          /\ EmitTerminalEvents(Outcome(err))
       \/ /\ Close("failed")
          /\ UNCHANGED settled
    /\ IF session' = "failed"
       THEN /\ undrained' = FALSE
            /\ \/ Uninterrupted /\ Raise("error", "idle_final")
               \/ Cancelled /\ Raise("cancelled", "idle_final")
       ELSE DrainTasks("idle_final", "idle_final")
    /\ UNCHANGED << setup, processes, waits, pumps, asked, gathered, planned >>

\* The finally of _run_pipeline
IdleFinal ==
    /\ pc = "idle_final"
    /\ Shielded(IF err = "none" THEN "done" ELSE "guard", "guard")
    /\ UNCHANGED << setup, processes, waits, streams, events >>

\* The last guard of Pipeline.run
Guard ==
    /\ pc = "guard"
    /\ \/ Close(Outcome(err)) /\ Shielded("done", "done")
       \/ /\ session = "open"
          /\ Close("failed")
          /\ Uninterrupted
          /\ Raise("error", "done")
    /\ UNCHANGED << setup, processes, waits, streams, planned, settled,
                    undrained, worker >>

-----------------------------------------------------------------------------

SpawnSteps ==
    Plan \/ Spawn \/ SpawnIdle \/ SpawnStop \/ SpawnReaders
         \/ OuterWorker \/ OuterSink \/ OuterDrain

WaitSteps ==
    \/ Collect \/ ZeroWait \/ Wait \/ FailFast \/ CleanupStop \/ CleanupPumps
    \/ CleanupWaits \/ CollectPumps \/ WaitIdle
    \/ \E i \in Stages : ProcessCompleted(i)

OutputSteps ==
    ExpireStop \/ ExpirePumps \/ ExpireSettle \/ Reconcile \/ Gather
               \/ SettleOutputs \/ CloseWorker

FinalSteps ==
    \/ Build \/ ResultSink \/ HookSink \/ SuccessSink \/ FinalDrain \/ Release
    \/ TimeoutWorker \/ TimeoutSink \/ SettleObserveTasks \/ RunFailure
    \/ IdleFinal \/ Guard

RunSteps == SpawnSteps \/ WaitSteps \/ OutputSteps \/ FinalSteps

Next ==
    \/ RunSteps
    \/ PumpFailed
    \/ ReaderFailed
    \/ \E i \in Stages : StageExits(i) \/ DescendantExits(i)

Spec == Init /\ [][Next]_vars

\* The event loop resumes a coroutine whose await is over, and the timer of a
\* deadline goes off.  Nobody has to cancel, and no stage has to exit.
FairSpec == Spec /\ WF_vars(RunSteps /\ cancels' = cancels)

-----------------------------------------------------------------------------
\* Properties.

Outcomes == {"exit_zero", "exit_nonzero", "timeout", "cancelled", "error"}

\* The variables have the types the code gives them.
TypeOK ==
    /\ owned \in BOOLEAN /\ idle \in BOOLEAN
    /\ deadline \in {"none", "armed", "elapsed", "expired"}
    /\ cancels \in 0..MaxCancels
    /\ landed \subseteq Awaits
    /\ pc \in Awaits
    /\ err \in Errors \cup {"none"}
    /\ spawned \in 0..N
    /\ stage \in [Stages -> Exited \cup {"none", "running"}]
    /\ stopped \subseteq Stages /\ desc \subseteq Stages
    /\ pending \subseteq Stages /\ batch \subseteq Stages
    /\ codes \in [Stages -> Exited \cup {"none"}]
    /\ failure \in 0..N
    /\ readers \subseteq Stages /\ sinks \subseteq Stages
    /\ pumps \subseteq Pumps
    /\ asked \in BOOLEAN /\ gathered \in BOOLEAN
    /\ planned \subseteq Stages
    /\ settled \in [Stages -> Outcomes \cup {"none"}]
    /\ undrained \in BOOLEAN /\ worker \in BOOLEAN
    /\ session \in Outcomes \cup {"open", "failed"}

\* No run that ends leaves a stage running ("every exit path owes them
\* teardown", _run_spawned_pipeline).
NoStageLeftRunning ==
    pc = "done" => \A i \in Stages : stage[i] # "running"

\* The same, but for the three awaits at which a cancellation is handled by
\* code that does not stop the stages: the unshielded stop of the heartbeat
\* after a failed spawn, and the zero wait and the stop of the heartbeat of a
\* deadline that was over when the wait began.
StagesReclaimed ==
    /\ landed \cap {"spawn_idle", "zero_wait"} = {}
    /\ ~ (deadline = "elapsed" /\ "wait_idle" \in landed)
    => NoStageLeftRunning

\* However it ends, the run leaves no reader, capture sink, pump, delivery
\* worker or sink session behind, unless a cancellation interrupted what a
\* failed spawn does before it reaches its readers.
NothingLeftOpen ==
    pc = "done" /\ landed \cap {"spawn_idle", "spawn_stop"} = {}
    => /\ readers = {} /\ sinks = {} /\ pumps = {}
       /\ ~ worker /\ session # "open"

\* Whatever ends a run, processes and what carries their output are settled, but
\* for a cancellation at one of the awaits named above.
RunReclaimed == StagesReclaimed /\ NothingLeftOpen

\* The awaits that stand between a run and its settled events.
Closings ==
    {"outer_worker", "outer_sink", "timeout_worker", "timeout_sink",
     "result_sink", "hook_sink", "success_sink"}

\* Every stage whose plan event was emitted has had its settled event, and the
\* observe tasks are drained, when the run ends: unless the close of the
\* session raised or a cancellation arrived while it, or the delivery worker,
\* was being closed.
EveryStageSettled ==
    pc = "done" /\ landed \cap Closings = {} /\ session # "failed"
    => /\ \A i \in planned : settled[i] # "none"
       /\ ~ undrained

\* The sink session and the observers are told the same story: a run that
\* failed is reported to both with the same outcome, and a run with results
\* settles every stage with its own exit code.  The exception is a failed spawn
\* that is cancelled while its delivery worker is being closed: the observers
\* have been told of the error, and the session is told of the cancellation.
OneStory ==
    pc = "done" /\ session # "failed" /\ "outer_worker" \notin landed
    => \A i \in Stages : settled[i] # "none" =>
          settled[i] = IF session \in {"exit_zero", "exit_nonzero"}
                       THEN ResultOutcome(stage[i]) ELSE session

\* The result names the first failure: a run that returns reports how every
\* stage ended, and the failure it names, if any stage failed, is a failure of
\* that stage's own and not of the termination that followed.
FirstFailureNamed ==
    pc = "done" /\ err = "none"
    => /\ codes = stage
       /\ (failure = 0) = (\A i \in Stages : codes[i] = "zero")
       /\ failure # 0 => codes[failure] = "nonzero" /\ failure \notin stopped

\* Owned groups are gone, descendants of exited leaders included, when a run
\* ends that reports a timeout or was cancelled while its stages were awaited.
OwnedGroupsReclaimed ==
    /\ pc = "done" /\ owned
    /\ session = "timeout" \/ landed \cap {"waiting", "fail_fast"} # {}
    => desc = {}

\* What a run owes its observers and its groups when it ends: every planned
\* stage settled, the session and the observers told the same, and the groups
\* of a run that expired or was cancelled emptied.
RunAccounted == EveryStageSettled /\ OneStory /\ OwnedGroupsReclaimed

\* A run with a deadline, or one that was cancelled, comes to an end, even if
\* no process ever exits by itself: unless the termination of the stages was
\* itself interrupted and the pumps were left to end by themselves.
RunEnds ==
    (deadline # "none" \/ landed # {})
    ~> \/ pc = "done"
       \/ pc = "collect_pumps" /\ err # "none" /\ ~ asked

=============================================================================
