# Verification of cuprum

cuprum runs curated programs as subprocesses from asyncio code: single commands,
pipelines, line streams, batches, detached launches, and long-lived children held by
a handle. This directory holds TLA+ models of the parts of it where a unit test says
least: who collects a child, who signals whom, what is left behind when a run is cut
at any await, what is lost when a destination stalls, and what the people who watch
a run are told. TLC checks the models on small instances. TLAPS proves the main
safety properties for every value of the constants.

Paths below are relative to the repository's `cuprum/` package unless they begin with
`docs/` or `rust/`.

## Inventory

| Part | State it keeps | Operations | What is hard about it | What makes it correct | Module |
| --- | --- | --- | --- | --- | --- |
| Child owner (`_wait4_process.py`, `_process_exit.py`) | `_returncode`, `_resource_usage`, `_settlement_lock`, one reap task | `wait`, `send_signal`, the reaper thread, exit readings | two threads over one kernel object; a PID that is reused; no `waitid(WNOWAIT)`; a foreign `waitpid` | a signal reaches only the child; it is collected once; every answer carries its real code | `Wait4Process` |
| Stop of a process or group (`_process_lifecycle.py`, `_process_signal.py`, `_process_group.py`, `_group_teardown.py`) | target, what was sent, what was reported | SIGTERM, grace, SIGKILL, settlement | members exit, fork, change user, go unreaped during the stop | no report means nothing is left; the outcome is truthful; the stop returns | `GroupTeardown` |
| Single runs (`_subprocess_*run.py`, `_subprocess_deadline.py`, `_subprocess_wait.py`, `_subprocess_stream_*.py`, `_subprocess_rendezvous.py`) | exit wait, consumers, deadline, writer | run, expire, cancel | a deadline against a late exit; the writer's failure against the exit; consumers held open by descendants | one result or one error, nothing left running, an end | `CommandRun` |
| Stdin writer (`_subprocess_stdin*.py`) | writer task, producer, encoder, pipe | write, close, abort, finalize, settle, reclaim | a producer that swallows cancellation; a pipe that never closes | a reclaim budget that is large enough and bounded; failures named for their cause | `StdinWriter` |
| Drains, echo, lines, captures (`_streams.py`, `_stream_*.py`, `_echo_*.py`, `_capture_*.py`, `capture_policy.py`) | partial line, decoder, echo budget, tail buffer, spill file | absorb, echo, observe, spill, release | boundaries inside chunks and characters; exact bounds; failing storage calls | views of the whole stream; exact tail and counts; no file left | `StreamText`, `StreamDrain` |
| Line streams (`_line_stream/`, `_line_iteration.py`, `_line_stream_finalization.py`) | bounded queue, readers, settlement flag | next, close, expire | a full queue against a closing consumer | every line once in order; one teardown; no deadlock | `LineStream`, `LineDelivery` |
| Handle (`_process_handle/`) | `_task`, `_result`, `_deadline`, `stop_lock` | `wait`, `terminate`, `kill`, `signal`, `async with` | any number of callers, deadlines and cancellations on one child | one outcome for everybody; one finalization; nobody leaves a child behind | `HandleSettlement`, `OneOutcome` |
| Pipelines (`_pipeline_*.py`) | exit codes, failure index, pump and capture tasks | spawn, wait, fail fast, stop, collect | several failures in one turn; partial spawns; interrupted cleanups | one failure named; all stages reaped and settled | `PipelineRun` |
| Inter-stage hop (`_pipeline_stream*.py`, `_pipeline_rust_pump_completion.py`, `_streams_pump.py`, `_backend.py`, `rust/cuprum-streams`) | transports, duplicated descriptors, blocking mode, worker thread | resolve a backend, hand off, pump, complete, defer | a worker that outlives its hop, or its loop | descriptors closed once and not under the worker; no chunk lost; the hop ends | `NativePump` |
| Bounded delivery (`_bounded_delivery.py`, `_delivery_lifecycle.py`, `_sink_lifecycle.py`) | queue, byte count, active item, flags, close result | `enqueue`, the worker loop, `close`, session close | a destination that blocks for ever or raises, a join that times out | bounded, FIFO, no silent loss, closing frame last, teardown ends | `BoundedDelivery` |
| Batches (`concurrent.py`, `_concurrent_config.py`) | semaphore, tasks, results | run all, fail fast, cancel | cancellation against finished tasks and queued places | the result is truthful, places are kept, an abort ends | `ConcurrentRun` |
| Contexts (`context/`, `_scope_registration.py`, `logging_hooks.py`) | context variables and tokens | scoped, register, detach | exits out of order, copied contexts | the policy is that of the open blocks | `ScopedContext` |
| Requests (`catalogue.py`, `program.py`, `sh/`, `executable_*.py`, `context/env_overlay.py`) | immutable values | construct, look up, merge, validate, refuse | combinations, and the order of the checks | a refused request has done nothing | `RunOptions` |
| Builders (`builders/`, `sh/argv.py`) | immutable values | make a path, a ref, a command line | an operand that reads as an option or a host | the tool reads the operands as the caller meant them | `Builders` |
| Launch (`_command_prepare.py`, `_stdio_*.py`, `_subprocess_spawn.py`, `_wait4_spawn.py`, `_rusage.py`, `_detached_*.py`) | descriptors, buffers, child, usage | open, flush, spawn, close, measure, detach | descriptor numbers shared with other threads; a failure between two steps; a resolver that changes its mind | what ran is what was announced; nothing leaked | `Launch` |
| Observers (`_command_internals.py`, `_command_finalization.py`, `adapters/`, `_observability.py`) | span registry, counters, hook tasks | plan, emit, settle, drain | hooks that raise, answer later or write from another thread | one terminal event, one ended span, counters that agree with it | `Telemetry` |
| Redaction (`redaction.py`) | rules | find spans, merge, replace | overlapping and adjacent spans, rules that fail | no matched letter is exported, all others are | `Redaction` |
| Log (`sinks/`, `_idle_heartbeat.py`) | frame, lease, schedule | open, echo, wake, close | output that looks like a command; late wake-ups; several stops | the runner obeys no child; heartbeats are true | `Presentation` |
| Secondary channels (`capture_observation.py`, `control_observation.py`, `echo_observation.py`, `line_stream_observation.py`, `pump_observation.py`, `pump_span_observation.py`, `stream_observation.py`) | registered hooks and tokens | register, detach, notify | a hook that raises or returns a coroutine | hooks hear what they asked for and cannot change the run | `SideObservers` |
| Exit status guard, scripts, benchmarks | - | - | nothing runs concurrently | unit tests | none |

How they interact: an entry point (`run`, `run_bytes`, `start`, `lines`, a pipeline's
`run`, `launch_detached`) checks its request, builds an observation and a sink session,
runs the before hooks and spawns a child through the child owner. Every stop of it
goes through the one teardown routine, which waits through the child owner. The
run's coroutine drives the child to its end, collects the drains, runs the after
hooks and finalizes the command, which closes the delivery worker and the sink session
and settles the observers. Threads (the reaper, the delivery worker, the session
finalizer, native pumps, storage calls) meet the event loop only through locks and
futures.

`PROJECT.json` lists the hazards, each at its line, with the properties about it.

## Modules

A coroutine is a variable that names the await it is suspended at; what happens between
two awaits is one action. The caller may cancel at any await: at a shielded one the work
is finished first and the cancellation raised afterwards, at a plain one it is dropped
there. Threads move statement by statement where they share state. Hooks, observers,
storage, destinations and processes fail as the code admits.

`Wait4Process` models the child owner. Kernel, reaper thread and event loop share
the child, and every Python statement that touches shared state is one action, since
threads switch between bytecodes. `probe` (is there a `WNOWAIT` probe) and `foreign`
(does other code call `waitpid`) are chosen initially and never change. The delivery
(`Deliver...`) is the synchronous `_deliver_signal` with `send_signal` inside it, so
the waiter's steps run only between deliveries. `hits` remembers what `os.kill`
reached.

`GroupTeardown` models one call of `_terminate_process_with_wait`, step by step, with
the processes it is aimed at. `owns`, `mine` and `immune` (whether the run owns a
group, who may be signalled, who ignores SIGTERM) are arbitrary initial values. The
teardown is shielded, so it is not cancelled. Every other module uses a stop as this
one models it for processes the user may signal.

`CommandRun` models one `run()` of a command that got as far as its spawn, streamed or
direct: its exit wait (a task of its own when a stdin writer races it), the readers, the
deadline, the heartbeat and every cleanup, with a child and a descendant that may hold the
pipes. The writer appears by the ways it can end.

`StdinWriter` opens that box: the payload's and the stream's writer, the encoder, the
pipe, the producer and its finalizer, and the run that settles and reclaims it. Its
bounded waits are countdowns over one clock, so that the arithmetic of the reclaim budget
(`_STDIN_RECLAIM_...`) is part of the model.

`StreamText` holds the pure algorithms over bytes: decoding with a held-back prefix, line
boundaries, the echo limiter, the tail that fits a bound, byte-order marks and the
encodings that a cut tail cannot be read in. Each has a reference definition over the
whole stream (`LongestTail`, `LinesExact`, `EchoExact`). `StreamDrain` is the drain loop that
uses them on chunks, with the file-backed capture, whose storage calls run on a worker
thread, fail, or are cancelled, and the release by the run that owns the drain.

`LineStream` models `lines()`: the generator the consumer pulls, the coordinator task, the two
readers and the bounded queue. `LineDelivery` is its abstract specification: a prefix of
each stream's lines, in order, and at most one end, which is complete only after all of
them.

`HandleSettlement` models a `RunningCommand` under several callers: `wait` (bare, with
a positive deadline, with one already elapsed), `terminate`, `kill`, leaving the
block with and without an error, and cancellation of any of them. `driver` is the
settlement task (`settle_and_record` with its finalization), `tasked`/`result`/
`deadline` are the fields of `_Settlement`. Sections under `_Settlement._lock` never
suspend, so each is one action. An escalation is reduced to its two phases, grace and
reap, and the child to the states its readers can tell apart. `OneOutcome` is the abstract
specification: one verdict, decided once, and what each kind of caller may be told before
and after it.

`PipelineRun` models one run of a pipeline from plan to result, with two or more stages.
`err` is the exception on its way out, and `landed` remembers where
cancellations arrived, so that a property can say which of them it excepts. `NativePump` is one
of its hops: the requested backend and the probe for the extension, the hand-off of
duplicated descriptors with their shared blocking mode, the worker thread, the Python pump
where a hand-off is not possible, completion, and the deferral when the hop or the loop is
gone first. The worker moves numbered chunks between two pipes with a capacity.

`BoundedDelivery` models the worker of one run, its close, the once-only publication
of the diagnostics and the session finalizer that shares the worker's lock. A chunk
is an item with a size.

`ScopedContext` keeps, per task, the policy in its context variable, the stack of scoped
entries and the blocks its code is inside of. `scoped()` by configuration or catalogue,
and the allow, env, bind, before, after, observe and logging registrations are entered and
left, also in the wrong task or order. `ConcurrentRun` extends it with a batch: every command
in a task with a copy of the caller's context, behind an `asyncio.Semaphore`, collected by
`gather` or by a task group whose callbacks run a moment after a task has ended, and the
checks of the result value.

The observed run is composed of eight modules that share no variables; each gives actions over
its own part and `ObservedRun` gives them their place in the run, in the order of
`_command_prepare.py`, `_subprocess_execution.py` and `_command_finalization.py`.

* `RunOptions`: what a request is made of, how environments and executables are merged and
  rendered, and what each entry point refuses before and after the allowlist is looked at.
* `Builders`: tar, rsync, git and the plain command; a path is a sequence of segments, a ref the
  set of rules it breaks. `ArgvAsAsked` is the reference: how the tool would read the result.
* `Redaction`: literal and pattern spans over texts of two letters, their merge, and the copy
  an observer is given.
* `Launch`: descriptors over a table of numbers that another thread takes from as well, flushes
  of borrowed file objects, the child, its usage, and the detached launch.
* `Telemetry`: events, the span of the tracing hook with its registry and lock, the counters of
  the metrics hook, hook tasks and the terminal event.
* `Presentation`: what the log's reader makes of frames, echo, annotations and heartbeats.
* `SideObservers`: the seven secondary channels.
* `ObservedRun`: `run` to its answer, `start` until the handle exists (`HandleSettlement` goes on),
  `lines` and a pipeline until they are handed on, and `launch_detached`. How a live child is
  driven to its end is `CommandRun`; here it exits, expires, is cancelled or fails.

`MC*` modules give TLC its values; `*Proofs` modules hold the theorems. Definitions commented
`Fault:` are plausible mistakes used to show that a property can fail; no specification
contains them.

## Runs

| Run | Instance | What it shows |
| --- | --- | --- |
| `wait4` | 2 exit codes, all four platforms; 14,224 states | no signal to a stranger although PIDs are reused; one collection, and refusals and waits with the real code; every delivery returns and every waiter of an exited child is answered |
| `teardown` | child and 2 descendants, every `owns`, `mine`, `immune`; 93,262 states | silence means settled; the outcome is truthful; SIGKILL leaves nobody the user may signal; the teardown returns when the child may be signalled |
| `command` | streamed and direct, every source of stdin, 2 cancellations; 314,190 states | nothing left behind, the outcome says what happened, a run with a deadline or an error ends |
| `stdin` | close grace 2, settle grace 1, slack 1, 2 reclaims; 25,207 states | the budget contains the cleanup, pipe and producer released in order, failures named for their cause, the run never held |
| `drain` | every stream of up to 5 bytes in chunks of up to 3, 8 encodings, three kinds of capture, failing storage, 2 cancellations; 535,364 states | lines, echo and tail depend on the bytes and not on the chunks; an incomplete file is reported; no spill file is left |
| `lines` | queue of 1, two lines and one line, a cancellation; 1,090,991 states | refinement of `LineDelivery`, nothing left behind, a closed or expired stream comes to its end |
| `handle` | 2 callers, owned group, five operations; 213,674 states | one settlement that observers, hooks and callers agree on, refinement of `OneOutcome`, an answer for every caller |
| `pipeline` | 2 stages, 2 cancellations, with and without group, heartbeat and deadline; 453,524 states | no stage left running and nothing left open, every planned stage settled, session and observers told the same, owned groups reclaimed, the first failure named, and the run ends |
| `pump` | 3 chunks over pipes of 1, 2 cancellations, every backend; 47,607 states | the worker keeps its descriptors until it is done, the reader is resumed or closed, no chunk is lost, the hop ends |
| `delivery` | 4 chunks (one fills the queue, one is empty), capacity 2; 130,353 states | queue bound and FIFO, no silent loss, closing frame last, one report that stays true, and a teardown that ends |
| `concurrent` | 3 commands, limits 0 to 2, both modes, four setups of scopes and registrations; 314,078 states | every task's policy is that of its open blocks, the result is truthful, places are neither lost nor exceeded, a batch being cancelled ends |
| `observed` | 2,004 requests; 439,116 states | nothing leaked, what observers are told of launch and end is what happened, arguments, redaction rules and side hooks do what the caller supplied them for, the log honest, every request answered |

Deadlock is checked for `wait4`. The other systems come to rest when every call has
returned.

### Bounds

* One child per model: children share no state. Two exit codes tell a real code from
  another one; the placeholder and `None` are separate values.
* Two descendants: one that dies with the child and one that does not, one that may
  be signalled and one that may not, one that forks the other.
* Two callers of a handle: two that compete; the theorems hold for any number. Two stages: one
  that can fail fast and the last one, which cannot; they exit together, alone, or because
  they were stopped. The theorems hold for any number.
* Two cancellations: one that starts a cleanup and one that interrupts it. In `lines` one,
  since closing the stream already is the first.
* Four chunks with capacity two: full, one too many, larger than the rest, and empty. Three
  chunks over pipes of one: one buffered by the transport, one in the pipe, one to come.
* Five bytes against a tail of three, lines of two and an echo of four: a character of two or
  three bytes lies across every boundary there is.
* Graces of two and one: every countdown can be at zero while another is not.
* `observed` explores each part's requests (refused, launches, environments, entry points,
  observers, logs, builders, redaction, side channels) by themselves and not their product;
  `Base` in `MCObservedRun` is what the others stay at. Texts have three letters, paths two
  segments, the clock four ticks.

### Fairness

The event loop runs ready tasks, threads that can run do run, and timers fire: weak
fairness of the steps of coroutines and threads. `threading.Lock` and the stop lock are
repeatedly free but not continuously, so their acquisition is strongly fair; holders always
release them. The kernel lets a process die of a fatal signal, and a child somebody waits
for is reaped. In `PipelineRun` one weak fairness covers the coroutine and its timer, without
the steps that cancel it. Nothing else is assumed: no child need exit by itself, no caller
need call or be cancelled, no descendant need be reaped, no destination need return, no
producer need yield, no consumer need pull. The exception is `ObservedRun`, where the child's
life is one step: the child ends or is ended, and a hook's task ends, since the drain waits for
such tasks without a bound.

## Proofs

Every theorem has the form `Spec => []P` (`StopSpec`, `CommandSpec`, `LineSpec` and `DrainSpec` in the
modules that share a proof module with another specification), by an inductive invariant that TLC checked first,
except the two refinements and the action property `ReportIsFinal`, which use the same invariants.
The constants are arbitrary: any number of callers, stages, commands, cancellations, lines, chunks and
reclaims, any capacity, size, grace, limit, descriptor number, request, scope and registration that the
assumptions admit. TLC evaluates each assumption on the run's instance.

| Module | Specifications, and what is assumed of their constants | Inductive invariant | Theorems |
| --- | --- | --- | --- |
| `ChildProofs` | `Wait4Process`: codes, `None` and the placeholder differ | the lock is held exactly in the sections that collect, publish or signal (`LockInv`); what is published is the real code (`CodeInv`); without a foreign reaper, a collected child without a published code is inside such a section (`OwnerInv`) | `TypeCorrect`, `SignalsReachOnlyTheChild`, `CollectionIsUnique`, `RefusalsAreTruthful`, `WaitsAreTruthful` and their conjunction `ExitIsKnownOnce` |
| | `GroupTeardown`: the child is not its own descendant | phases and accepted signals agree (`SignalInv`); an emptied group stays empty, so what a probe saw is still true at the return (`SettledInv`); for the last theorem also that an accepted SIGKILL dooms everyone reached | `StopTypeCorrect`, `SilenceIsSettlement`, `OutcomesAreTruthful`, `EscalationLeavesNoSurvivor` |
| `StreamProofs` | `StdinWriter`: graces are naturals, the slack is positive | what is left of the run's budget covers what is left of the writer's cleanup at each of its awaits (`CleanupFits`); a finalizer exists only past the pipe (`FinalizerOnlyAfterPipe`); until the body is left there is no cause, report or chunk error (`NothingWrongYet`) | `BudgetSuffices`, `EverythingReleased` and their conjunction `WriterIsReclaimed`, `FailuresAreNamed` |
| | `LineStream`: the capacity is positive, line counts and cancellations are naturals | the generator outlives the coordinator (`Bracket`), which ends without an outcome only when it was cancelled (`Unpublished`); what is done with at each of its awaits (`Quiet`); the queued lines of a stream continue the seen ones without a gap, up to the last line taken unless a settlement has started, and a result is behind all of them (`Order`, `Ends`) | `LineTypesCorrect`, `StreamLeavesNothing`, `DeliveryRefined` |
| `OutputProofs` | `StreamDrain`: kinds of capture, codecs and flags are the ones there are, bounds are naturals | where the bytes are at every await, in memory or in the file (`Held`, `Contents`); the handle the cleanup closes answers for whatever is on disk (`Answered`) | `CaptureIsComplete`, `SpillIsReclaimed` |
| | `BoundedDelivery`: sizes are naturals, capacity is positive | a worker that outlives the close result is abandoned, and one past its abandonment check holds the lock the finalizer needs (`ProtocolInv`); what the worker holds is accounted for (`HoldingInv`); the writes begun, the item held and, until delivery is given up, the queue are in this order the accepted chunks (`OrderInv`); the byte counter is the last of non-decreasing running totals over the queue (`BytesInv`) | `TypeCorrect`, `NothingLostSilently`, `ClosingFrameIsLast` and their conjunction `DeliveryIsAccounted`, `WritesInOrder`, `QueueStaysBounded`, `PublishedOnce` and their conjunction `QueueIsDisciplined`, `ReportStaysTrue` |
| `CommandProofs` | `CommandRun`: the number of cancellations is a natural | which awaits a mode and a source can reach (`Placed`); what the state of the exit wait tells about child and deadline (`ExitInv`); what is done with at each await (`Settled`); what an error on its way out, or its absence, is owed to (`Blamed`) | `CommandTypeCorrect`, `RunLeavesNothing`, `OutcomeIsTruthful` |
| | `ConcurrentRun`, `ScopedContext`: at least one command, the caller is none of them; a registration carries only its own kind's fields (`ConfigAssumption`) | the queue holds each queued command once, and places in use and free ones add up to the limit (`Queue`, `Slots`); an aborting batch has nobody left to start and a cause (`Aborted`); what the caller still awaits (`Awaited`); of every task, its context and the context each open block's token keeps are what the blocks around say (`Sound`), its own blocks are the innermost (`Owned`), and its entries are the open scopes in order (`Matched`) | `BatchIsAccounted`, `PolicyIsOfOpenBlocks` |
| `PipelineRunProofs` | `PipelineRun`: at least two stages | no stage is lost between the pending set, the batch and the codes, recorded codes are true, nobody is stopped before a failure is latched (`IInv`); what is still owned at each await (`Released`); where a stage may run (`Reclaimed`); what session and observers have been told at each await, and where the groups are empty (`Observed`, `Groups`) | `FirstFailureNamedHolds`, `ReleasedHolds`, `NothingLeftOpenHolds`, `StagesReclaimedHolds` and the conjunction of the last two, `RunReclaimedHolds`; `RunAccountedHolds` |
| `HandleSettlementProofs` | `HandleSettlement`: the task and `Nobody` are no callers | the task slot and the kept outcome together show that the settlement was started, so it is started once (`DriverInv`); each place of a caller implies a settlement it holds on to (`CallerInv`); who may escalate (`StopInv`) | `TypeCorrect`, `FinalizedOnce`, `HooksPair`, `ExpiriesAreObserved`, `NobodyLeavesAChild`, their conjunctions `SettlementIsFaithful` and `RunIsSettledOnce`, `EscalatedOnce` (runs without a group), `HandleRefinesOneOutcome` |
| `NativePumpProofs` | `NativePump`: pipes hold something, counts and marks are naturals | which descriptors are open at every step of hop and worker, and who is left to resume the reader once the hop has gone (`Owned`); what the state of the hop tells about its ends (`Ways`); while nothing has gone wrong each chunk that was written is in exactly one of the places on the way (`Carried`) | `DescriptorsAreOwned`, `NoChunkIsLost` |
| `ObservedRunProofs` | `ObservedRun` and its parts: what a request's fields may be (`RequestAssumption`); a descriptor a request names is in the table (`LaunchAssumption`) | who owns each descriptor and what has become of the child at every await (`LeakInv`); the schedule of the heartbeat, the cursor and the frame (`LogInv`); span, counters and terminal event agree with each other and with the run's outcome (`SettleInv`); what was announced is kept through hooks, opening and flushing until the child has it (`StartInv`) | `NothingIsLeaked`, `LogIsHonest`, `ObserversSettleOnce`, `AnnouncedIsStarted` and the conjunction of the last two, `ObserversAreTold` |

A module about two specifications extends both, whose names differ; each of its theorems is about one of
them.

None of the properties is inductive as it stands: most say what holds when a call has
returned, and the invariants say why on the way there. `HandleRefinesOneOutcome` and `DeliveryRefined`
show that the initial states map to initial states and that every action is a step of
`OneOutcome`, or of `LineDelivery`, or a stutter, using the same invariant.

Sequences are reasoned about position by position where that is possible: in `LineStream` each queued line
follows the last seen one or an earlier queued one, and in `BoundedDelivery` the byte count is a running
total. Where a definition is a loop (`Collect`, the hooks gathered from a stack of blocks) it is written as a
recursive function, and `CommandProofs` shows what it computes by `Induct`: a set of numbers with 0
and every successor of a member holds every number, which follows from the library's theorem that `<` is
well-founded. (The library's own induction theorems take an operator, which the installed provers cannot
instantiate.)

Only model-checked:

* liveness (`CallsComplete`, `TeardownReturns`, `RunEnds`, `StreamEnds`, `EveryCallerAnswered`, `HopEnds`,
  `TeardownEnds`, `AbortEnds`, `RunReleased`, `EveryRunAnswered`), because fairness is out of the prover's
  reach;
* `TextExact` of `StreamDrain`: it compares decoder, line splitter, echo and tail, which are loops over
  bytes, with references over the whole stream;
* `InputsHonoured` of `ObservedRun`: how a tool reads an argument vector, which letters a rule covers, and
  how often a hook is in a ring. These are facts about filtered, sorted and counted data, and no
  interleaving matters to the first two.


## What the models showed

Where the code does not do what a comment or a guide says, the property of the run names the
exception, so that it holds with it and fails without it.

Processes left or reached wrongly:

* After a failed spawn in a pipeline the heartbeat is stopped without a shield before the
  started stages are terminated (`_pipeline_spawn.py:274`). A cancellation there skips the
  termination, which was to lose "neither a started process nor a capture task"
  (`_pipeline_spawn.py:8-10`). The same happens at the zero wait and the heartbeat's stop
  of a deadline that was over at the start, where the cancellation replaces the `TimeoutError`
  whose handler terminates the stages (`StagesReclaimed`).
* `run()` leaves its child when a start hook raises (`_subprocess_spawn.py:241`; `NothingLeaked`);
  `start()` stops it.
* After a SIGKILL of the group the child is awaited without a bound because its exit "always
  arrives" (`_process_signal.py:299-301`). If the child runs as another user and a descendant
  does not, `killpg` succeeds without reaching the child, and the wait never ends
  (`TeardownReturns` asks for a child that may be signalled).
* A cancelled or expired streamed run settles its readers first when it is cut while
  collecting them (`_subprocess_stream_exit.py:110-116`, `_subprocess_rendezvous.py:147`), where
  `docs/users-guide.md:2684-2687` has settlement decided by the group.
* "Every route that escalates must take the same lock" (`_process_handle/tasks.py:85-90`), but the
  settlement of a run with its own group stops it without that lock (`coordinator.py:94`), inside
  the grace window of a caller's `terminate`.

Results and reports:

* An expiry after the child's exit raises `TimeoutExpired` without a report
  (`_subprocess_stream_run.py:187-213`); "every expiry writes a structured `WARNING` record"
  (`docs/users-guide.md:2769`). A hook that raises on the exit event of an expired run replaces
  the `TimeoutExpired` (`_subprocess_timeout.py:206`). A `TimeoutError` of the stdin writer is
  reported as the run's own expiry (`OutcomeTruthful`).
* `_publish` sets the code before the usage (`_wait4_process.py:248`). A waiter woken by the poll of the
  code can assemble its result in between, without the measurement that
  `docs/cuprum-design.md:4880` says is reported.
* A deadline that fires between the reaper's `wait4` and the publication of the code is recorded
  against a child that has exited (`settlement.py:277`), which `settlement.py:236-237` excludes.
* A spill write that fails while the drain is being cancelled is swallowed
  (`_capture_file.py:312`; `CompleteUnlessReported`). A bounded capture is called "always a suffix"
  (`capture_policy.py:29-30`), but a trailing incomplete character is trimmed as well
  (`_capture_decode.py:275`).
* With `fail_fast`, a batch whose caller is cancelled in the moment a command fails returns its
  result (`concurrent.py:167-173`), and a queued command may start after the first failure.
* An observe hook that raises on a stdin event is reported as a failure of the pipe
  (`_subprocess_stdin_stream.py:216-226`). If it raises a broken pipe, a stream's writer takes it for
  the child's early close (line 220), and a payload's writer ends well after any `OSError` or
  `RuntimeError` of it (`_subprocess_stdin.py:129`; `FailureNamed` leaves hooks out).

Observers and the log:

* When closing the sink session raises, or a pipeline is cancelled while it, or the delivery worker,
  is being closed, the settled events, and on some paths the drain of the hook tasks, are
  skipped (`_command_finalization.py:119,167`; `RunAsTold`, `EveryStageSettled`), though
  "each planned observation emits one `settled` event" (`docs/developers-guide.md:3253`). Where
  a pipeline's spawn had failed the observers then know of the error, and the session is told of
  the cancellation (`OneStory`).
* The environment the events announce is resolved before the before hooks, the child's after
  them (`_command_internals.py:120`, `_context_policy.py:73`; `RunAsTold`).
* A GitHub Actions session writes its closing `::token::` without looking whether the output ended
  with a newline (`sinks/github_actions.py:255`), so the runner does not see it (`torn` in `LogHonest`).
* The capture, line-stream and control channels close a returned coroutine without a guard
  (`capture_observation.py:164`, `line_stream_observation.py:120`, `control_observation.py:235`); a coroutine
  whose close raises does replace the operation's outcome, against
  `control_observation.py:121-123` (`SideChannelHonest`).

Streams and resources:

* A backend that cannot be resolved leaves the writer of the hop open
  (`_pipeline_streams.py:343`), so the downstream stage does not meet the end of its input and the run
  may wait for a deadline, where `docs/users-guide.md:3643` has it raise `ImportError` (`NothingLost`).
* `writer.drain()` returns at the high-water mark, so the native worker's newer bytes can overtake
  buffered older ones (`_pipeline_streams.py:270` against its docstring at 259; `NothingLost` therefore
  does not ask for the order).
* A hop that is cancelled may leave its reader paused when the loop closes. `complete_cleanup` comes
  before the callback that resumes the reader, so a grace period that ends between the two finds
  `_cleanup_completed` and does not release it (`_pipeline_native_pump_types.py:60`); a cancellation of
  the shielded wait for the cleanup defers nothing either (`_pipeline_stream_native_cleanup.py:390`).
  If the loop then closes first, the callback is dropped or its `RuntimeError` suppressed (line 256).
  `release` is there because "the paused transport and its descriptor would survive unread and
  unresolved past `loop.close()`" (`_pipeline_stream_fds.py:101-102`; `unwaited` in
  `WorkerOwnsDescriptors`).
* A cancellation while the drains of a line stream are being read leaves its capture sinks
  unreleased, against `_line_stream/captures.py:35-37`, and one while the heartbeat is being stopped after a
  failing start hook leaves the child (`_line_stream/spawn.py:169`), which "cannot leave the spawned
  child behind" (`unittests/test_line_stream_ownership.py:81`; `slipped` in `NothingLeftBehind`).
* In a pipeline: `spawn_idle` and `spawn_stop` leave readers and sinks of a failed spawn; after an
  interrupted `cleanup_stop` the pumps are awaited without being cancelled, for as long as a
  descendant holds a pipe (`RunEnds`); at `gather` a cancellation or a failing reader leaves owned
  groups unsignalled (`OwnedGroupsReclaimed` is about timeouts and cancelled waits only).

## Not modelled

* `Wait4Process`: pipe transports. `GroupTeardown`: reuse of a process group number (a residual the
  code documents), the shielded wrappers around it.
* `HandleSettlement`: a foreign reaper under a handle. A wait with an elapsed deadline that arrives
  while the run is being finalized raises `TimeoutExpired` for a run that settled as a success;
  the property about expiries is about positive deadlines only.
* `CommandRun`, `LineStream`, `PipelineRun`: the contents of outputs, results and reports; a stdin
  writer on a line stream; processes that may not be signalled; in a pipeline, an observer or a
  pump that itself raises `TimeoutError`.
* `NativePump`: Windows handles, `splice` as distinct from read and write, buffer allocation, the cache
  of the backend.
* `StreamDrain`: UTF-32 (UTF-16 with wider units), unbounded echo (a chunk is written as it is).
* `ScopedContext` and `SideObservers`: registrations detached out of order, which the documentation leaves
  to the caller.
* `ObservedRun` and its parts: checks of Python types, wording, titles and escaping, fields and labels
  of events, metrics and spans, and the synchronous wrappers, which run the same coroutines.
* The exit status guard (an `atexit` callback), `scripts/`, `benchmarks/` and the test suites: no
  interleaving or failure of the library is decided there.

## Plan

What is left, in this order:

1. A composition of `CommandRun` with `StdinWriter`, in which the writer's ends are not assumed.
2. Proofs: that the pieces a drain cuts its stream into do not matter (`TextExact`), and that a masked
   text is the reference's (`ExportedSafely`).
