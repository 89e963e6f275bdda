------------------------------ MODULE LineStream ------------------------------
(***************************************************************************)
(* One iteration of SafeCmd.lines(): the generator of                      *)
(* cuprum/_line_iteration.py and its settlement in                         *)
(* _line_stream_finalization.py, the coordinator task of                   *)
(* cuprum/_line_stream/, the two stream readers and the bounded queue      *)
(* between them and the consumer.                                          *)
(*                                                                          *)
(* it is where the generator is suspended, co where the coordinator is.    *)
(* The consumer pulls, stalls, closes the stream or is cancelled as it      *)
(* likes.  The stream has no stdin: the writer and its race against the    *)
(* child's exit are those of CommandRun.  A stop of the child is used as    *)
(* GroupTeardown models it for processes this user may signal.              *)
(***************************************************************************)
EXTENDS Naturals, Sequences

CONSTANTS
    Streams,      \* the child's two output streams
    Capacity,     \* _LINE_QUEUE_CAPACITY
    MaxLines,     \* the lines the child may write to a stream
    MaxCancels    \* how often the consumer's task is cancelled

ASSUME LineStreamAssumption ==
    /\ Capacity \in Nat /\ Capacity > 0
    /\ MaxLines \in [Streams -> Nat]
    /\ MaxCancels \in Nat

VARIABLES
    owned,       \* the child leads a process group of its own
    deadline,    \* "none", "armed", "elapsed" (non-positive) or "passed"
    cancels,     \* cancellations the consumer's task has left
    it,          \* the await or the yield the generator is suspended at
    failure,     \* what ended the generator's body, "exit" for GeneratorExit
    tfail,       \* what its settlement raised, or "none"
    interrupted, \* a cancellation waits for the generator's shielded work
    result,      \* the consumer was handed the CommandResult
    co,          \* the await the coordinator is suspended at
    cerr,        \* the coordinator's exception in flight, or "none"
    ccut,        \* a cancellation waits for the coordinator's shielded work
    future,      \* result_future
    settling,    \* settlement_started
    queue,       \* the line queue
    child,       \* what has become of the direct child
    desc,        \* its descendant: "none" or "holding" the pipes
    out,         \* the number of lines written to every stream
    taken,       \* the number of lines its reader has taken
    reader,      \* what the reader is doing
    seen,        \* the lines of every stream given to the consumer
    sinks,       \* capture sinks are not released
    beat,        \* the idle heartbeat: "off", "armed", "on" or "stopped"
    worker,      \* the delivery worker is open
    session,     \* "none", "open", or the outcome the session was closed with
    slipped      \* a cancellation fell between two cleanups of the coordinator

fixed == << owned >>
iterator == << it, failure, tfail, interrupted, result, cancels >>
coordinator == << co, cerr, ccut, future, settling >>
processes == << child, desc, out >>
lines == << queue, taken, reader, seen >>
resources == << sinks, beat, worker, session >>
lineVars == << fixed, deadline, iterator, coordinator, processes, lines, resources,
           slipped >>

CoShielded ==
    {"kill", "teardown", "finalize", "close_worker", "abandon_kill",
     "abandon_drain"}

CoAwaits ==
    CoShielded \cup {"none", "spawn", "exit", "collect", "read_drains",
                     "put", "abandon_idle", "done"}

\* The generator's awaits after its body, all shielded.
Settling == {"absorb", "drain", "worker", "sink"}
ItAwaits == Settling \cup {"new", "next", "yield", "closed"}

ReaderDone == {"none", "eof", "failed", "cut"}
Published == {"timeout", "error"}

LineInit ==
    /\ owned \in BOOLEAN
    /\ deadline \in {"none", "armed", "elapsed"}
    /\ cancels = MaxCancels
    /\ it = "new"
    /\ failure = "none"
    /\ tfail = "none"
    /\ interrupted = FALSE
    /\ result = FALSE
    /\ co = "none"
    /\ cerr = "none"
    /\ ccut = FALSE
    /\ future = "pending"
    /\ settling = FALSE
    /\ queue = << >>
    /\ child = "none"
    /\ desc = "none"
    /\ out = [s \in Streams |-> 0]
    /\ taken = [s \in Streams |-> 0]
    /\ reader = [s \in Streams |-> "none"]
    /\ seen = [s \in Streams |-> << >>]
    /\ sinks = FALSE
    /\ beat \in {"off", "armed"}
    /\ worker = FALSE
    /\ session = "none"
    /\ slipped = FALSE

-----------------------------------------------------------------------------
\* The child and the clock.

ChildWrites(s) ==
    /\ child = "running"
    /\ out[s] < MaxLines[s]
    /\ out' = [out EXCEPT ![s] = @ + 1]
    /\ UNCHANGED << fixed, deadline, iterator, coordinator, child, desc, lines,
                    resources, slipped >>

\* It may leave a descendant that holds its pipes.
ChildExits ==
    /\ child = "running"
    /\ child' = "exited"
    /\ desc' \in {"none", "holding"}
    /\ UNCHANGED << fixed, deadline, iterator, coordinator, out, lines,
                    resources, slipped >>

DescendantExits ==
    /\ desc = "holding"
    /\ desc' = "none"
    /\ UNCHANGED << fixed, deadline, iterator, coordinator, child, out, lines,
                    resources, slipped >>

TimePasses ==
    /\ deadline = "armed"
    /\ child # "none"
    /\ deadline' = "passed"
    /\ UNCHANGED << fixed, iterator, coordinator, processes, lines, resources,
                    slipped >>

-----------------------------------------------------------------------------
\* The readers, and the hook that feeds the queue.

HasRoom == Len(queue) < Capacity

\* The queue holds line events and, last, the result.
Line(s, n) == [kind |-> "line", stream |-> s, number |-> n]
Result == [kind |-> "result"]

NextLine(s) == Line(s, taken[s] + 1)

\* Fault: the line that finds the queue full is let go.
ReadLineDropping(s) ==
    /\ reader[s] = "reading"
    /\ taken[s] < out[s]
    /\ taken' = [taken EXCEPT ![s] = @ + 1]
    /\ queue' = IF ~ settling /\ HasRoom THEN Append(queue, NextLine(s))
                                         ELSE queue
    /\ UNCHANGED << fixed, deadline, iterator, coordinator, processes, reader,
                    seen, resources, slipped >>

\* The next line is read.  Once the settlement has started it is not
\* published; a full queue makes the reader wait.
ReadLine(s) ==
    /\ reader[s] = "reading"
    /\ taken[s] < out[s]
    /\ CASE settling -> /\ taken' = [taken EXCEPT ![s] = @ + 1]
                        /\ UNCHANGED << queue, reader >>
         [] ~ settling /\ HasRoom ->
                        /\ taken' = [taken EXCEPT ![s] = @ + 1]
                        /\ queue' = Append(queue, NextLine(s))
                        /\ UNCHANGED reader
         [] ~ settling /\ ~ HasRoom ->
                        /\ reader' = [reader EXCEPT ![s] = "putting"]
                        /\ UNCHANGED << queue, taken >>
    /\ UNCHANGED << fixed, deadline, iterator, coordinator, processes, seen,
                    resources, slipped >>

\* _wait_for_line_slot_or_settlement: a slot, or the settlement.
PutLine(s) ==
    /\ reader[s] = "putting"
    /\ \/ HasRoom /\ queue' = Append(queue, NextLine(s))
       \/ settling /\ UNCHANGED queue
    /\ taken' = [taken EXCEPT ![s] = @ + 1]
    /\ reader' = [reader EXCEPT ![s] = "reading"]
    /\ UNCHANGED << fixed, deadline, iterator, coordinator, processes, seen,
                    resources, slipped >>

ReaderEnds(s) ==
    /\ reader[s] = "reading"
    /\ taken[s] = out[s]
    /\ child # "running"
    /\ desc # "holding"
    /\ reader' = [reader EXCEPT ![s] = "eof"]
    /\ UNCHANGED << fixed, deadline, iterator, coordinator, processes, queue,
                    taken, seen, resources, slipped >>

\* The caller's on_line callback, the relay or the capture failed.
ReaderFails(s) ==
    /\ reader[s] = "reading"
    /\ reader' = [reader EXCEPT ![s] = "failed"]
    /\ UNCHANGED << fixed, deadline, iterator, coordinator, processes, queue,
                    taken, seen, resources, slipped >>

-----------------------------------------------------------------------------
\* The coordinator's steps.

coLeaves == << fixed, deadline, iterator, worker, session >>

Stop ==
    /\ child' = IF child = "running" THEN "killed" ELSE child
    /\ desc' = IF owned THEN "none" ELSE desc
    /\ UNCHANGED out

SettleGroup == IF owned THEN Stop ELSE UNCHANGED processes

CutReaders ==
    reader' = [s \in Streams |-> IF reader[s] \in ReaderDone THEN reader[s]
                                                             ELSE "cut"]

StopIdle == beat' = IF beat = "on" THEN "stopped" ELSE beat

\* The exception of a shielded await of the coordinator.
CoRaised == IF ccut THEN "cancelled" ELSE cerr

\* The coordinator ends: a failure is published, a cancellation is not.
Publish(e) ==
    /\ co' = "done"
    /\ cerr' = e
    /\ future' = IF e \in Published /\ future = "pending" THEN e ELSE future

SpawnFails ==
    /\ co = "spawn"
    /\ Publish("error")
    /\ child' \in {"none", "killed"}
    /\ UNCHANGED << coLeaves, ccut, settling, desc, out, lines, sinks, beat,
                    slipped >>

\* The child, the readers and the heartbeat exist; the start event comes next,
\* before anything else runs.
Spawned ==
    /\ co = "spawn"
    /\ child' = "running"
    /\ reader' = [s \in Streams |-> "reading"]
    /\ sinks' = TRUE
    /\ beat' = IF beat = "armed" THEN "on" ELSE beat
    /\ UNCHANGED << coLeaves, ccut, future, desc, out, queue, taken, seen,
                    slipped >>

\* A deadline that has already elapsed begins with the stop.
Start ==
    /\ Spawned
    /\ IF deadline = "elapsed"
       THEN co' = "kill" /\ cerr' = "timeout"
       ELSE co' = "exit" /\ UNCHANGED cerr
    /\ UNCHANGED settling

\* A start hook raised: _abandon_unstarted_run stops the heartbeat first.
StartHookFails ==
    /\ Spawned
    /\ cerr' = "error"
    /\ settling' = TRUE
    /\ co' = IF beat = "armed" THEN "abandon_idle" ELSE "abandon_kill"

AbandonIdle ==
    /\ co = "abandon_idle"
    /\ StopIdle
    /\ co' = "abandon_kill"
    /\ UNCHANGED << coLeaves, cerr, ccut, future, settling, processes, lines,
                    sinks, slipped >>

\* A cancellation held back by the shield leaves before the drain.
AbandonKill ==
    /\ co = "abandon_kill"
    /\ Stop
    /\ IF ccut
       THEN Publish("cancelled") /\ slipped' = TRUE
       ELSE co' = "abandon_drain" /\ UNCHANGED << cerr, future, slipped >>
    /\ UNCHANGED << coLeaves, ccut, settling, lines, sinks, beat >>

\* _discard_drain.
AbandonDrain ==
    /\ co = "abandon_drain"
    /\ CutReaders
    /\ sinks' = FALSE
    /\ Publish(CoRaised)
    /\ UNCHANGED << coLeaves, ccut, settling, processes, queue, taken, seen,
                    beat, slipped >>

ExitSeen ==
    /\ co = "exit"
    /\ child # "running"
    /\ co' = "collect"
    /\ StopIdle
    /\ UNCHANGED << coLeaves, cerr, ccut, future, settling, processes, lines,
                    sinks, slipped >>

ExitExpires ==
    /\ co = "exit"
    /\ deadline = "passed"
    /\ co' = "kill"
    /\ cerr' = "timeout"
    /\ UNCHANGED << coLeaves, ccut, future, settling, processes, lines, sinks,
                    beat, slipped >>

\* _run_line_stream_teardown announces the settlement before its work.
EnterTeardown(e) == co' = "teardown" /\ cerr' = e /\ settling' = TRUE

ExitStopped ==
    /\ co = "kill"
    /\ Stop
    /\ EnterTeardown(CoRaised)
    /\ ccut' = FALSE
    /\ UNCHANGED << coLeaves, future, lines, sinks, beat, slipped >>

\* Fault: a failed collection drains the readers but leaves the sinks.
TeardownKeepsSinks ==
    /\ co = "teardown"
    /\ SettleGroup
    /\ StopIdle
    /\ CutReaders
    /\ UNCHANGED sinks
    /\ Publish(CoRaised)
    /\ UNCHANGED << coLeaves, ccut, settling, queue, taken, seen, slipped >>

\* The group, the heartbeat, the readers and the sinks, under one shield.
Teardown ==
    /\ co = "teardown"
    /\ SettleGroup
    /\ StopIdle
    /\ CutReaders
    /\ sinks' = FALSE
    /\ Publish(CoRaised)
    /\ UNCHANGED << coLeaves, ccut, settling, queue, taken, seen, slipped >>

ReadersDone == \A s \in Streams : reader[s] = "eof"

\* Fault: the readers are awaited with no bound of their own.
CollectUnbounded ==
    /\ co = "collect"
    /\ \/ ReadersDone /\ co' = "read_drains" /\ UNCHANGED << cerr, settling >>
       \/ (\E s \in Streams : reader[s] = "failed") /\ EnterTeardown("error")
    /\ UNCHANGED << coLeaves, ccut, future, processes, lines, sinks, beat,
                    slipped >>

\* _await_consumers: everything was read, a reader failed, or time is up.
Collect ==
    /\ co = "collect"
    /\ \/ ReadersDone /\ co' = "read_drains" /\ UNCHANGED << cerr, settling >>
       \/ (\E s \in Streams : reader[s] = "failed") /\ EnterTeardown("error")
       \/ deadline = "passed" /\ EnterTeardown("timeout")
    /\ UNCHANGED << coLeaves, ccut, future, processes, lines, sinks, beat,
                    slipped >>

\* _read_consumed_drains gathers the finished readers again.
ReadDrains ==
    /\ co = "read_drains"
    /\ co' = "finalize"
    /\ UNCHANGED << coLeaves, cerr, ccut, future, settling, processes, lines,
                    sinks, beat, slipped >>

\* _finalize_line_stream_captures.
Finalize ==
    /\ co = "finalize"
    /\ sinks' = FALSE
    /\ IF ccut THEN Publish("cancelled")
               ELSE co' = "close_worker" /\ UNCHANGED << cerr, future >>
    /\ UNCHANGED << coLeaves, ccut, settling, processes, lines, beat, slipped >>

\* The worker is closed and the exit event emitted, whose hook may raise.
CloseWorker ==
    /\ co = "close_worker"
    /\ worker' = FALSE
    /\ \/ ccut /\ Publish("cancelled")
       \/ ~ ccut /\ Publish("error")
       \/ ~ ccut /\ co' = "put" /\ UNCHANGED << cerr, future >>
    /\ UNCHANGED << fixed, deadline, iterator, ccut, settling, processes,
                    lines, sinks, beat, session, slipped >>

\* The result follows the last line, when the queue has room for it.
PutResult ==
    /\ co = "put"
    /\ HasRoom
    /\ queue' = Append(queue, Result)
    /\ future' = "result"
    /\ co' = "done"
    /\ UNCHANGED << coLeaves, cerr, ccut, settling, processes, taken, reader,
                    seen, sinks, beat, slipped >>

\* The generator cancels the coordinator; what that does depends on the await
\* it is delivered at.
CancelCoordinator ==
    CASE co = "spawn" ->
           /\ Publish("cancelled")
           /\ child' \in {"none", "killed"}
           /\ UNCHANGED << ccut, settling, desc, out, slipped >>
      [] co = "exit" ->
           /\ co' = "kill" /\ cerr' = "cancelled"
           /\ UNCHANGED << ccut, future, settling, processes, slipped >>
      [] co = "collect" ->
           /\ EnterTeardown("cancelled")
           /\ UNCHANGED << ccut, future, processes, slipped >>
      [] co \in {"read_drains", "abandon_idle"} ->
           /\ Publish("cancelled")
           /\ slipped' = TRUE
           /\ UNCHANGED << ccut, settling, processes >>
      [] co = "put" ->
           /\ Publish("cancelled")
           /\ UNCHANGED << ccut, settling, processes, slipped >>
      [] co \in CoShielded ->
           /\ ccut' = TRUE
           /\ UNCHANGED << co, cerr, future, settling, processes, slipped >>

-----------------------------------------------------------------------------
\* The generator.

\* The first pull is refused, or a plan or before hook raises, before there is
\* a coordinator: what was opened by then is settled.
StartFails ==
    /\ it = "new"
    /\ failure' = "error"
    /\ \/ it' = "sink" /\ session' \in {"none", "open"} /\ UNCHANGED worker
       \/ it' = "worker" /\ session' = "open" /\ UNCHANGED worker
       \/ it' = "drain" /\ session' = "open" /\ worker' = TRUE
    /\ UNCHANGED << fixed, deadline, tfail, interrupted, result, cancels,
                    coordinator, processes, lines, sinks, beat, slipped >>

FirstPull ==
    /\ it = "new"
    /\ it' = "next"
    /\ session' = "open"
    /\ worker' = TRUE
    /\ co' = "spawn"
    /\ UNCHANGED << fixed, deadline, failure, tfail, interrupted, result,
                    cancels, cerr, ccut, future, settling, processes, lines,
                    sinks, beat, slipped >>

Pull ==
    /\ it = "yield"
    /\ it' = "next"
    /\ UNCHANGED << fixed, deadline, failure, tfail, interrupted, result,
                    cancels, coordinator, processes, lines, resources, slipped >>

\* The coordinator has published an outcome; nobody cancels it.
EndBody(e) ==
    /\ failure' = e
    /\ it' = "absorb"
    /\ UNCHANGED << coordinator, processes, slipped >>

\* _next_queue_item.  A published failure is raised though lines are queued.
TakeFailure ==
    /\ it = "next"
    /\ future \in Published
    /\ EndBody(future)
    /\ UNCHANGED << fixed, deadline, tfail, interrupted, result, cancels, lines,
                    resources >>

TakeLine ==
    /\ it = "next"
    /\ future \notin Published
    /\ queue # << >>
    /\ Head(queue).kind = "line"
    /\ LET line == Head(queue)
       IN  seen' = [seen EXCEPT ![line.stream] = Append(@, line.number)]
    /\ queue' = Tail(queue)
    /\ it' = "yield"
    /\ UNCHANGED << fixed, deadline, failure, tfail, interrupted, result,
                    cancels, coordinator, processes, taken, reader, resources,
                    slipped >>

\* The result ends the iteration, unless an after hook raises, and the stream
\* closes itself: a GeneratorExit at the last yield.
TakeResult ==
    /\ it = "next"
    /\ future \notin Published
    /\ queue # << >>
    /\ Head(queue).kind = "result"
    /\ queue' = Tail(queue)
    /\ \/ result' = TRUE /\ EndBody("exit")
       \/ UNCHANGED result /\ EndBody("error")
    /\ UNCHANGED << fixed, deadline, tfail, interrupted, cancels, taken, reader,
                    seen, resources >>

\* aclose() before the first pull has nothing to settle.
CloseUnused ==
    /\ it = "new"
    /\ it' = "closed"
    /\ UNCHANGED << fixed, deadline, failure, tfail, interrupted, result,
                    cancels, coordinator, processes, lines, resources, slipped >>

\* aclose() at a yield, or a cancellation of the pull: the coordinator is
\* cancelled unless it has published its outcome.
Leave ==
    /\ \/ it = "yield" /\ failure' = "exit" /\ UNCHANGED cancels
       \/ /\ it = "next" /\ cancels > 0
          /\ failure' = "cancelled" /\ cancels' = cancels - 1
    /\ it' = "absorb"
    /\ IF future = "pending"
       THEN CancelCoordinator
       ELSE UNCHANGED << coordinator, processes, slipped >>
    /\ UNCHANGED << fixed, deadline, tfail, interrupted, result, lines,
                    resources >>

CancelSettlement ==
    /\ it \in Settling
    /\ cancels > 0
    /\ cancels' = cancels - 1
    /\ interrupted' = TRUE
    /\ UNCHANGED << fixed, deadline, it, failure, tfail, result, coordinator,
                    processes, lines, resources, slipped >>

\* The end of one shielded await of the settlement.
Settled(next, raised) ==
    /\ it' = next
    /\ tfail' = IF interrupted THEN "cancelled" ELSE raised
    /\ interrupted' = FALSE
    /\ UNCHANGED << fixed, deadline, failure, result, cancels, coordinator,
                    processes, lines, sinks, beat, slipped >>

\* _absorb_coordinator raises a failure that was published after all.
Absorb ==
    /\ it = "absorb"
    /\ co = "done"
    /\ Settled("drain", IF future \in Published THEN future ELSE "none")
    /\ UNCHANGED << worker, session >>

\* The observe-hook tasks; a failing one surfaces unless an error is active.
Drain ==
    /\ it = "drain"
    /\ \/ Settled("worker", tfail)
       \/ failure = "exit" /\ tfail = "none" /\ Settled("worker", "error")
    /\ UNCHANGED << worker, session >>

CloseDelivery ==
    /\ it = "worker"
    /\ worker' = FALSE
    /\ Settled("sink", tfail)
    /\ UNCHANGED session

\* _line_stream_outcome, for a child that exited zero.
Outcome ==
    CASE failure # "exit" -> failure
      [] failure = "exit" /\ result /\ tfail = "none" -> "ok"
      [] failure = "exit" /\ tfail # "none" -> tfail
      [] OTHER -> "cancelled"

CloseSink ==
    /\ it = "sink"
    /\ session' = IF session = "open" THEN Outcome ELSE session
    /\ Settled("closed", tfail)
    /\ UNCHANGED worker

-----------------------------------------------------------------------------
CoSteps ==
    \/ Start \/ SpawnFails \/ StartHookFails
    \/ AbandonIdle \/ AbandonKill \/ AbandonDrain
    \/ ExitSeen \/ ExitExpires \/ ExitStopped \/ Teardown
    \/ Collect \/ ReadDrains \/ Finalize \/ CloseWorker \/ PutResult

SettleSteps == Absorb \/ Drain \/ CloseDelivery \/ CloseSink

ReaderSteps(s) ==
    ReadLine(s) \/ PutLine(s) \/ ReaderEnds(s) \/ ReaderFails(s)

Consumer ==
    \/ FirstPull \/ StartFails \/ Pull \/ TakeFailure \/ TakeLine \/ TakeResult
    \/ CloseUnused \/ Leave \/ CancelSettlement

Environment ==
    \/ ChildExits \/ DescendantExits
    \/ \E s \in Streams : ChildWrites(s) \/ ReaderSteps(s)

LineNext == CoSteps \/ SettleSteps \/ Consumer \/ Environment \/ TimePasses

LineSpec == LineInit /\ [][LineNext]_lineVars

\* The event loop runs the coordinator and the settlement of a stream that is
\* being closed, and the clock moves.  Nothing is assumed of the child, the
\* pipes, the readers' callbacks or a consumer that stalls.
LineFairSpec ==
    /\ LineSpec
    /\ WF_lineVars(CoSteps)
    /\ WF_lineVars(SettleSteps)
    /\ WF_lineVars(TimePasses)

-----------------------------------------------------------------------------
LD == INSTANCE LineDelivery WITH
    written <- out,
    ended <- IF result THEN "complete"
             ELSE IF it \in Settling \cup {"closed"} THEN "cut" ELSE "open"

\* The consumer sees every stream's lines in order, none twice and none left
\* out, and is handed a result only after the last line of both: the readers,
\* the full queue, the settlement and the coordinator implement LineDelivery.
ImplementsLineDelivery == LD!Spec

\* A stream that has been closed, or has closed itself, leaves nothing of its
\* run behind: no child, no reader, no heartbeat, no capture sink, no delivery
\* worker, no open session and no coordinator; except where a cancellation
\* fell between two cleanups of the coordinator.
NothingLeftBehind ==
    it = "closed" =>
        /\ co \in {"none", "done"}
        /\ ~ worker
        /\ session # "open"
        /\ \/ slipped
           \/ /\ child # "running"
              /\ \A s \in Streams : reader[s] \in ReaderDone
              /\ beat # "on"
              /\ ~ sinks

\* A deadline ends the run though the consumer has stopped pulling and the
\* queue is full; and a stream that is being closed is closed.
StreamEnds ==
    /\ (it \in Settling) ~> (it = "closed")
    /\ (deadline # "none" /\ child = "running") ~>
           (slipped \/ (child # "running" /\ \A s \in Streams :
                            reader[s] \in ReaderDone))
=============================================================================
