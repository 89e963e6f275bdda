---------------------------- MODULE StdinWriter ----------------------------
(***************************************************************************)
(* The task that feeds a child's stdin and the way the run takes it back:  *)
(* cuprum/_subprocess_stdin.py, _subprocess_stdin_stream.py,               *)
(* _subprocess_stdin_write.py, _subprocess_stdin_finalize.py and           *)
(* _subprocess_stdin_reclaim.py.                                           *)
(*                                                                         *)
(* pc is the await the writer is suspended at.  The producer and its       *)
(* finalizer are the caller's code: they may take any time, fail, or       *)
(* swallow a cancellation.  Every bounded wait is a countdown in units of  *)
(* the settle grace; time moves only when no countdown is at zero, and     *)
(* countdowns that reach zero together are served in any order.            *)
(***************************************************************************)
EXTENDS Naturals

CONSTANTS CloseGrace,   \* _CLOSE_GRACE_S
          SettleGrace,  \* _STDIN_SETTLE_GRACE_S
          Slack,        \* _STDIN_RECLAIM_SCHEDULING_GRACE_S
          MaxReclaims   \* bound: how often the run reclaims the writer

ASSUME GraceAssumption == /\ CloseGrace \in Nat /\ SettleGrace \in Nat
                          /\ Slack \in Nat \ {0} /\ MaxReclaims \in Nat

VARIABLES
    kind,       \* "payload", or "stream" with a producer
    manners,    \* the producer, when cancelled: "prompt" or "stubborn"
    hook,       \* the iterator's aclose: "none", "broken" or "any"
    pc,         \* the writer
    built,      \* the producer's iterator exists
    text,       \* the encoder was built, so it may hold a tail
    chunkError, \* _StreamSink._chunk_error
    ending,     \* how the writer's task is about to end
    report,     \* the boundary its failure was reported as
    cause,      \* what really went wrong
    pipe,       \* the transport: "open", "closing", "closed" or "aborted"
    timer,      \* the writer's countdown
    finalizer,  \* the task that runs aclose
    run,        \* the run that owns the writer
    budget,     \* its countdown
    reclaims,   \* reclaims it has left
    swallowed   \* the producer has swallowed a cancellation

setup == <<kind, manners, hook>>
vars == <<setup, pc, built, text, chunkError, ending, report, cause, pipe, timer,
          finalizer, run, budget, reclaims, swallowed>>

Body == {"pull", "drain", "flush"}
WriterAwaits == Body \cup {"start", "close", "finalize", "reclaim", "ended"}
Endings == {"ok", "failed", "cancelled"}
Boundaries == {"none", "producer", "invalid", "encoder", "pipe", "early"}

TypeOK ==
    /\ kind \in {"payload", "stream"} /\ manners \in {"prompt", "stubborn"}
    /\ hook \in {"none", "broken", "any"}
    /\ pc \in WriterAwaits /\ built \in BOOLEAN /\ text \in BOOLEAN
    /\ chunkError \in {"none", "invalid", "encoder"}
    /\ ending \in Endings
    /\ report \in Boundaries /\ cause \in Boundaries \cup {"hook"}
    /\ pipe \in {"open", "closing", "closed", "aborted"}
    /\ timer \in Nat /\ budget \in Nat /\ reclaims \in 0..MaxReclaims
    /\ finalizer \in {"none", "running", "asked", "done"}
    /\ run \in {"waiting", "settling", "reclaiming", "over"}
    /\ swallowed \in BOOLEAN

\* A payload's bytes are in the transport from the first step.
Init ==
    /\ kind \in {"payload", "stream"} /\ manners \in {"prompt", "stubborn"}
    /\ hook \in {"none", "broken", "any"}
    /\ kind = "payload" => manners = "prompt" /\ hook = "none"
    /\ pc = IF kind = "payload" THEN "drain" ELSE "start"
    /\ built = FALSE /\ text = FALSE /\ chunkError = "none" /\ ending = "ok"
    /\ report = "none" /\ cause = "none"
    /\ pipe = "open" /\ timer = 0 /\ finalizer = "none"
    /\ run = "waiting" /\ budget = 0 /\ reclaims = MaxReclaims
    /\ swallowed = FALSE

owner == <<run, budget, reclaims>>

(* ------------------------- the end of the writer ------------------------ *)

\* _close_stdin begins: the finally of both writers.
BeginClose(end) == /\ pc' = "close" /\ ending' = end
                   /\ pipe' = "closing" /\ timer' = CloseGrace

\* _finalize_stdin_source: nothing to close, a hook that raises on entry, or a
\* task of its own with one settle grace.
BeginFinalize(end) ==
    /\ ending' = end
    /\ IF built /\ hook = "any"
       THEN pc' = "finalize" /\ finalizer' = "running" /\ timer' = SettleGrace
       ELSE pc' = "ended" /\ UNCHANGED <<timer, finalizer>>

\* The reader's end is gone, or all was read; an error here is only reported.
CloseCompletes ==
    /\ pc = "close" /\ pipe' = "closed"
    /\ BeginFinalize(ending)
    /\ UNCHANGED <<setup, built, text, chunkError, report, cause, owner, swallowed>>

\* _abort_stdin_transport after the grace.
CloseExpires ==
    /\ pc = "close" /\ timer = 0 /\ pipe' = "aborted"
    /\ BeginFinalize(ending)
    /\ UNCHANGED <<setup, built, text, chunkError, report, cause, owner, swallowed>>

\* aclose returns or raises, in its window, while it is reclaimed, or later.
FinalizerEnds ==
    /\ finalizer \in {"running", "asked"} /\ finalizer' = "done"
    /\ pc' = IF pc \in {"finalize", "reclaim"} THEN "ended" ELSE pc
    /\ UNCHANGED <<setup, built, text, chunkError, ending, report, cause, pipe, timer,
                   owner, swallowed>>

\* The window is over: the finalizer is cancelled and given one grace more.
FinalizeExpires ==
    /\ pc = "finalize" /\ timer = 0
    /\ pc' = "reclaim" /\ finalizer' = "asked" /\ timer' = SettleGrace
    /\ UNCHANGED <<setup, built, text, chunkError, ending, report, cause, pipe,
                   owner, swallowed>>

\* A finalizer that swallows the cancellation is left behind.
FinalizerLeft ==
    /\ pc = "reclaim" /\ timer = 0 /\ pc' = "ended"
    /\ UNCHANGED <<setup, built, text, chunkError, ending, report, cause, pipe, timer,
                   finalizer, owner, swallowed>>

(* --------------------------- the writer's body -------------------------- *)

\* The producer is exhausted and the encoder, if there is one, is flushed.
Exhausted ==
    /\ pc = "pull"
    /\ \/ ~text /\ BeginClose("ok")
       \/ text /\ pc' = "flush" /\ UNCHANGED <<ending, pipe, timer>>
    /\ UNCHANGED <<setup, built, text, chunkError, report, cause, finalizer, owner, swallowed>>

\* The handlers of _drain_source_into_pipe, for what went wrong outside the
\* producer: the child closing its end is no failure.
Handle(what) ==
    /\ cause' = what
    /\ report' = CASE what = "early" -> "early"
                   [] what # "early" /\ chunkError' # "none" -> chunkError'
                   [] what # "early" /\ chunkError' = "none" -> "pipe"
    /\ BeginClose(IF what = "early" THEN "ok" ELSE "failed")

\* aiter runs the producer's code in the writer's first step.
StartProducer ==
    /\ pc = "start" /\ pc' = "pull" /\ built' = TRUE
    /\ UNCHANGED <<setup, text, chunkError, ending, report, cause, pipe, timer,
                   finalizer, owner, swallowed>>

\* aiter or anext raises: a _ProducerFailureError whatever it was.
ProducerFails ==
    /\ pc \in {"start", "pull"} /\ cause' = "producer" /\ report' = "producer"
    /\ BeginClose("failed")
    /\ UNCHANGED <<setup, built, text, chunkError, finalizer, owner, swallowed>>

\* Fault: the marker set for the encoder stays when it succeeds.
MarkedForGood == "encoder"

\* _StreamSink.encode restores the marker it found.
Encoded == chunkError

\* _write_chunk: text is encoded, bytes are taken as they are; an empty payload
\* is not written.
PullText ==
    /\ pc = "pull" /\ text' = TRUE /\ chunkError' = Encoded
    /\ pc' \in {"pull", "drain"}
    /\ UNCHANGED <<setup, built, ending, report, cause, pipe, timer, finalizer, owner, swallowed>>

PullBytes ==
    /\ pc = "pull" /\ pc' = "drain"
    /\ UNCHANGED <<setup, built, text, chunkError, ending, report, cause, pipe, timer,
                   finalizer, owner, swallowed>>

\* The encoder does not exist or refuses the text.
EncodeFails ==
    /\ pc \in {"pull", "flush"} /\ chunkError' = "encoder" /\ Handle("encoder")
    /\ UNCHANGED <<setup, built, text, finalizer, owner, swallowed>>

PullInvalid ==
    /\ pc = "pull" /\ chunkError' = "invalid" /\ Handle("invalid")
    /\ UNCHANGED <<setup, built, text, finalizer, owner, swallowed>>

\* drain() returns: on to the next chunk, or to the end of a payload.
Drained ==
    /\ pc = "drain"
    /\ IF kind = "stream" THEN pc' = "pull" /\ UNCHANGED <<ending, pipe, timer>>
                          ELSE BeginClose("ok")
    /\ UNCHANGED <<setup, built, text, chunkError, report, cause, finalizer, owner, swallowed>>

\* The tail, if any, is written.
Flushed ==
    /\ pc = "flush" /\ BeginClose("ok") /\ chunkError' = Encoded
    /\ UNCHANGED <<setup, built, text, report, cause, finalizer, owner, swallowed>>

\* The child has closed its end, or the pipe fails otherwise.  A payload's
\* writer reports either as a failed write and ends well.
WriteFails ==
    /\ pc \in {"drain", "flush"}
    /\ UNCHANGED <<setup, built, text, chunkError, finalizer, owner, swallowed>>
    /\ IF kind = "stream" THEN \E what \in {"early", "pipe"} : Handle(what)
       ELSE cause' = "pipe" /\ report' = "pipe" /\ BeginClose("ok")

\* An observe hook raises on the stdin event.  A payload's writer takes an
\* OSError or a RuntimeError of it for a failed write and ends well; a stream's
\* takes a broken pipe of it for the child's early close and any other for an
\* error of the pipe.  The rest, and what a hook raises on that report, leaves.
HookFails ==
    /\ pc \in {"drain", "flush"} /\ cause' = "hook"
    /\ \/ kind = "payload" /\ report' = "pipe" /\ BeginClose("ok")
       \/ kind = "payload" /\ report' \in {"none", "pipe"} /\ BeginClose("failed")
       \/ kind = "stream" /\ report' = "early" /\ BeginClose("ok")
       \/ kind = "stream" /\ report' \in {"early", "pipe"} /\ BeginClose("failed")
    /\ UNCHANGED <<setup, built, text, chunkError, finalizer, owner, swallowed>>

(* ------------------------- the run takes it back ------------------------ *)

\* Fault: the budget does not outlast the waits it contains.
BudgetWithoutSlack == (CloseGrace + SettleGrace) + SettleGrace

\* _STDIN_RECLAIM_BUDGET_S: the close, the two steps of the finalization, and
\* the slack for the writer's last turn.
ReclaimBudget == ((CloseGrace + SettleGrace) + SettleGrace) + Slack

\* stdin_task.cancel(), seen by the writer at the await it is at.
CancelWriter ==
    \/ pc = "pull" /\ manners = "stubborn" /\ swallowed' = TRUE
       /\ UNCHANGED <<pc, ending, pipe, timer, finalizer>>
    \/ pc \in Body /\ (pc = "pull" => manners = "prompt")
       /\ BeginClose("cancelled") /\ UNCHANGED <<finalizer, swallowed>>
    \/ pc = "close" /\ pipe' = "aborted" /\ BeginFinalize("cancelled")
       /\ UNCHANGED swallowed
    \/ pc \in {"finalize", "reclaim"} /\ pc' = "ended" /\ ending' = "cancelled"
       /\ finalizer' = "asked" /\ UNCHANGED <<pipe, timer, swallowed>>

\* _cancel_stdin_writer: cancel and wait for at most the budget.
Reclaim ==
    /\ CancelWriter
    /\ run' = "reclaiming" /\ budget' = ReclaimBudget
    /\ UNCHANGED <<setup, built, text, chunkError, report, cause>>

\* A teardown reclaims the writer, and may do so again after a settlement.
\* The writer has had its first step: its task was made before the run's waits.
TearDown ==
    /\ run \in {"waiting", "over"} /\ reclaims > 0 /\ pc \notin {"start", "ended"}
    /\ reclaims' = reclaims - 1 /\ Reclaim

\* _settle_stdin_writer once the child has exited: a writer that is done is
\* only looked at, another gets the settle window.
Settle ==
    /\ run = "waiting" /\ pc # "start"
    /\ run' = IF pc = "ended" THEN "over" ELSE "settling"
    /\ budget' = SettleGrace
    /\ UNCHANGED <<setup, built, pc, text, chunkError, ending, report, cause, pipe, timer,
                   finalizer, reclaims, swallowed>>

SettleExpires ==
    /\ run = "settling" /\ budget = 0 /\ pc # "ended"
    /\ Reclaim /\ UNCHANGED reclaims

\* Fault: the cancellation is waited for until it takes effect.
SeenEnded ==
    /\ run \in {"settling", "reclaiming"} /\ pc = "ended"
    /\ run' = "over" /\ budget' = 0
    /\ UNCHANGED <<setup, built, pc, text, chunkError, ending, report, cause, pipe,
                   timer, finalizer, reclaims, swallowed>>

\* asyncio.wait sees the task done, or its time is up.
Seen ==
    /\ \/ run = "settling" /\ pc = "ended"
       \/ run = "reclaiming" /\ (pc = "ended" \/ budget = 0)
    /\ run' = "over" /\ budget' = 0
    /\ UNCHANGED <<setup, built, pc, text, chunkError, ending, report, cause, pipe, timer,
                   finalizer, reclaims, swallowed>>

Counting == {"close", "finalize", "reclaim"}

\* A grace passes, unless something is due.
Tick ==
    /\ pc \in Counting => timer > 0
    /\ run \in {"settling", "reclaiming"} => budget > 0
    /\ pc \in Counting \/ run \in {"settling", "reclaiming"}
    /\ timer' = IF pc \in Counting THEN timer - 1 ELSE timer
    /\ budget' = IF run \in {"settling", "reclaiming"} THEN budget - 1 ELSE budget
    /\ UNCHANGED <<setup, built, pc, text, chunkError, ending, report, cause, pipe,
                   finalizer, run, reclaims, swallowed>>

Producer == StartProducer \/ Exhausted \/ ProducerFails \/ PullText \/ PullBytes \/ PullInvalid
Writes == EncodeFails \/ Drained \/ Flushed \/ WriteFails \/ HookFails
Cleanup == CloseCompletes \/ FinalizerEnds
Expiries == CloseExpires \/ FinalizeExpires \/ FinalizerLeft
Run == TearDown \/ Settle \/ SettleExpires \/ Seen

Next == Producer \/ Writes \/ Cleanup \/ Expiries \/ Run \/ Tick

\* The loop serves what is due and the clock moves; nothing is assumed of the
\* producer, its finalizer, the child or the pipe.
Spec == /\ Init /\ [][Next]_vars
        /\ WF_vars(Expiries) /\ WF_vars(SettleExpires) /\ WF_vars(Seen) /\ WF_vars(Tick)

(* ------------------------------ properties ------------------------------ *)

\* The run never gives up on a writer that is still cleaning up after itself:
\* when its reclaim is over the writer's task has ended, unless the producer
\* swallowed the cancellation.  The budget of _cancel_stdin_writer really
\* contains the pipe's close and both steps of the producer's finalization.
ReclaimContainsCleanup == run = "over" => pc = "ended" \/ swallowed

\* However the writer ends - done, failed, cancelled in any await, cancelled
\* again while it cleans up - its transport was closed or aborted, the
\* producer's aclose was called, and never before the pipe was let go
\* (the nested finally of _drain_source_into_pipe, _close_stdin).
OwnedThingsReleased ==
    /\ pc \in {"finalize", "reclaim", "ended"} => pipe \in {"closed", "aborted"}
    /\ pc = "ended" /\ built /\ hook = "any" => finalizer # "none"
    /\ finalizer # "none" => pipe \in {"closed", "aborted"}

\* The writer releases what it owns and the run gives it the time to do so.
WriterReclaimed == ReclaimContainsCleanup /\ OwnedThingsReleased

\* A failure is reported at the boundary that caused it: the producer's broken
\* pipe is not the child's early close, a pipe error after encoded text is not
\* the encoder's, and an early close does not fail the writer
\* (_ProducerFailureError, _write_boundary_category, _is_early_close).
FailureNamed ==
    cause \notin {"none", "hook"} =>
        /\ report = cause
        /\ ending = "ok" => cause = "early" \/ kind = "payload"

\* Once the run wants its writer back it gets on with its work, whatever the
\* producer, its finalizer and the pipe do.
RunReleased == run \in {"settling", "reclaiming"} ~> run = "over"
=============================================================================
