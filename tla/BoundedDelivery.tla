--------------------------- MODULE BoundedDelivery ---------------------------
(***************************************************************************)
(* Bounded output delivery of one run: the daemon worker of                 *)
(* cuprum/_bounded_delivery.py, its shutdown by                             *)
(* cuprum/_delivery_lifecycle.py, and the session finalizer of              *)
(* cuprum/_sink_lifecycle.py that shares the worker's operation lock.       *)
(*                                                                          *)
(* Threads: the event loop (offers chunks, then tears the run down), the    *)
(* worker (writes to a destination that may block for ever or raise), and   *)
(* the finalizer (closes the presentation session).  A chunk is an item     *)
(* with a size in source bytes; what it contains, and its grouping by       *)
(* stream, are left out.                                                    *)
(***************************************************************************)
EXTENDS Integers, Sequences, FiniteSets

CONSTANTS
    Items,     \* the chunks the drains may offer, each at most once
    Size,      \* payload.source_bytes of each
    Capacity,  \* max_queued_bytes
    NoItem     \* Python's None where an item is expected

ASSUME DeliveryAssumption ==
    /\ Size \in [Items -> Nat]
    /\ Capacity \in Nat \ {0}      \* _validate_queue_capacity
    /\ NoItem \notin Items

VARIABLES
    queue,        \* _queue
    queuedBytes,  \* _queued_bytes
    active,       \* _active_item
    closing,      \* _closing
    abandoned,    \* _abandoned
    disabled,     \* _disabled
    failures,     \* _failures
    undelivered,  \* _undelivered_by_target
    result,       \* _close_result is set
    emitted,      \* how often the close diagnostics were published
    worker,       \* program counter of the worker thread
    item,         \* the worker's local variable in _run
    opLock,       \* _operation_lock, the bracket's writer_lock
    session,      \* the presentation session owned by the bracket
    run,          \* progress of the teardown on the event loop
    rejected,     \* items refused by load (DROPPED)
    late,         \* items offered after the close result was built
    accepted,     \* history: items in the order they entered the queue
    begun,        \* history: items whose write was begun, in order
    confirmed     \* history: items whose write returned before abandonment

accounting == << failures, undelivered, rejected, late, accepted, begun,
                 confirmed >>
flags == << closing, abandoned, disabled, result >>
queueVars == << queue, queuedBytes >>
vars == << queueVars, active, flags, accounting, emitted, worker, item,
           opLock, session, run >>

\* The items of a sequence.
Members(s) == {s[k] : k \in DOMAIN s}

\* The chunks enqueue has been called with.
Offered == Members(accepted) \cup rejected \cup undelivered

WorkerStates == {"next", "acquire", "check", "write", "writing", "raised",
                 "returned", "exited"}

RunStates == {"running", "joining", "taking", "closed", "retaking",
              "reclosed", "closingSession", "ended", "failed"}

\* __init__ starts the thread; the bracket has opened its session.
Init ==
    /\ queue = << >>
    /\ queuedBytes = 0
    /\ active = NoItem
    /\ closing = FALSE
    /\ abandoned = FALSE
    /\ disabled = FALSE
    /\ failures = {}
    /\ undelivered = {}
    /\ result = FALSE
    /\ emitted = 0
    /\ worker = "next"
    /\ item = NoItem
    /\ opLock = "free"
    /\ session = "open"
    /\ run = "running"
    /\ rejected = {}
    /\ late = {}
    /\ accepted = << >>
    /\ begun = << >>
    /\ confirmed = {}

-----------------------------------------------------------------------------
\* The event loop offers a chunk: enqueue. It never blocks.

\* Fault: the bound is compared before the incoming chunk is added.
EnqueueOffByOne(i) ==
    /\ i \notin Offered
    /\ IF queuedBytes > Capacity
       THEN rejected' = rejected \cup {i} /\ UNCHANGED << queueVars, accepted >>
       ELSE /\ queue' = Append(queue, i)
            /\ queuedBytes' = queuedBytes + Size[i]
            /\ accepted' = Append(accepted, i)
            /\ UNCHANGED rejected
    /\ UNCHANGED << active, flags, failures, undelivered, late, begun,
                    confirmed, emitted, worker, item, opLock, session, run >>

Enqueue(i) ==
    /\ i \notin Offered
    /\ \/ /\ disabled \/ closing
          /\ undelivered' = undelivered \cup {i}
          /\ late' = IF result THEN late \cup {i} ELSE late
          /\ UNCHANGED << queueVars, rejected, accepted >>
       \/ /\ ~(disabled \/ closing)
          /\ queuedBytes + Size[i] > Capacity
          /\ rejected' = rejected \cup {i}
          /\ UNCHANGED << queueVars, undelivered, late, accepted >>
       \/ /\ ~(disabled \/ closing)
          /\ queuedBytes + Size[i] <= Capacity
          /\ queue' = Append(queue, i)
          /\ queuedBytes' = queuedBytes + Size[i]
          /\ accepted' = Append(accepted, i)
          /\ UNCHANGED << undelivered, rejected, late >>
    /\ UNCHANGED << active, flags, failures, begun, confirmed, emitted,
                    worker, item, opLock, session, run >>

\* _discard_queued, with _add_undelivered for each item it forgets and for
\* the items of lost.
DiscardQueued(lost) ==
    /\ undelivered' = undelivered \cup lost \cup Members(queue)
    /\ queue' = << >>
    /\ queuedBytes' = 0

-----------------------------------------------------------------------------
\* The worker thread: _run.

\* _next_item: take the oldest item, whether or not a close has begun ...
TakeNext ==
    /\ worker = "next"
    /\ ~abandoned
    /\ queue # << >>
    /\ item' = Head(queue)
    /\ active' = Head(queue)
    /\ queue' = Tail(queue)
    /\ queuedBytes' = queuedBytes - Size[Head(queue)]
    /\ worker' = "acquire"
    /\ UNCHANGED << flags, accounting, emitted, opLock, session, run >>

\* ... or stop, once closing and drained, or abandoned.
WorkerStops ==
    /\ worker = "next"
    /\ closing
    /\ abandoned \/ queue = << >>
    /\ worker' = "exited"
    /\ UNCHANGED << queueVars, active, flags, accounting, emitted, item,
                    opLock, session, run >>

\* _deliver: take the operation lock ...
AcquireOperation ==
    /\ worker = "acquire"
    /\ opLock = "free"
    /\ opLock' = "worker"
    /\ worker' = "check"
    /\ UNCHANGED << queueVars, active, flags, accounting, emitted, item,
                    session, run >>

\* Fault: an abandoned worker is not stopped before its write.
CheckNothing ==
    /\ worker = "check"
    /\ worker' = "write"
    /\ UNCHANGED << queueVars, active, flags, accounting, emitted, item, opLock,
                    session, run >>

\* ... return without writing if close gave up on this worker meanwhile ...
CheckAbandoned ==
    /\ worker = "check"
    /\ IF abandoned
       THEN worker' = "returned" /\ opLock' = "free"
       ELSE worker' = "write" /\ UNCHANGED opLock
    /\ UNCHANGED << queueVars, active, flags, accounting, emitted, item,
                    session, run >>

\* ... and call the destination, which may never come back.
BeginWrite ==
    /\ worker = "write"
    /\ worker' = "writing"
    /\ begun' = Append(begun, item)
    /\ UNCHANGED << queueVars, active, flags, failures, undelivered, rejected,
                    late, accepted, confirmed, emitted, item, opLock, session,
                    run >>

\* The destination's write and flush return, or one of them raises.
DestinationReturns ==
    /\ worker = "writing"
    /\ opLock' = "free"
    /\ worker' \in {"returned", "raised"}
    /\ UNCHANGED << queueVars, active, flags, accounting, emitted, item,
                    session, run >>

\* Fault: a write that comes back after the report counts as confirmed.
SettleAlways ==
    /\ worker = "returned"
    /\ active' = NoItem
    /\ confirmed' = confirmed \cup {item}
    /\ worker' = IF abandoned THEN "exited" ELSE "next"
    /\ item' = NoItem
    /\ UNCHANGED << queueVars, flags, failures, undelivered, rejected, late,
                    accepted, begun, emitted, opLock, session, run >>

\* After a delivery: the item leaves the worker, and an abandoned worker ends.
SettleReturned ==
    /\ worker = "returned"
    /\ active' = NoItem
    /\ worker' = IF abandoned THEN "exited" ELSE "next"
    /\ confirmed' = IF abandoned THEN confirmed ELSE confirmed \cup {item}
    /\ item' = NoItem
    /\ UNCHANGED << queueVars, flags, failures, undelivered, rejected, late,
                    accepted, begun, emitted, opLock, session, run >>

\* The except branch of _run: an abandoned worker just ends; otherwise the
\* failure disables delivery, _discard_queued empties the queue and the
\* thread ends.
SettleRaised ==
    /\ worker = "raised"
    /\ worker' = "exited"
    /\ item' = NoItem
    /\ IF abandoned
       THEN UNCHANGED << queueVars, active, disabled, failures, undelivered >>
       ELSE /\ failures' = failures \cup {item}
            /\ disabled' = TRUE
            /\ active' = NoItem
            /\ DiscardQueued({})
    /\ UNCHANGED << closing, abandoned, result, rejected, late, accepted,
                    begun, confirmed, emitted, opLock, session, run >>

Worker ==
    \/ TakeNext
    \/ WorkerStops
    \/ AcquireOperation
    \/ CheckAbandoned
    \/ BeginWrite
    \/ SettleReturned
    \/ SettleRaised

-----------------------------------------------------------------------------
\* The teardown on the event loop: _close_delivery_worker, then aclose.

\* close, first section: stop accepting, wake the worker, start joining it.
CloseBegins ==
    /\ run = "running"
    /\ closing' = TRUE
    /\ run' = "joining"
    /\ UNCHANGED << queueVars, active, abandoned, disabled, result, accounting,
                    emitted, worker, item, opLock, session >>

\* Fault: the join has no bound.
CloseAwaitsWorker ==
    /\ run = "joining"
    /\ worker = "exited"
    /\ undelivered' = undelivered \cup Members(queue)
    /\ queue' = << >>
    /\ queuedBytes' = 0
    /\ result' = TRUE
    /\ run' = "taking"
    /\ UNCHANGED << active, closing, abandoned, disabled, failures, rejected,
                    late, accepted, begun, confirmed, emitted, worker, item,
                    opLock, session >>

\* close, second section: the worker has exited or the grace ran out. A live
\* worker is abandoned, and what it holds is reported with the queue.
CloseReports ==
    /\ run = "joining"
    /\ abandoned' = (worker # "exited" \/ active # NoItem)
    /\ DiscardQueued({active} \ {NoItem})
    /\ active' = NoItem
    /\ result' = TRUE
    /\ run' = "taking"
    /\ UNCHANGED << closing, disabled, failures, rejected, late, accepted,
                    begun, confirmed, emitted, worker, item, opLock, session >>

\* take_close_result: the diagnostics are handed out once.
TakeResult ==
    /\ run \in {"taking", "retaking"}
    /\ emitted' = IF emitted = 0 THEN 1 ELSE emitted
    /\ run' = IF run = "taking" THEN "closed" ELSE "reclosed"
    /\ UNCHANGED << queueVars, active, flags, accounting, worker, item,
                    opLock, session >>

\* The success path closes the worker again before it settles: close returns
\* the result it already has.
CloseAgain ==
    /\ run = "closed"
    /\ run' = "retaking"
    /\ UNCHANGED << queueVars, active, flags, accounting, emitted, worker,
                    item, opLock, session >>

\* close_bounded: take the session, once, and start the finalizer thread ...
TakeSession ==
    /\ run \in {"closed", "reclosed"}
    /\ session = "open"
    /\ session' = "taken"
    /\ run' = "closingSession"
    /\ UNCHANGED << queueVars, active, flags, accounting, emitted, worker,
                    item, opLock >>

\* ... whose start may fail: the session is put back and the error raised.
FinalizerNotStarted ==
    /\ run \in {"closed", "reclosed"}
    /\ session = "open"
    /\ run' = "failed"
    /\ UNCHANGED << queueVars, active, flags, accounting, emitted, worker,
                    item, opLock, session >>

\* _close_after_active_write: behind a write that is in progress.
FinalizerAcquires ==
    /\ session = "taken"
    /\ opLock = "free"
    /\ opLock' = "finalizer"
    /\ session' = "closing"
    /\ UNCHANGED << queueVars, active, flags, accounting, emitted, worker,
                    item, run >>

\* session.close returns or raises; either way the lock is released and
\* finished is set.
FinalizerCloses ==
    /\ session = "closing"
    /\ session' \in {"closed", "closeFailed"}
    /\ opLock' = "free"
    /\ UNCHANGED << queueVars, active, flags, accounting, emitted, worker,
                    item, run >>

\* finished.wait(grace) returns, set or not; a close failure that was seen
\* in time is raised.
SessionWaitEnds ==
    /\ run = "closingSession"
    /\ run' = IF session = "closeFailed" THEN "failed" ELSE "ended"
    /\ UNCHANGED << queueVars, active, flags, accounting, emitted, worker,
                    item, opLock, session >>

Teardown ==
    \/ CloseReports
    \/ TakeResult
    \/ TakeSession
    \/ SessionWaitEnds

Next ==
    \/ \E i \in Items : Enqueue(i)
    \/ Worker
    \/ DestinationReturns
    \/ CloseBegins
    \/ Teardown
    \/ CloseAgain
    \/ FinalizerNotStarted
    \/ FinalizerAcquires
    \/ FinalizerCloses

Spec == Init /\ [][Next]_vars

(***************************************************************************)
(* Fairness: threads that can run do run, and a timed join or wait returns. *)
(* The destination owes nothing: neither its write, nor its close, need     *)
(* ever return.                                                             *)
(***************************************************************************)
FairSpec ==
    /\ Spec
    /\ WF_vars(Worker)
    /\ WF_vars(Teardown)

-----------------------------------------------------------------------------
\* Every variable holds a value the code can put there.
TypeOK ==
    /\ queue \in Seq(Items)
    /\ queuedBytes \in Int
    /\ active \in Items \cup {NoItem}
    /\ closing \in BOOLEAN
    /\ abandoned \in BOOLEAN
    /\ disabled \in BOOLEAN
    /\ failures \subseteq Items
    /\ undelivered \subseteq Items
    /\ result \in BOOLEAN
    /\ emitted \in Nat
    /\ worker \in WorkerStates
    /\ item \in Items \cup {NoItem}
    /\ opLock \in {"free", "worker", "finalizer"}
    /\ session \in {"open", "taken", "closing", "closed", "closeFailed"}
    /\ run \in RunStates
    /\ rejected \subseteq Items
    /\ late \subseteq Items
    /\ accepted \in Seq(Items)
    /\ begun \in Seq(Items)
    /\ confirmed \subseteq Items

\* What the worker still owes the destination.
Waiting == Members(queue)
InFlight == {active} \ {NoItem}

\* No byte is lost silently: an accepted item is waiting, in flight, confirmed,
\* the one whose write failed, or reported UNDELIVERED - exactly one of them,
\* and none that was rejected - and once close has built its result nothing is
\* waiting or in flight.
LossAccounted ==
    /\ Members(accepted) \subseteq
          Waiting \cup InFlight \cup confirmed \cup failures \cup undelivered
    /\ Waiting \cap (InFlight \cup confirmed \cup failures \cup undelivered
                        \cup rejected) = {}
    /\ InFlight \cap (confirmed \cup failures \cup undelivered \cup rejected) = {}
    /\ confirmed \cap (failures \cup undelivered \cup rejected) = {}
    /\ failures \cap (undelivered \cup rejected) = {}
    /\ undelivered \cap rejected = {}
    /\ result => Waiting = {} /\ InFlight = {}

\* Output reaches the destination in the order the loop queued it, without
\* gaps: the writes begun are a prefix of the items accepted, whatever
\* failure, close and abandonment cut off.
WritesArePrefix == begun = SubSeq(accepted, 1, Len(begun))

\* The closing frame of the session neither races a delivery write nor
\* precedes one: an abandoned worker that still holds an item gives it up.
ClosingFrameLast ==
    worker \in {"write", "writing"} => session \in {"open", "taken"}

\* The report and the session's frame bracket the output: nothing is lost
\* without being reported, and nothing is written after the frame was closed.
DeliveryAccounted == LossAccounted /\ ClosingFrameLast

\* The deferred diagnostics are published once however often the run closes
\* its worker.
ReportedOnce == emitted <= 1

\* The bytes retained in the queue are counted exactly, as the running total
\* over its items, and never exceed max_queued_bytes; the item in flight is
\* not among them.
QueueBounded ==
    \E total \in [0..Len(queue) -> 0..Capacity] :
        /\ total[0] = 0
        /\ \A k \in 1..Len(queue) : total[k] = total[k - 1] + Size[queue[k]]
        /\ queuedBytes = total[Len(queue)]

\* The discipline of the queue: bounded, first in first out without gaps, and
\* reported once, through failures, closes and the abandonment of the worker.
QueueDiscipline == QueueBounded /\ WritesArePrefix /\ ReportedOnce

\* What close reported stays true: a late return of the abandoned write
\* neither confirms it nor adds a failure, and only offers made after the
\* close can add to the loss.
ReportIsFinal ==
    [][ result => /\ failures' = failures
                  /\ confirmed' = confirmed
                  /\ undelivered' \subseteq undelivered \cup late' ]_vars

\* Teardown ends even when the destination never returns from a write.
TeardownEnds == closing ~> (run \in {"ended", "failed"})
=============================================================================
