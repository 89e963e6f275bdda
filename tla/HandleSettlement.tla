-------------------------- MODULE HandleSettlement --------------------------
(***************************************************************************)
(* An owned child driven through a RunningCommand by several callers at     *)
(* once: cuprum/_process_handle/ (settlement, coordinator, state, settle    *)
(* and control) with the shields of cuprum/_process_lifecycle.py.           *)
(*                                                                          *)
(* Callers wait, with or without a deadline, terminate, kill, and leave the *)
(* async with block; any of them may be cancelled.  One settlement task     *)
(* drives the run to its end.  An escalation (GroupTeardown) is reduced to  *)
(* its two phases, and the child (Wait4Process) to the states its readers   *)
(* can tell apart.  No section under _Settlement._lock suspends, so each is *)
(* one step and the lock has no state.                                      *)
(***************************************************************************)
EXTENDS Naturals, Sequences

CONSTANTS
    Callers,     \* tasks that use the handle
    Task,        \* the settlement task, as an actor that escalates
    Ops,         \* what the callers may do
    OwnsGroup,   \* the run was started with OWN_GROUP
    Refusable,   \* the platform may refuse to deliver a signal
    Nobody       \* no caller

WaitOps == {"wait", "deadline", "elapsed"}
StopOps == {"terminate", "kill", "leave", "leaveFailing"}

ASSUME HandleAssumption ==
    /\ Task \notin Callers
    /\ Nobody \notin Callers \cup {Task}
    /\ Ops \subseteq WaitOps \cup StopOps
    /\ OwnsGroup \in BOOLEAN
    /\ Refusable \in BOOLEAN

Actors == Callers \cup {Task}

VARIABLES
    child,      \* "running", "zombie", "collected" by the reaper, "published"
    ending,     \* what ended the child
    members,    \* descendants of the child live in the owned group
    reaping,    \* a reap of the child has been started
    sent,       \* signals sent to the child
    driver,     \* the step settle_and_record is at
    tasked,     \* _Settlement._task is not None
    result,     \* _Settlement._result
    deadline,   \* _Settlement._deadline, as the caller that recorded it
    hooked,     \* the after hooks ran to their end
    settled,    \* the terminal events emitted
    stopLock,   \* holder of _HandleRun.stop_lock
    esc,        \* each actor's escalation of the child
    op,         \* what each caller does
    pc,         \* where each caller is
    cancelled,  \* callers with a cancellation to re-raise
    answer      \* how each caller's call ended

childVars == << child, ending, members, reaping, sent >>
taskVars == << driver, tasked, result, deadline, hooked, settled >>
callVars == << op, pc, cancelled, answer >>
vars == << childVars, taskVars, stopLock, esc, callVars >>

Endings == {"own", "SIGTERM", "SIGKILL"}

Init ==
    /\ child \in {"running", "zombie"}
    /\ ending = IF child = "zombie" THEN "own" ELSE "none"
    /\ members \in BOOLEAN
    /\ members => OwnsGroup
    /\ reaping = FALSE
    /\ sent = {}
    /\ driver = "none"
    /\ tasked = FALSE
    /\ result = "none"
    /\ deadline = Nobody
    /\ hooked = FALSE
    /\ settled = << >>
    /\ stopLock = Nobody
    /\ esc = [a \in Actors |-> "none"]
    /\ op = [c \in Callers |-> "none"]
    /\ pc = [c \in Callers |-> "idle"]
    /\ cancelled = {}
    /\ answer = [c \in Callers |-> "none"]

-----------------------------------------------------------------------------
\* The child, its reaper and its descendants.

ChildExits ==
    /\ child = "running"
    /\ child' = "zombie"
    /\ ending' \in {"own"} \cup sent
    /\ UNCHANGED << members, reaping, sent, taskVars, stopLock, esc, callVars >>

\* A child that was sent SIGKILL has no choice.
ChildKilled == "SIGKILL" \in sent /\ ChildExits

\* wait4 in the reaper thread, and the publication of returncode after it.
ChildCollected ==
    /\ reaping
    /\ child = "zombie"
    /\ child' = "collected"
    /\ UNCHANGED << ending, members, reaping, sent, taskVars, stopLock, esc, callVars >>

ChildPublished ==
    /\ child = "collected"
    /\ child' = "published"
    /\ UNCHANGED << ending, members, reaping, sent, taskVars, stopLock, esc, callVars >>

MembersLeave ==
    /\ members
    /\ members' = FALSE
    /\ UNCHANGED << child, ending, reaping, sent, taskVars, stopLock, esc, callVars >>

\* _observed_exit_code: a collected child that is not yet published reads as
\* running.
ObservedExit == child \in {"zombie", "published"}

\* A signal finds somebody: the probe does not veto it and the delivery is not
\* refused as one to a collected child.
Deliverable == child \in {"running", "zombie"} \/ members

-----------------------------------------------------------------------------
\* Ends of a call, and the two ways to hold on to the one settlement.

\* The call of c ends with v.
Answers(c, v) ==
    /\ pc' = [pc EXCEPT ![c] = "done"]
    /\ answer' = [answer EXCEPT ![c] = v]

Goes(c, where) == pc' = [pc EXCEPT ![c] = where] /\ UNCHANGED answer

\* The task is created by the first caller that finds neither outcome nor task.
EnsureTask ==
    IF tasked
    THEN UNCHANGED << driver, tasked >>
    ELSE tasked' = TRUE /\ driver' = "waiting"

\* A stop that ended well returns the outcome, an async with block only ends.
Owed(c, v) ==
    IF c \in cancelled
    THEN "cancelled"
    ELSE CASE op[c] = "leaveFailing"              -> "blockError"
           [] op[c] = "leave" /\ v # "failure"    -> "left"
           [] OTHER                               -> v

\* Fault: the recorded outcome is not looked at, only the slot of the task.
AwaitTask(c, where) == Goes(c, where) /\ EnsureTask

\* _await_settlement: read the outcome or await the shared task.
AwaitSettlement(c, where) ==
    IF result # "none"
    THEN Answers(c, Owed(c, result)) /\ UNCHANGED << driver, tasked >>
    ELSE Goes(c, where) /\ EnsureTask

-----------------------------------------------------------------------------
\* The calls.

Call(c, o) ==
    /\ pc[c] = "idle"
    /\ op' = [op EXCEPT ![c] = o]

Wait(c) ==
    /\ \E o \in Ops \cap {"wait", "deadline"} : Call(c, o)
    /\ AwaitSettlement(c, "waiting")
    /\ UNCHANGED << childVars, result, deadline, hooked, settled, stopLock, esc,
                    cancelled >>

\* _expire under the lock: a positive deadline yields to a child that has
\* exited; otherwise the first deadline is recorded and the child is stopped.
RecordDeadline(c, positive) ==
    IF positive /\ ObservedExit
    THEN Goes(c, "unbounded") /\ UNCHANGED deadline
    ELSE /\ deadline' = IF deadline = Nobody THEN c ELSE deadline
         /\ Goes(c, "queued")

Expire(c, positive) ==
    /\ IF result # "none"
       THEN Answers(c, result) /\ UNCHANGED << driver, tasked, deadline >>
       ELSE RecordDeadline(c, positive) /\ EnsureTask
    /\ UNCHANGED << childVars, result, hooked, settled, stopLock, esc, cancelled >>

\* outcome with a non-positive deadline.
WaitElapsed(c) ==
    /\ "elapsed" \in Ops
    /\ Call(c, "elapsed")
    /\ Expire(c, FALSE)

\* asyncio.timeout fires in outcome.
DeadlinePasses(c) ==
    /\ pc[c] = "waiting"
    /\ op[c] = "deadline"
    /\ Expire(c, TRUE)
    /\ UNCHANGED op

\* terminate and __aexit__ queue for the stop lock, kill does not.
Stop(c) ==
    /\ \E o \in Ops \cap StopOps :
          /\ Call(c, o)
          /\ Goes(c, IF o = "kill" THEN "stopping" ELSE "queued")
    /\ UNCHANGED << childVars, taskVars, stopLock, esc, cancelled >>

TakeStopLock(c) ==
    /\ pc[c] = "queued"
    /\ stopLock = Nobody
    /\ stopLock' = c
    /\ Goes(c, "stopping")
    /\ UNCHANGED << childVars, taskVars, esc, op, cancelled >>

-----------------------------------------------------------------------------
\* One escalation by actor a, which continues with Next of its own when it is
\* over.

\* Fault: a cancelled caller keeps the stop lock.
StopOverHoldsLock(c) ==
    /\ stopLock' = IF stopLock = c /\ c \notin cancelled THEN Nobody ELSE stopLock
    /\ UNCHANGED << hooked, settled, result, deadline >>
    /\ \/ /\ op[c] \in WaitOps
          /\ IF c \in cancelled THEN Answers(c, "cancelled") ELSE Goes(c, "joining")
          /\ UNCHANGED << driver, tasked >>
       \/ /\ op[c] \in StopOps
          /\ AwaitSettlement(c, "settling")

\* A caller's stop is over: its lock is released; an expired wait joins the
\* settlement unless it was cancelled, a stop settles the run whatever happened.
StopOver(c) ==
    /\ stopLock' = IF stopLock = c THEN Nobody ELSE stopLock
    /\ UNCHANGED << hooked, settled, result, deadline >>
    /\ \/ /\ op[c] \in WaitOps
          /\ IF c \in cancelled THEN Answers(c, "cancelled") ELSE Goes(c, "joining")
          /\ UNCHANGED << driver, tasked >>
       \/ /\ op[c] \in StopOps
          /\ AwaitSettlement(c, "settling")

\* The owned group is settled, the settlement goes on to the drain.
GroupOver ==
    /\ driver' = "draining"
    /\ UNCHANGED << tasked, result, deadline, hooked, settled, stopLock, pc, answer >>

Over(a) == IF a = Task THEN GroupOver ELSE StopOver(a)

Sends(sig) == sent' = IF child = "running" THEN sent \cup {sig} ELSE sent

AtStop(a) == IF a = Task THEN driver = "group" ELSE pc[a] = "stopping"
Compels(a) == a # Task /\ op[a] = "kill"

\* _terminate_process and _kill_shielded: a signal is sent, or nothing is left
\* to signal, or the delivery is refused.
EscalationBegins(a) ==
    /\ AtStop(a)
    /\ esc[a] = "none"
    /\ \/ /\ Deliverable
          /\ Sends(IF Compels(a) THEN "SIGKILL" ELSE "SIGTERM")
          /\ esc' = [esc EXCEPT ![a] = IF Compels(a) THEN "reap" ELSE "grace"]
          /\ reaping' = TRUE
          /\ UNCHANGED << taskVars, stopLock, pc, answer >>
       \/ /\ ~Deliverable \/ Refusable
          /\ Over(a)
          /\ UNCHANGED << sent, reaping, esc >>
    /\ UNCHANGED << child, ending, members, op, cancelled >>

GraceSettles(a) ==
    /\ esc[a] = "grace"
    /\ child = "published"
    /\ ~members
    /\ esc' = [esc EXCEPT ![a] = "none"]
    /\ Over(a)
    /\ UNCHANGED << childVars, op, cancelled >>

GraceExpires(a) ==
    /\ esc[a] = "grace"
    /\ \/ /\ Deliverable
          /\ Sends("SIGKILL")
          /\ esc' = [esc EXCEPT ![a] = "reap"]
          /\ UNCHANGED << taskVars, stopLock, pc, answer >>
       \/ /\ ~Deliverable \/ Refusable
          /\ esc' = [esc EXCEPT ![a] = "none"]
          /\ Over(a)
          /\ UNCHANGED sent
    /\ UNCHANGED << child, ending, members, reaping, op, cancelled >>

\* The child is reaped; what is left of the group was killed or is reported.
EscalationReaped(a) ==
    /\ esc[a] = "reap"
    /\ child = "published"
    /\ esc' = [esc EXCEPT ![a] = "none"]
    /\ Over(a)
    /\ UNCHANGED << childVars, op, cancelled >>

Escalation(a) ==
    \/ EscalationBegins(a) \/ GraceSettles(a) \/ GraceExpires(a) \/ EscalationReaped(a)

-----------------------------------------------------------------------------
\* The settlement task.

\* _settle_handle_run: the exit wait starts the reap ...
DriverReaps ==
    /\ driver = "waiting"
    /\ ~reaping
    /\ reaping' = TRUE
    /\ UNCHANGED << child, ending, members, sent, taskVars, stopLock, esc, callVars >>

\* ... and returns with the published code; an owned group is settled first.
DriverSeesExit ==
    /\ driver = "waiting"
    /\ child = "published"
    /\ driver' = IF OwnsGroup THEN "group" ELSE "draining"
    /\ UNCHANGED << childVars, tasked, result, deadline, hooked, settled, stopLock, esc,
                    callVars >>

\* The drain and the close of the delivery worker.
DriverDrains ==
    /\ driver = "draining"
    /\ driver' \in {"concluding", "finalizeERROR"}
    /\ UNCHANGED << childVars, tasked, result, deadline, hooked, settled, stopLock, esc,
                    callVars >>

\* The exit event is out: read the deadline, run the hooks if there is none.
DriverConcludes ==
    /\ driver = "concluding"
    /\ \/ /\ deadline = Nobody
          /\ driver' = "finalizeSUCCESS"
          /\ hooked' = TRUE
       \/ /\ deadline = Nobody
          /\ driver' = "finalizeERROR"
          /\ UNCHANGED hooked
       \/ /\ deadline # Nobody
          /\ driver' = "finalizeTIMEOUT"
          /\ UNCHANGED hooked
    /\ UNCHANGED << childVars, tasked, result, deadline, settled, stopLock, esc, callVars >>

Finalizing ==
    [finalizeSUCCESS |-> "SUCCESS", finalizeTIMEOUT |-> "TIMEOUT", finalizeERROR |-> "ERROR"]

\* _finalize_command_run_success and _failure: the terminal event goes out; an
\* observer's failure, or the error that brought it here, fails the task.
DriverFinalizes ==
    /\ driver \in DOMAIN Finalizing
    /\ settled' = Append(settled, Finalizing[driver])
    /\ \/ /\ driver # "finalizeERROR"
          /\ driver' = "done"
          /\ result' = ending
       \/ /\ driver' = "failed"
          /\ UNCHANGED result
    /\ UNCHANGED << childVars, tasked, deadline, hooked, stopLock, esc, callVars >>

Driver == DriverReaps \/ DriverSeesExit \/ DriverDrains \/ DriverConcludes \/ DriverFinalizes

-----------------------------------------------------------------------------
\* The callers hear of it.

\* Fault: a waiter forgets the task of a settlement that failed.
HearsAndForgets(c, v) ==
    /\ driver \in {"done", "failed"}
    /\ Answers(c, Owed(c, IF driver = "done" THEN v ELSE "failure"))
    /\ tasked' = FALSE
    /\ result' = IF driver = "done" THEN ending ELSE result
    /\ UNCHANGED << childVars, driver, deadline, hooked, settled, stopLock, esc, op,
                    cancelled >>

\* The shielded await of the task returns: a success clears the slot, a failed
\* task stays for the next caller.
Hears(c, v) ==
    /\ \/ /\ driver = "done"
          /\ Answers(c, Owed(c, v))
          /\ result' = ending
          /\ tasked' = FALSE
       \/ /\ driver = "failed"
          /\ Answers(c, Owed(c, "failure"))
          /\ UNCHANGED << result, tasked >>
    /\ UNCHANGED << childVars, driver, deadline, hooked, settled, stopLock, esc, op,
                    cancelled >>

WaitReturns(c) == pc[c] \in {"waiting", "unbounded", "settling"} /\ Hears(c, ending)
ExpiryRaised(c) == pc[c] = "joining" /\ Hears(c, "TimeoutExpired")

\* A bare await is left at once; an escalation, and both steps of a stop, are
\* finished first.
Cancelled(c) ==
    /\ \/ /\ op[c] \in WaitOps
          /\ pc[c] \in {"waiting", "unbounded", "queued", "joining"}
          /\ Answers(c, "cancelled")
          /\ UNCHANGED cancelled
       \/ /\ \/ pc[c] = "stopping"
             \/ op[c] \in StopOps /\ pc[c] \in {"queued", "settling"}
          /\ c \notin cancelled
          /\ cancelled' = cancelled \cup {c}
          /\ UNCHANGED << pc, answer >>
    /\ UNCHANGED << childVars, taskVars, stopLock, esc, op >>

-----------------------------------------------------------------------------
Loop(c) ==
    \/ TakeStopLock(c) \/ DeadlinePasses(c) \/ WaitReturns(c) \/ ExpiryRaised(c)

Next ==
    \/ ChildExits \/ ChildCollected \/ ChildPublished \/ MembersLeave
    \/ Driver
    \/ \E a \in Actors : Escalation(a)
    \/ \E c \in Callers : Wait(c) \/ WaitElapsed(c) \/ Stop(c) \/ Loop(c) \/ Cancelled(c)

Spec == Init /\ [][Next]_vars

(***************************************************************************)
(* Fairness: the event loop runs every ready task and fires its timers, the *)
(* stop lock is handed on, the reaper thread runs, and the kernel kills.    *)
(* The child owes no exit and the callers owe no call.                      *)
(***************************************************************************)
FairSpec ==
    /\ Spec
    /\ WF_vars(Driver)
    /\ WF_vars(ChildKilled)
    /\ WF_vars(ChildCollected)
    /\ WF_vars(ChildPublished)
    /\ \A a \in Actors : WF_vars(Escalation(a))
    /\ \A c \in Callers : SF_vars(TakeStopLock(c))
    /\ \A c \in Callers : WF_vars(DeadlinePasses(c) \/ WaitReturns(c) \/ ExpiryRaised(c))

-----------------------------------------------------------------------------
RunTypeOK ==
    /\ child \in {"running", "zombie", "collected", "published"}
    /\ ending \in {"none"} \cup Endings
    /\ members \in BOOLEAN
    /\ reaping \in BOOLEAN
    /\ sent \subseteq {"SIGTERM", "SIGKILL"}
    /\ driver \in {"none", "waiting", "group", "draining", "concluding", "done", "failed"}
                  \cup DOMAIN Finalizing
    /\ tasked \in BOOLEAN
    /\ result \in {"none"} \cup Endings
    /\ deadline \in Callers \cup {Nobody}
    /\ hooked \in BOOLEAN

CallTypeOK ==
    /\ stopLock \in Callers \cup {Nobody}
    /\ esc \in [Actors -> {"none", "grace", "reap"}]
    /\ op \in [Callers -> {"none"} \cup Ops]
    /\ pc \in [Callers -> {"idle", "waiting", "unbounded", "queued", "stopping",
                           "joining", "settling", "done"}]
    /\ cancelled \subseteq Callers
    /\ answer \in [Callers -> {"none", "cancelled", "failure", "TimeoutExpired", "left",
                               "blockError"} \cup Endings]

\* Every variable holds a value the code can put there.
TypeOK == RunTypeOK /\ CallTypeOK /\ settled \in Seq({"SUCCESS", "TIMEOUT", "ERROR"})

\* The run is finalized at most once, however many callers settle it, and no
\* outcome or expiry is handed out before that.
SettledOnce ==
    /\ Len(settled) <= 1
    /\ (\E c \in Callers : answer[c] \in Endings \cup {"TimeoutExpired", "left"})
         => Len(settled) = 1

\* The after hooks have run to their end in a run that settles as a success,
\* and in no run that settles as a timeout.
HooksPairWithSuccess ==
    /\ settled = << "SUCCESS" >> => hooked
    /\ settled = << "TIMEOUT" >> => ~hooked

\* A caller whose own clock ran out is told so only of a run that observers
\* are told timed out.
ExpiryIsObserved ==
    \A c \in Callers :
        op[c] = "deadline" /\ answer[c] = "TimeoutExpired" => settled = << "TIMEOUT" >>

\* The settlement of the run, the hooks and the callers' expiries tell the same
\* story, and tell it once.
SettlementFaithful == SettledOnce /\ HooksPairWithSuccess /\ ExpiryIsObserved

\* However a stop ends, its own cancellation and a failing block included, the
\* child is reaped and the run settled when it returns; the same holds of an
\* expiry, so no child outlives the error it caused.
NoChildLeftBehind ==
    \A c \in Callers :
        pc[c] = "done" /\ (op[c] \in StopOps \/ answer[c] = "TimeoutExpired") =>
            child = "published" /\ driver \in {"done", "failed"}

\* The one settlement is faithful, and nobody leaves a child behind it.
RunSettledOnce == SettlementFaithful /\ NoChildLeftBehind

\* At most one escalation of the child is in progress.
OneEscalation == \A a, b \in Actors : esc[a] = "grace" /\ esc[b] = "grace" => a = b

\* Everybody who stops the child, or gave its wait a deadline, is answered; so
\* is everybody who waits for a child that has exited.
EveryCallerAnswered ==
    \A c \in Callers :
        /\ op[c] \notin {"none", "wait"} ~> pc[c] = "done"
        /\ pc[c] # "idle" /\ child # "running" ~> pc[c] = "done"

\* What the settlement decided, as the abstract specification sees it.
Verdict ==
    CASE driver = "done"   -> ending
      [] driver = "failed" -> "failure"
      [] OTHER             -> "pending"

Outcome == INSTANCE OneOutcome WITH verdict <- Verdict, told <- answer

\* The handle implements one shared outcome (OneOutcome).
ImplementsOneOutcome == Outcome!Spec
=============================================================================
