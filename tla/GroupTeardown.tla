---------------------------- MODULE GroupTeardown ----------------------------
(***************************************************************************)
(* One cooperative stop of a run's target: _terminate_process_with_wait of  *)
(* cuprum/_process_lifecycle.py over cuprum/_process_signal.py,             *)
(* cuprum/_process_group.py and cuprum/_group_teardown.py.                  *)
(*                                                                          *)
(* The target is the direct child, or, for a run that owns its process      *)
(* group, every member of the group the child leads.  Processes exit, fork  *)
(* and are reaped while the teardown runs.  A teardown is shielded, so no   *)
(* cancellation is among its steps.                                         *)
(***************************************************************************)
EXTENDS FiniteSets

CONSTANTS
    Leader,       \* the direct child
    Descendants   \* processes that may live in its group

Procs == {Leader} \cup Descendants

ASSUME TeardownAssumption == Leader \notin Descendants

VARIABLES
    owns,     \* the run was spawned with start_new_session
    mine,     \* the processes this user may signal
    immune,   \* the processes that ignore SIGTERM
    proc,     \* the kernel's state of every process
    doomed,   \* processes that received a signal they will die of
    awaited,   \* somebody awaits the child's exit, so a reaper runs
    pc,       \* the step of the teardown
    polled,   \* what _await_group_exit returned during the grace, if it did
    sent,     \* signals the kernel accepted
    reports,  \* GroupTeardownOutcome values reported
    outcome   \* the _TerminationOutcome returned

setup == << owns, mine, immune >>
stopVars == << setup, proc, doomed, awaited, pc, polled, sent, reports, outcome >>

NoOutcome == [delivered |-> FALSE, escalated |-> FALSE, completed |-> FALSE,
              returned |-> FALSE]
NoStop == [NoOutcome EXCEPT !.returned = TRUE]
TerminatedInGrace ==
    [delivered |-> TRUE, escalated |-> FALSE, completed |-> TRUE,
     returned |-> TRUE]
KilledAfterGrace ==
    [delivered |-> TRUE, escalated |-> TRUE, completed |-> TRUE,
     returned |-> TRUE]
KilledAfterGraceUnwaited ==
    [delivered |-> TRUE, escalated |-> TRUE, completed |-> FALSE,
     returned |-> TRUE]

\* A zombie is still a member of its group.
Alive == {p \in Procs : proc[p] \in {"running", "zombie"}}

\* The descendants are running or not there yet; the child has been spawned,
\* and may have ended and been reaped before the teardown looks.
StopInit ==
    /\ owns \in BOOLEAN
    /\ mine \in SUBSET Procs
    /\ immune \in SUBSET Procs
    /\ proc \in [Procs -> {"absent", "running", "zombie", "gone"}]
    /\ proc[Leader] # "absent"
    /\ \A p \in Descendants : proc[p] \in {"absent", "running"}
    /\ doomed = {}
    /\ awaited \in BOOLEAN
    /\ proc[Leader] = "gone" => awaited
    /\ pc = "probe"
    /\ polled = "pending"
    /\ sent = {}
    /\ reports = {}
    /\ outcome = NoOutcome

-----------------------------------------------------------------------------
\* The kernel and the processes themselves.

teardownVars == << setup, awaited, pc, polled, sent, reports, outcome >>

Exits(p) ==
    /\ proc[p] = "running"
    /\ proc' = [proc EXCEPT ![p] = "zombie"]
    /\ UNCHANGED << doomed, teardownVars >>

\* A running member may leave another process in the group; one with a fatal
\* signal pending forks no more.
Forks(p) ==
    /\ proc[p] = "absent"
    /\ \E q \in Procs \ doomed : proc[q] = "running"
    /\ proc' = [proc EXCEPT ![p] = "running"]
    /\ UNCHANGED << doomed, teardownVars >>

\* A descendant is reaped by its parent or by init, if anyone gets to it.
DescendantReaped(p) ==
    /\ proc[p] = "zombie"
    /\ proc' = [proc EXCEPT ![p] = "gone"]
    /\ UNCHANGED << doomed, teardownVars >>

\* The child's reaper collects it, once somebody waits for it.
ChildReaped ==
    /\ awaited
    /\ proc[Leader] = "zombie"
    /\ proc' = [proc EXCEPT ![Leader] = "gone"]
    /\ UNCHANGED << doomed, teardownVars >>

Doomed(p) == p \in doomed /\ Exits(p)

-----------------------------------------------------------------------------
\* killpg(pgid, 0): EPERM only when no member may be signalled.
ProbeGroup ==
    CASE Alive = {}                         -> "EMPTY"
      [] Alive # {} /\ Alive \cap mine = {} -> "UNSIGNALABLE"
      [] OTHER                              -> "MEMBERS"

\* _settlement_of: an owning run asks about the group, any other run asks
\* whether its child has been reaped.
SettlementOf ==
    IF owns
    THEN ProbeGroup
    ELSE IF proc[Leader] = "gone" THEN "EMPTY" ELSE "MEMBERS"

\* unsignalable_report: the only answer of a probe that is reported.
Unsignalable(answer) == {"UNSIGNALABLE"} \cap {answer}

\* The processes a signal is aimed at, and those it reaches.
Aimed == IF owns THEN Alive ELSE Alive \cap {Leader}
Reached == Aimed \cap mine

\* Those of the reached that will die of signal sig.
Dying(sig) == {p \in Reached : proc[p] = "running"
                               /\ (sig = "SIGKILL" \/ p \notin immune)}

kernelVars == << setup, proc, doomed >>

\* The teardown returns with outcome o.
Return(o) == pc' = "done" /\ outcome' = o

\* _members_remain_to_signal: one probe decides, and reports what it must.
MembersRemainToSignal(at, next, otherwise) ==
    /\ pc = at
    /\ reports' = reports \cup Unsignalable(SettlementOf)
    /\ IF SettlementOf = "MEMBERS"
       THEN pc' = next /\ UNCHANGED outcome
       ELSE Return(otherwise)
    /\ UNCHANGED << kernelVars, awaited, polled, sent >>

\* signal_target_or_report: an absent target is silent, a refusal is reported.
SignalTargetOrReport(sig, at, next, otherwise) ==
    /\ pc = at
    /\ \/ /\ Reached # {}
          /\ doomed' = doomed \cup Dying(sig)
          /\ sent' = sent \cup {sig}
          /\ pc' = next
          /\ UNCHANGED << reports, outcome >>
       \/ /\ Aimed = {}
          /\ Return(otherwise)
          /\ UNCHANGED << doomed, sent, reports >>
       \/ /\ Aimed # {}
          /\ Reached = {}
          /\ Return(otherwise)
          /\ reports' = reports \cup {"SIGNAL_REFUSED"}
          /\ UNCHANGED << doomed, sent >>
    /\ UNCHANGED << setup, proc, polled, awaited >>

\* _terminate_process_with_wait asks, then sends SIGTERM.
Probe == MembersRemainToSignal("probe", "term", NoStop)
Terminate == SignalTargetOrReport("SIGTERM", "term", "grace", NoStop)

\* The waiter built for the grace starts the reap of the child.
GraceBegins ==
    /\ pc = "grace"
    /\ ~awaited
    /\ awaited' = TRUE
    /\ UNCHANGED << kernelVars, pc, polled, sent, reports, outcome >>

\* _await_group_exit returns on the first probe that is not MEMBERS.
GroupPolled ==
    /\ owns
    /\ pc = "grace"
    /\ polled = "pending"
    /\ ProbeGroup # "MEMBERS"
    /\ polled' = ProbeGroup
    /\ UNCHANGED << kernelVars, awaited, pc, sent, reports, outcome >>

\* Fault: the child's exit alone ends the grace period of an owning run.
GraceSettlesOnChild ==
    /\ pc = "grace"
    /\ proc[Leader] = "gone"
    /\ Return(TerminatedInGrace)
    /\ UNCHANGED << kernelVars, awaited, polled, sent, reports >>

\* _settlement: the child is reaped and, for an owning run, the poll of the
\* group returned too.
GraceSettles ==
    /\ pc = "grace"
    /\ proc[Leader] = "gone"
    /\ owns => polled # "pending"
    /\ reports' = reports \cup Unsignalable(polled)
    /\ Return(TerminatedInGrace)
    /\ UNCHANGED << kernelVars, awaited, polled, sent >>

\* asyncio.wait_for gives up on the settlement.
GraceExpires ==
    /\ pc = "grace"
    /\ pc' = "reprobe"
    /\ UNCHANGED << kernelVars, awaited, polled, sent, reports, outcome >>

\* _escalate_after_grace asks again, then sends SIGKILL.
Reprobe == MembersRemainToSignal("reprobe", "kill", KilledAfterGraceUnwaited)
Kill == SignalTargetOrReport("SIGKILL", "kill", "reap", KilledAfterGraceUnwaited)

\* _settle_after_escalation: the child is awaited without a bound ...
ReapBegins ==
    /\ pc = "reap"
    /\ ~awaited
    /\ awaited' = TRUE
    /\ UNCHANGED << kernelVars, pc, polled, sent, reports, outcome >>

\* Fault: the child is taken for reaped once it was killed.
ReapedAtOnce ==
    /\ pc = "reap"
    /\ IF owns
       THEN pc' = "settle" /\ UNCHANGED outcome
       ELSE Return(KilledAfterGrace)
    /\ UNCHANGED << kernelVars, awaited, polled, sent, reports >>

Reaped ==
    /\ pc = "reap"
    /\ proc[Leader] = "gone"
    /\ IF owns
       THEN pc' = "settle" /\ UNCHANGED outcome
       ELSE Return(KilledAfterGrace)
    /\ UNCHANGED << kernelVars, awaited, polled, sent, reports >>

\* ... and the group until a probe stops saying MEMBERS ...
GroupSettles ==
    /\ pc = "settle"
    /\ ProbeGroup # "MEMBERS"
    /\ reports' = reports \cup Unsignalable(ProbeGroup)
    /\ Return(KilledAfterGrace)
    /\ UNCHANGED << kernelVars, awaited, polled, sent >>

\* Fault: the group wait after SIGKILL has no bound.
SettlementNeverExpires ==
    /\ pc = "settle"
    /\ Alive = {}
    /\ Return(KilledAfterGrace)
    /\ UNCHANGED << kernelVars, awaited, polled, sent, reports >>

\* ... or _POST_KILL_SETTLEMENT_S has passed.
SettlementExpires ==
    /\ pc = "settle"
    /\ reports' = reports \cup {"SETTLEMENT_TIMEOUT"}
    /\ Return(KilledAfterGrace)
    /\ UNCHANGED << kernelVars, awaited, polled, sent >>

Teardown ==
    \/ Probe \/ Terminate
    \/ GraceBegins \/ GroupPolled \/ GraceSettles \/ GraceExpires
    \/ Reprobe \/ Kill
    \/ ReapBegins \/ Reaped \/ GroupSettles \/ SettlementExpires

StopNext ==
    \/ \E p \in Procs : Exits(p)
    \/ \E p \in Descendants : Forks(p) \/ DescendantReaped(p)
    \/ ChildReaped
    \/ Teardown

StopSpec == StopInit /\ [][StopNext]_stopVars

(***************************************************************************)
(* Fairness: the event loop runs and its timers fire, the kernel lets a     *)
(* process die of a fatal signal, and a child somebody waits for is reaped. *)
(* Nobody owes the reaping of a descendant.                                 *)
(***************************************************************************)
StopFairSpec ==
    /\ StopSpec
    /\ WF_stopVars(Teardown)
    /\ WF_stopVars(ChildReaped)
    /\ \A p \in Procs : WF_stopVars(Doomed(p))

-----------------------------------------------------------------------------
\* Every variable holds a value the code can put there.
StopType ==
    /\ owns \in BOOLEAN
    /\ mine \subseteq Procs
    /\ immune \subseteq Procs
    /\ proc \in [Procs -> {"absent", "running", "zombie", "gone"}]
    /\ doomed \subseteq Procs
    /\ awaited \in BOOLEAN
    /\ pc \in {"probe", "term", "grace", "reprobe", "kill", "reap", "settle", "done"}
    /\ polled \in {"pending", "EMPTY", "UNSIGNALABLE"}
    /\ sent \subseteq {"SIGTERM", "SIGKILL"}
    /\ reports \subseteq {"UNSIGNALABLE", "SIGNAL_REFUSED", "SETTLEMENT_TIMEOUT"}
    /\ outcome \in {NoOutcome, NoStop, TerminatedInGrace, KilledAfterGrace,
                    KilledAfterGraceUnwaited}

\* A teardown that ends without a report has settled its target: nothing of an
\* owned group is left, and the child of any other run has been reaped.
SilentMeansSettled ==
    pc = "done" /\ reports = {} =>
        IF owns THEN Alive = {} ELSE proc[Leader] = "gone"

\* The three facts of _TerminationOutcome: delivered says that SIGTERM was
\* accepted, escalated with a completed waiter that SIGKILL was, and a
\* completed waiter that the child has been reaped.
OutcomeTruthful ==
    pc = "done" =>
        /\ outcome.delivered <=> "SIGTERM" \in sent
        /\ outcome.escalated /\ outcome.completed <=> "SIGKILL" \in sent
        /\ outcome.completed => proc[Leader] = "gone"

\* SIGKILL leaves no survivor to an owning run: from then on every member the
\* user may signal is dying, those that ignored SIGTERM and those that joined
\* during the grace included, unless a process of another user forked it since.
EscalationCompels ==
    "SIGKILL" \in sent =>
        \A p \in Reached : proc[p] = "running" =>
            p \in doomed \/ \E q \in Procs \ mine : proc[q] # "absent"

\* The teardown returns, whatever ignores SIGTERM and whoever fails to reap
\* the descendants, when the child of an owning run may be signalled.
TeardownReturns == (owns => Leader \in mine) ~> (pc = "done")
=============================================================================
