---------------------------- MODULE ChildProofs -----------------------------
(***************************************************************************)
(* Safety of the owner of a child (Wait4Process), for every set of exit    *)
(* codes, on platforms with and without the non-reaping probe; and of its  *)
(* teardown (GroupTeardown), for every group, every set of processes the   *)
(* user may signal and every set that ignores SIGTERM.                     *)
(*                                                                         *)
(* The owner: the lock is held exactly in the sections that collect,       *)
(* publish or signal (LockInv); a published code is the code the child     *)
(* ended with (CodeInv); and, when only this owner collects, a collected   *)
(* child whose code is not yet published is inside such a section          *)
(* (OwnerInv), so the section that signals never sees one.                 *)
(*                                                                         *)
(* The teardown: an emptied group stays empty and a reaped child stays     *)
(* reaped, because only a running member forks; so what a probe saw is     *)
(* still true when the teardown returns (SettledInv).  SignalInv ties the  *)
(* program counter to the signals the kernel accepted.                     *)
(***************************************************************************)
EXTENDS Wait4Process, GroupTeardown, TLAPS

-----------------------------------------------------------------------------
(* The child's owner. *)

\* _settlement_lock is held exactly inside its two "with" blocks.
LockInv ==
    /\ (lock = "reaper") <=>
          (reap \in {"wait4", "publish", "publishUsage", "pollCheck"})
    /\ (lock = "loop") <=>
          (loop \in {"guard", "publish", "publishUsage", "kill"})

\* A code exists from the exit on, and whatever was published is that code.
CodeInv ==
    /\ (kern = "running") <=> (exitcode = NoCode)
    /\ returncode # NoCode => returncode = exitcode /\ kern = "collected"
    /\ reused => kern = "collected"
    /\ reap = "publish" => kern = "collected"
    /\ loop = "publish" => kern = "collected"
    /\ reap \in {"publishUsage", "done"} => returncode # NoCode
    /\ loop = "publishUsage" => returncode # NoCode
    /\ waiter \in {"returned", "reported"} => waited = exitcode /\ waited # NoCode

\* Each route collects in its own section only, and leaves no code behind.
OwnerInv ==
    /\ probe => reap \notin {"poll", "pollCheck"}
    /\ probe => loop # "publish"
    /\ ~probe => reap \notin {"waitable", "acquire", "wait4"}
    /\ probe /\ reap \in {"unstarted", "queued", "waitable", "acquire", "wait4"}
          => kern # "collected"
    /\ kern = "collected" =>
          returncode # NoCode \/ reap = "publish" \/ loop = "publish"
    /\ loop = "kill" => kern # "collected"
    /\ loop \in {"reread", "reprobe", "fallback"} => returncode # NoCode
    /\ refused \in {NoCode, exitcode}
    /\ "stranger" \notin hits
    /\ reap # "failed"
    /\ waiter # "failed"

IInv == TypeOK /\ LockInv /\ CodeInv /\ (~foreign => OwnerInv)

LEMMA InitIInv == Init => IInv
  BY ConstantsAssumption
     DEF Init, IInv, TypeOK, LockInv, CodeInv, OwnerInv, KernStates,
         ReapStates, LoopStates

\* The kernel and a foreign reaper preserve the invariant.
LEMMA KernelStep ==
    ASSUME IInv, ChildExits \/ PidReused \/ ForeignCollects
    PROVE  IInv'
<1> USE ConstantsAssumption
    DEF IInv, TypeOK, LockInv, CodeInv, OwnerInv, KernStates, ReapStates,
        LoopStates, platform, ownerVars, waiterVars
<1>1. CASE ChildExits
  BY <1>1 DEF ChildExits
<1>2. CASE PidReused
  BY <1>2 DEF PidReused
<1>3. CASE ForeignCollects
  BY <1>3 DEF ForeignCollects
<1> QED
  BY <1>1, <1>2, <1>3

\* Every step of the reaper thread preserves the invariant.
LEMMA ReaperStep ==
    ASSUME IInv, Reaper
    PROVE  IInv'
<1> USE ConstantsAssumption
    DEF IInv, TypeOK, LockInv, CodeInv, OwnerInv, KernStates, ReapStates,
        LoopStates, platform, ownerVars, waiterVars, ReapUnchanged
<1>1. CASE ReaperStarts
  BY <1>1 DEF ReaperStarts
<1>2. CASE AwaitChildWaitable
  BY <1>2 DEF AwaitChildWaitable
<1>3. CASE ReaperAcquires
  BY <1>3 DEF ReaperAcquires
<1>4. CASE CollectBlocking
  BY <1>4 DEF CollectBlocking
<1>5. CASE ReaperPublishes
  BY <1>5 DEF ReaperPublishes
<1>6. CASE ReaperPublishesUsage
  BY <1>6 DEF ReaperPublishesUsage
<1>7. CASE PollAcquires
  BY <1>7 DEF PollAcquires
<1>8. CASE PollChecks
  BY <1>8 DEF PollChecks
<1> QED
  BY <1>1, <1>2, <1>3, <1>4, <1>5, <1>6, <1>7, <1>8 DEF Reaper

\* Every step of a delivery preserves the invariant.
LEMMA DeliverStep ==
    ASSUME IInv, DeliverObserves \/ Deliver
    PROVE  IInv'
<1> USE ConstantsAssumption
    DEF IInv, TypeOK, LockInv, CodeInv, OwnerInv, KernStates, ReapStates,
        LoopStates, platform, ownerVars, waiterVars, LoopUnchanged, Refuse, KernelReading
<1>1. CASE DeliverObserves
  BY <1>1 DEF DeliverObserves
<1>2. CASE DeliverProbes
  BY <1>2 DEF DeliverProbes
<1>3. CASE DeliverAcquires
  BY <1>3 DEF DeliverAcquires
<1>4. CASE DeliverGuard
  BY <1>4 DEF DeliverGuard
<1>5. CASE DeliverPublishes
  BY <1>5 DEF DeliverPublishes
<1>6. CASE DeliverPublishesUsage
  BY <1>6 DEF DeliverPublishesUsage
<1>7. CASE DeliverKills
  BY <1>7 DEF DeliverKills, Recipient
<1>8. CASE DeliverRereads
  BY <1>8 DEF DeliverRereads
<1>9. CASE DeliverReprobes
  BY <1>9 DEF DeliverReprobes
<1>10. CASE DeliverFallsBack
  BY <1>10 DEF DeliverFallsBack
<1> QED
  BY <1>1, <1>2, <1>3, <1>4, <1>5, <1>6, <1>7, <1>8, <1>9, <1>10 DEF Deliver

\* Every step of the waiting caller preserves the invariant.
LEMMA WaiterStep ==
    ASSUME IInv, Waiter \/ WaiterCancelled
    PROVE  IInv'
<1> USE ConstantsAssumption
    DEF IInv, TypeOK, LockInv, CodeInv, OwnerInv, KernStates, ReapStates,
        LoopStates, platform, kernVars, ownerVars, WaiterUnchanged
<1>1. CASE WaiterStarts
  BY <1>1 DEF WaiterStarts
<1>2. CASE WaiterCancelled
  BY <1>2 DEF WaiterCancelled
<1>3. CASE WaiterReturns
  BY <1>3 DEF WaiterReturns
<1>4. CASE WaiterFails
  BY <1>4 DEF WaiterFails
<1>5. CASE WaiterReadsUsage
  BY <1>5 DEF WaiterReadsUsage
<1> QED
  BY <1>1, <1>2, <1>3, <1>4, <1>5 DEF Waiter

\* The invariant holds in every reachable state of the child owner.
THEOREM Invariance == Spec => []IInv
<1>1. IInv /\ [Next]_vars => IInv'
  <2> SUFFICES ASSUME IInv, [Next]_vars PROVE IInv'
    OBVIOUS
  <2>1. CASE Next
    BY <2>1, KernelStep, ReaperStep, DeliverStep, WaiterStep DEF Next
  <2>2. CASE UNCHANGED vars
    BY <2>2 DEF vars, IInv, TypeOK, LockInv, CodeInv, OwnerInv
  <2> QED
    BY <2>1, <2>2
<1> QED
  BY InitIInv, <1>1, PTL DEF Spec

\* Type correctness of the child owner.
THEOREM TypeCorrect == Spec => []TypeOK
<1>1. IInv => TypeOK
  BY DEF IInv
<1> QED
  BY Invariance, <1>1, PTL

\* send_signal reaches the child or its zombie and nobody else, whatever the
\* reaper thread and the PID allocator do meanwhile.
THEOREM SignalsReachOnlyTheChild == Spec => []NoStrangerSignalled
<1>1. IInv => NoStrangerSignalled
  BY DEF IInv, OwnerInv, NoStrangerSignalled
<1> QED
  BY Invariance, <1>1, PTL

\* The reaper and the probe-less guard never both collect the child.
THEOREM CollectionIsUnique == Spec => []CollectedOnce
<1>1. IInv => CollectedOnce
  BY DEF IInv, OwnerInv, CollectedOnce
<1> QED
  BY Invariance, <1>1, PTL

\* A refused delivery reports the exit code of the child, never -1.
THEOREM RefusalsAreTruthful == Spec => []RefusalCarriesExitCode
<1>1. IInv => RefusalCarriesExitCode
  BY DEF IInv, OwnerInv, RefusalCarriesExitCode
<1> QED
  BY Invariance, <1>1, PTL

\* A completed wait carries the exit code of the child.
THEOREM WaitsAreTruthful == Spec => []WaitReportsExit
<1>1. IInv => WaitReportsExit
  BY DEF IInv, CodeInv, WaitReportsExit
<1> QED
  BY Invariance, <1>1, PTL

\* One collection and one exit code, for every reader of it: the three results
\* above together, as the run checks them.
THEOREM ExitIsKnownOnce == Spec => []ExitKnownOnce
BY CollectionIsUnique, RefusalsAreTruthful, WaitsAreTruthful, PTL DEF ExitKnownOnce

-----------------------------------------------------------------------------
(* The teardown of the child or of its group. *)

\* The phases of the teardown and the signals they leave behind them.
SignalInv ==
    /\ pc \in {"probe", "term"} => sent = {}
    /\ pc \in {"grace", "reprobe", "kill"} => sent = {"SIGTERM"}
    /\ pc \in {"reap", "settle"} => sent = {"SIGTERM", "SIGKILL"}
    /\ pc = "settle" => proc[Leader] = "gone"
    /\ proc[Leader] # "absent"
    /\ OutcomeTruthful

\* What the probes established.
SettledInv ==
    /\ polled = "EMPTY" => Alive = {}
    /\ polled # "pending" => owns
    /\ SilentMeansSettled

StopIInv == StopType /\ SignalInv /\ SettledInv

\* Only the three endings and the refusals return, each with its own facts.
LEMMA OutcomeFields ==
    /\ ~NoStop.delivered /\ ~NoStop.escalated /\ ~NoStop.completed
    /\ TerminatedInGrace.delivered /\ ~TerminatedInGrace.escalated
    /\ TerminatedInGrace.completed
    /\ KilledAfterGrace.delivered /\ KilledAfterGrace.escalated
    /\ KilledAfterGrace.completed
    /\ KilledAfterGraceUnwaited.delivered /\ KilledAfterGraceUnwaited.escalated
    /\ ~KilledAfterGraceUnwaited.completed
  BY DEF NoStop, NoOutcome, TerminatedInGrace, KilledAfterGrace,
         KilledAfterGraceUnwaited

LEMMA StopInitIInv == StopInit => StopIInv
  BY DEF StopInit, StopIInv, StopType, SignalInv, SettledInv, OutcomeTruthful,
         SilentMeansSettled, Procs

\* A change of one process that does not bring one to life in an empty group.
LEMMA ProcessStep ==
    ASSUME StopIInv,
           \/ \E p \in Procs : Exits(p)
           \/ \E p \in Descendants : Forks(p) \/ DescendantReaped(p)
           \/ ChildReaped
    PROVE  StopIInv'
<1>1. UNCHANGED << setup, doomed, awaited, pc, polled, sent, reports, outcome >>
  BY DEF Exits, Forks, DescendantReaped, ChildReaped, teardownVars,
       setup
<1>2. PICK p \in Procs, v \in {"running", "zombie", "gone"} :
         /\ proc' = [proc EXCEPT ![p] = v]
         /\ proc[p] # "gone"
         /\ v # "gone" => Alive # {}
         /\ p = Leader => proc[p] \in {"running", "zombie"}
  BY DEF StopIInv, SignalInv, Exits, Forks, DescendantReaped, ChildReaped,
       Procs, Alive
<1>3. StopType'
  BY <1>1, <1>2 DEF StopIInv, StopType, setup
<1>4. Alive = {} => Alive' = {}
  BY <1>2 DEF Alive, StopIInv, StopType
<1>5. proc[Leader] = "gone" => proc'[Leader] = "gone"
  BY <1>2 DEF StopIInv, StopType, Procs
<1>6. proc'[Leader] # "absent"
  BY <1>2 DEF StopIInv, StopType, Procs, SignalInv
<1> QED
  BY <1>1, <1>3, <1>4, <1>5, <1>6
     DEF StopIInv, SignalInv, SettledInv, OutcomeTruthful, SilentMeansSettled, setup

\* What an answer of a probe means.
LEMMA ProbeMeaning ==
    /\ SettlementOf = "EMPTY" =>
          IF owns THEN Alive = {} ELSE proc[Leader] = "gone"
    /\ SettlementOf \in {"EMPTY", "UNSIGNALABLE", "MEMBERS"}
    /\ ProbeGroup \in {"EMPTY", "UNSIGNALABLE", "MEMBERS"}
    /\ ProbeGroup = "EMPTY" => Alive = {}
    /\ Unsignalable("EMPTY") = {}
    /\ Unsignalable("UNSIGNALABLE") = {"UNSIGNALABLE"}
    /\ Unsignalable("pending") = {}
    /\ Unsignalable("MEMBERS") = {}
  BY DEF SettlementOf, ProbeGroup, Unsignalable

\* A target with nothing to aim at is settled, and what a signal reaches is a
\* set of processes.
LEMMA SignalMeaning ==
    ASSUME StopType, proc[Leader] # "absent", NEW sig
    PROVE  /\ Aimed = {} => IF owns THEN Alive = {} ELSE proc[Leader] = "gone"
           /\ Dying(sig) \subseteq Procs
  BY DEF Aimed, Alive, Procs, Dying, Reached, StopType

\* Every step of the teardown preserves the invariant.
LEMMA TeardownStep ==
    ASSUME StopIInv, Teardown
    PROVE  StopIInv'
<1> USE OutcomeFields, ProbeMeaning
<1>0. /\ Aimed = {} => IF owns THEN Alive = {} ELSE proc[Leader] = "gone"
      /\ Dying("SIGTERM") \subseteq Procs
      /\ Dying("SIGKILL") \subseteq Procs
  BY SignalMeaning DEF StopIInv, SignalInv
<1> USE DEF StopIInv, StopType, SignalInv, SettledInv, OutcomeTruthful,
            SilentMeansSettled, kernelVars, setup, Return, Alive
<1>1. CASE Probe
  BY <1>1, ZenonT(60) DEF Probe, MembersRemainToSignal
<1>2. CASE Terminate
  BY <1>0, <1>2, ZenonT(60) DEF Terminate, SignalTargetOrReport
<1>3. CASE GraceBegins
  BY <1>3 DEF GraceBegins
<1>4. CASE GroupPolled
  BY <1>4 DEF GroupPolled
<1>5. CASE GraceSettles
  BY <1>5, ZenonT(60) DEF GraceSettles
<1>6. CASE GraceExpires
  BY <1>6 DEF GraceExpires
<1>7. CASE Reprobe
  BY <1>7, ZenonT(60) DEF Reprobe, MembersRemainToSignal
<1>8. CASE Kill
  BY <1>0, <1>8, ZenonT(60) DEF Kill, SignalTargetOrReport
<1>9. CASE ReapBegins
  BY <1>9 DEF ReapBegins
<1>10. CASE Reaped
  BY <1>10 DEF Reaped
<1>11. CASE GroupSettles
  BY <1>11 DEF GroupSettles
<1>12. CASE SettlementExpires
  BY <1>12 DEF SettlementExpires
<1> QED
  BY <1>1, <1>2, <1>3, <1>4, <1>5, <1>6, <1>7, <1>8, <1>9, <1>10, <1>11, <1>12
     DEF Teardown

\* The invariant holds in every reachable state of a teardown.
THEOREM StopInvariance == StopSpec => []StopIInv
<1>1. StopIInv /\ [StopNext]_stopVars => StopIInv'
  <2> SUFFICES ASSUME StopIInv, [StopNext]_stopVars PROVE StopIInv'
    OBVIOUS
  <2>1. CASE StopNext
    BY <2>1, ProcessStep, TeardownStep DEF StopNext
  <2>2. CASE UNCHANGED stopVars
    BY <2>2 DEF stopVars, setup, StopIInv, StopType, SignalInv, SettledInv,
         OutcomeTruthful,
                SilentMeansSettled, Alive
  <2> QED
    BY <2>1, <2>2
<1> QED
  BY StopInitIInv, <1>1, PTL DEF StopSpec

\* Type correctness of the teardown and of the kernel it signals.
THEOREM StopTypeCorrect == StopSpec => []StopType
<1>1. StopIInv => StopType
  BY DEF StopIInv
<1> QED
  BY <1>1, StopInvariance, PTL

\* A teardown that ends without a report has settled its target.
THEOREM SilenceIsSettlement == StopSpec => []SilentMeansSettled
<1>1. StopIInv => SilentMeansSettled
  BY DEF StopIInv, SettledInv
<1> QED
  BY StopInvariance, <1>1, PTL

\* The outcome a teardown returns says what it did.
THEOREM OutcomesAreTruthful == StopSpec => []OutcomeTruthful
<1>1. StopIInv => OutcomeTruthful
  BY DEF StopIInv, SignalInv
<1> QED
  BY StopInvariance, <1>1, PTL

\* A process that forks after the escalation is one the user may not signal, or
\* its group already holds such a process.
LEMMA EscalationStep ==
    ASSUME StopIInv, EscalationCompels, StopNext
    PROVE  EscalationCompels'
<1> DEFINE Foreign == \E q \in Procs \ mine : proc[q] # "absent"
<1>1. ASSUME NEW p \in Procs, NEW v \in {"zombie", "gone"},
             proc' = [proc EXCEPT ![p] = v],
             UNCHANGED << doomed, setup, sent >>
      PROVE  EscalationCompels'
  <2>1. Foreign => Foreign'
    BY <1>1 DEF StopIInv, StopType, setup
  <2>2. \A r \in Procs : proc'[r] = "running" => proc[r] = "running"
    BY <1>1 DEF StopIInv, StopType
  <2>3. \A r \in Reached' : proc'[r] = "running" => r \in Reached
    BY <1>1, <2>2 DEF Reached, Aimed, Alive, Procs, setup
  <2> QED
    BY <1>1, <2>1, <2>2, <2>3 DEF EscalationCompels, Reached, Aimed, Alive,
         setup
<1>2. ASSUME NEW p \in Descendants, Forks(p)
      PROVE  EscalationCompels'
  <2>1. /\ UNCHANGED << doomed, owns, mine, sent >>
        /\ proc' = [proc EXCEPT ![p] = "running"]
        /\ proc[p] = "absent" /\ p \in Procs /\ p # Leader
    BY <1>2 DEF StopIInv, SignalInv, Forks, teardownVars, setup, Procs
  <2>2. Foreign => Foreign'
    BY <2>1 DEF StopIInv, StopType
  <2>3. PICK q \in Procs \ doomed : proc[q] = "running"
    BY <1>2 DEF Forks
  <2>4. CASE owns
    <3>1. "SIGKILL" \in sent => Foreign
      BY <2>3, <2>4 DEF EscalationCompels, Reached, Aimed, Alive
    <3> QED
      BY <2>1, <2>2, <3>1 DEF EscalationCompels
  <2>5. CASE ~owns
    <3>1. \A r \in Reached' : r \in Reached /\ proc'[r] = proc[r]
      BY <2>1, <2>5 DEF Reached, Aimed, Alive, Procs, StopIInv, StopType
    <3> QED
      BY <2>1, <2>2, <3>1 DEF EscalationCompels
  <2> QED
    BY <2>4, <2>5
<1>3. ASSUME UNCHANGED << setup, proc >>, doomed \subseteq doomed',
             "SIGKILL" \in sent' => "SIGKILL" \in sent \/ Dying("SIGKILL") \subseteq doomed'
      PROVE  EscalationCompels'
  BY <1>3 DEF EscalationCompels, Reached, Aimed, Alive, Dying,
       setup
<1>4. CASE \E p \in Procs : Exits(p)
  BY <1>1, <1>4 DEF Exits, teardownVars
<1>5. CASE \E p \in Descendants : DescendantReaped(p)
  BY <1>1, <1>5 DEF DescendantReaped, teardownVars, Procs
<1>6. CASE ChildReaped
  BY <1>1, <1>6 DEF ChildReaped, teardownVars, Procs
<1>7. CASE Teardown
  BY <1>3, <1>7
     DEF Teardown, Probe, Terminate, GraceBegins, GroupPolled, GraceSettles,
         GraceExpires, Reprobe, Kill, ReapBegins, Reaped, GroupSettles,
         SettlementExpires, MembersRemainToSignal, SignalTargetOrReport,
         kernelVars
<1> QED
  BY <1>2, <1>4, <1>5, <1>6, <1>7 DEF StopNext

\* SIGKILL leaves no survivor to an owning run but those that a process of
\* another user forked.
THEOREM EscalationLeavesNoSurvivor == StopSpec => []EscalationCompels
<1>1. StopInit => EscalationCompels
  BY DEF StopInit, EscalationCompels
<1>2. StopIInv /\ EscalationCompels /\ [StopNext]_stopVars => EscalationCompels'
  <2>1. EscalationCompels /\ UNCHANGED stopVars => EscalationCompels'
    BY DEF stopVars, setup, EscalationCompels, Reached, Aimed, Alive
  <2> QED
    BY <2>1, EscalationStep
<1> QED
  BY StopInvariance, <1>1, <1>2, PTL DEF StopSpec
=============================================================================
