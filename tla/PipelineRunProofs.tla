------------------------- MODULE PipelineRunProofs --------------------------
(***************************************************************************)
(* Safety of a pipeline's run (PipelineRun), for every number of stages    *)
(* and of cancellations: the result names the first failure; a run that    *)
(* has ended leaves nothing open and no stage running; its observers, its  *)
(* session and its groups get their due.                                   *)
(*                                                                         *)
(* Data is about what the run has recorded of its stages, Control about    *)
(* where the run can be with what it has recorded.  Most steps change      *)
(* neither the stages nor the record; QuietControl is all that has to be   *)
(* shown of them.  Released and Reclaimed say what the run still owns, and *)
(* whether a stage may be running, at every await.                         *)
(***************************************************************************)
EXTENDS PipelineRun, Sequences, TLAPS

-----------------------------------------------------------------------------
(* The pipeline. *)

Beginning == {"plan", "spawn", "collect", "zero_wait"}
Loop == {"waiting", "batch", "fail_fast"}

\* Where the run can only be with an exception on its way out.
Failing ==
    {"spawn_idle", "spawn_stop", "spawn_readers", "outer_worker", "outer_sink",
     "outer_drain", "cleanup_stop", "cleanup_pumps", "cleanup_waits",
     "expire_stop", "expire_pumps", "expire_settle", "result_sink",
     "hook_sink", "timeout_worker", "timeout_sink", "observe", "run_failure",
     "guard"}

RecordTypes ==
    /\ spawned \in 0..N
    /\ stage \in [Stages -> Exited \cup {"none", "running"}]
    /\ stopped \subseteq Stages
    /\ pending \subseteq Stages
    /\ batch \subseteq Stages
    /\ codes \in [Stages -> Exited \cup {"none"}]
    /\ failure \in 0..N

BatchExited == \A i \in batch : stage[i] \in Exited

CodesTrue == \A i \in Stages : codes[i] = "none" \/ codes[i] = stage[i]

Latched ==
    /\ failure = 0 => \A i \in Stages : codes[i] # "nonzero"
    /\ failure # 0 => codes[failure] = "nonzero" /\ failure \notin stopped

Data == RecordTypes /\ BatchExited /\ CodesTrue /\ Latched

\* Nothing is recorded before the wait.
NothingRecorded ==
    /\ pc \in {"plan", "spawn"} => spawned < N
    /\ pc \in Beginning => /\ err = "none"
                           /\ batch = {}
                           /\ \A i \in Stages : codes[i] = "none"

\* The run stops nobody before it has latched a failure or has raised.
CleanUntilFailure == err = "none" /\ failure = 0 => stopped = {}

FailingHasError == pc \in Failing => err # "none"

\* No stage is lost between the pending set, the batch and the exit codes.
LoopAccounts ==
    /\ pc \in Loop => /\ err = "none"
                      /\ \A i \in Stages : \/ i \in pending
                                           \/ i \in batch
                                           \/ codes[i] # "none"
    /\ pc = "waiting" => batch = {}
    /\ pc = "fail_fast" => failure # 0

AllCoded ==
    err = "none" /\ pc \notin Beginning /\ pc \notin Loop
    => \A i \in Stages : codes[i] # "none"

Control ==
    /\ NothingRecorded
    /\ CleanUntilFailure
    /\ FailingHasError
    /\ LoopAccounts
    /\ AllCoded

IInv == Data /\ Control

-----------------------------------------------------------------------------
\* A step outside the wait that does not clear the exception on its way.
QuietControl ==
    /\ pc' \notin Beginning /\ pc' \notin Loop
    /\ pc' \in Failing => err' # "none"
    /\ err' = "none" => err = "none" /\ pc \notin Beginning /\ pc \notin Loop

\* A quiet step that touches neither the stages nor the record of them keeps
\* the invariant.
LEMMA QuietStep ==
    ASSUME IInv, QuietControl, UNCHANGED << processes, waits >>
    PROVE  IInv'
<1>1. Data'
  BY DEF IInv, Data, RecordTypes, BatchExited, CodesTrue, Latched, processes,
         waits
<1>2. NothingRecorded' /\ LoopAccounts'
  BY DEF QuietControl, NothingRecorded, LoopAccounts, Beginning, Loop
<1>3. CleanUntilFailure' /\ FailingHasError' /\ AllCoded'
  BY DEF IInv, Control, QuietControl, CleanUntilFailure, FailingHasError,
         AllCoded, processes, waits
<1>4. QED
  BY <1>1, <1>2, <1>3 DEF IInv, Control

\* The termination of any set of stages leaves what was recorded true: a stage
\* with a recorded exit has exited, so it is neither given another code nor
\* counted among the stopped.
LEMMA StopKeepsData ==
    ASSUME Data, NEW S, S \subseteq Stages, Stop(S), UNCHANGED waits
    PROVE  Data'
<1> DEFINE live == {i \in S : stage[i] = "running"}
<1>1. PICK c \in [live -> Exited] :
         stage' = [i \in Stages |-> IF i \in live THEN c[i] ELSE stage[i]]
  BY DEF Stop
<1>2. stopped' = stopped \cup live /\ spawned' = spawned
  BY DEF Stop
<1>3. /\ pending' = pending /\ batch' = batch
      /\ codes' = codes /\ failure' = failure
  BY DEF waits
<1>4. RecordTypes'
  <2>1. stage' \in [Stages -> Exited \cup {"none", "running"}]
    BY <1>1 DEF Data, RecordTypes
  <2>2. QED
    BY <1>2, <1>3, <2>1 DEF Data, RecordTypes
<1>5. \A i \in Stages : stage[i] # "running" => stage'[i] = stage[i] /\ i \notin live
  BY <1>1 DEF Data, RecordTypes
<1>6. BatchExited'
  BY <1>3, <1>5 DEF Data, RecordTypes, BatchExited, Exited
<1>7. CodesTrue'
  BY <1>3, <1>5 DEF Data, RecordTypes, CodesTrue, Exited
<1>8. Latched'
  <2>1. CASE failure = 0
    BY <1>3, <2>1 DEF Data, Latched
  <2>2. CASE failure # 0
    <3>1. failure \in Stages /\ codes[failure] = "nonzero" /\ failure \notin stopped
      BY <2>2, PipelineAssumption DEF Data, RecordTypes, Latched, Stages
    <3>2. failure \notin live
      BY <3>1, <1>5 DEF Data, CodesTrue
    <3>3. QED
      BY <1>2, <1>3, <2>2, <3>1, <3>2 DEF Latched
  <2>3. QED
    BY <2>1, <2>2
<1>9. QED
  BY <1>4, <1>6, <1>7, <1>8 DEF Data

\* A quiet step with an exception on its way may also terminate stages.
LEMMA StopStep ==
    ASSUME IInv, QuietControl, err' # "none",
           NEW S, S \subseteq Stages, Stop(S), UNCHANGED waits
    PROVE  IInv'
<1>1. Data'
  BY StopKeepsData DEF IInv
<1>2. NothingRecorded' /\ LoopAccounts'
  BY DEF QuietControl, NothingRecorded, LoopAccounts, Beginning, Loop
<1>3. CleanUntilFailure' /\ FailingHasError' /\ AllCoded'
  BY DEF CleanUntilFailure, FailingHasError, AllCoded
<1>4. QED
  BY <1>1, <1>2, <1>3 DEF IInv, Control

-----------------------------------------------------------------------------
\* The steps outside the spawn and the wait loop are quiet.
QuietSteps ==
    SpawnIdle \/ SpawnReaders \/ OuterWorker \/ OuterSink \/ OuterDrain
    \/ ZeroWait \/ CleanupPumps \/ CleanupWaits \/ CollectPumps \/ PumpFailed
    \/ WaitIdle \/ ExpirePumps \/ ExpireSettle \/ Reconcile \/ Gather
    \/ ReaderFailed \/ SettleOutputs \/ CloseWorker \/ Build \/ ResultSink
    \/ HookSink \/ SuccessSink \/ FinalDrain \/ Release \/ TimeoutWorker
    \/ TimeoutSink \/ SettleObserveTasks \/ RunFailure \/ IdleFinal \/ Guard

\* The control of a quiet step: it never clears an exception, and goes to the
\* handlers of one only with one.
LEMMA QuietStepsControl ==
    ASSUME FailingHasError, QuietSteps
    PROVE  QuietControl
<1> USE DEF QuietControl, FailingHasError, Beginning, Loop, Failing
<1>1. CASE SpawnIdle
  BY <1>1 DEF SpawnIdle, Continue, Raise
<1>2. CASE SpawnReaders
  BY <1>2 DEF SpawnReaders, Shielded, Continue, Raise
<1>3. CASE OuterWorker
  BY <1>3 DEF OuterWorker, Shielded, Continue, Raise
<1>4. CASE OuterSink
  BY <1>4 DEF OuterSink, CloseCut, Continue, Raise
<1>5. CASE OuterDrain
  BY <1>5 DEF OuterDrain, DrainTasks, Shielded, Continue, Raise
<1>6. CASE ZeroWait
  BY <1>6 DEF ZeroWait, Raise
<1>7. CASE CleanupPumps
  BY <1>7 DEF CleanupPumps, ShieldedInWait, Continue, Raise
<1>8. CASE CleanupWaits
  BY <1>8 DEF CleanupWaits, LeaveWait, WaitError, Raise
<1>9. CASE CollectPumps
  BY <1>9 DEF CollectPumps, LeaveWait, WaitError, Raise
<1>10. CASE PumpFailed
  BY <1>10 DEF PumpFailed, LeaveWait, WaitError, Raise
<1>11. CASE WaitIdle
  BY <1>11 DEF WaitIdle, Shielded, Continue, Raise
<1>12. CASE ExpirePumps
  BY <1>12 DEF ExpirePumps, AfterExpiry, Finalizer, Shielded, Continue, Raise
<1>13. CASE ExpireSettle
  BY <1>13 DEF ExpireSettle, AfterExpiry, Finalizer, Shielded, Continue,
     Raise
<1>14. CASE Reconcile
  BY <1>14 DEF Reconcile, Finalizer, Shielded, Continue, Raise
<1>15. CASE Gather
  BY <1>15 DEF Gather, Continue, Raise
<1>16. CASE ReaderFailed
  BY <1>16 DEF ReaderFailed, Raise
<1>17. CASE SettleOutputs
  BY <1>17 DEF SettleOutputs, Shielded, Continue, Raise
<1>18. CASE CloseWorker
  BY <1>18 DEF CloseWorker, Shielded, Continue, Raise
<1>19. CASE Build
  BY <1>19 DEF Build, Continue, Raise
<1>20. CASE ResultSink
  BY <1>20 DEF ResultSink, CloseCut, Continue, Raise
<1>21. CASE HookSink
  BY <1>21 DEF HookSink, CloseCut, Continue, Raise
<1>22. CASE SuccessSink
  BY <1>22 DEF SuccessSink, CloseCut, Continue, Raise
<1>23. CASE FinalDrain
  BY <1>23 DEF FinalDrain, DrainTasks, Shielded, Continue, Raise
<1>24. CASE Release
  BY <1>24 DEF Release, Shielded, Continue, Raise
<1>25. CASE TimeoutWorker
  BY <1>25 DEF TimeoutWorker, Shielded, Continue, Raise
<1>26. CASE TimeoutSink
  BY <1>26 DEF TimeoutSink, CloseCut, Continue, Raise
<1>27. CASE SettleObserveTasks
  BY <1>27 DEF SettleObserveTasks, DrainTasks, Shielded, Continue, Raise
<1>28. CASE RunFailure
  BY <1>28 DEF RunFailure, DrainTasks, Shielded, Continue, Raise
<1>29. CASE IdleFinal
  BY <1>29 DEF IdleFinal, Shielded, Continue, Raise
<1>30. CASE Guard
  BY <1>30 DEF Guard, Shielded, Continue, Raise
<1>31. QED
  BY <1>1, <1>2, <1>3, <1>4, <1>5, <1>6, <1>7, <1>8, <1>9, <1>10, <1>11,
     <1>12, <1>13, <1>14, <1>15, <1>16, <1>17, <1>18, <1>19, <1>20, <1>21,
     <1>22, <1>23, <1>24, <1>25, <1>26, <1>27, <1>28, <1>29, <1>30 DEF
     QuietSteps

\* What a quiet step leaves alone.
LEMMA QuietStepsData ==
    ASSUME QuietSteps
    PROVE  UNCHANGED << processes, waits >>
BY DEF QuietSteps, SpawnIdle, SpawnReaders, OuterWorker, OuterSink, OuterDrain,
       ZeroWait, CleanupPumps, CleanupWaits, CollectPumps, PumpFailed,
       WaitIdle, ExpirePumps, ExpireSettle, Reconcile, Gather, ReaderFailed,
       SettleOutputs, CloseWorker, Build, ResultSink, HookSink, SuccessSink,
       FinalDrain, Release, TimeoutWorker, TimeoutSink, SettleObserveTasks,
       RunFailure, IdleFinal, Guard

-----------------------------------------------------------------------------
\* The steps that move the stages or the record, one lemma each.

\* The plan events come before anything is spawned.
LEMMA PlanStep == ASSUME IInv, Plan PROVE IInv'
<1>1. Data'
  BY DEF Plan, IInv, Data, RecordTypes, BatchExited, CodesTrue, Latched,
         processes, waits
<1>2. Control'
  BY DEF Plan, IInv, Control, NothingRecorded, CleanUntilFailure,
         FailingHasError, LoopAccounts, AllCoded, Beginning, Loop, Failing,
         Continue, Raise, processes, waits
<1>3. QED
  BY <1>1, <1>2 DEF IInv

\* A spawn starts a stage nothing is recorded of.
LEMMA SpawnStep == ASSUME IInv, Spawn PROVE IInv'
<1>1. /\ pc = "spawn" /\ batch = {} /\ spawned < N
      /\ \A i \in Stages : codes[i] = "none"
  BY DEF Spawn, IInv, Control, NothingRecorded, Beginning
<1>2. UNCHANGED << pending, batch, codes, failure, stopped >>
  BY DEF Spawn, waits
<1>3. \/ /\ spawned' = spawned + 1
         /\ stage' = [stage EXCEPT ![spawned + 1] = "running"]
      \/ spawned' = spawned /\ stage' = stage
  BY DEF Spawn
<1>4. RecordTypes'
  BY <1>1, <1>2, <1>3, PipelineAssumption DEF IInv, Data, RecordTypes
<1>5. BatchExited' /\ CodesTrue' /\ Latched'
  BY <1>1, <1>2 DEF IInv, Data, BatchExited, CodesTrue, Latched
<1>6. \/ /\ pc' \in {"spawn", "collect"} /\ err' = err
         /\ pc' = "spawn" => spawned' < N
      \/ pc' \in {"spawn_idle", "spawn_stop"} /\ err' # "none"
  BY <1>1, <1>3, PipelineAssumption
     DEF Spawn, SpawnFailed, Continue, Raise, IInv, Data, RecordTypes
<1>7. Control'
  BY <1>1, <1>2, <1>6
     DEF IInv, Control, NothingRecorded, CleanUntilFailure, FailingHasError,
         LoopAccounts, AllCoded, Beginning, Loop, Failing
<1>8. QED
  BY <1>4, <1>5, <1>7 DEF IInv, Data

\* The three terminations of every spawned stage happen with an exception on
\* its way out.
LEMMA TerminationStep ==
    ASSUME IInv, SpawnStop \/ CleanupStop \/ ExpireStop
    PROVE  IInv'
<1>1. err # "none"
  BY DEF SpawnStop, CleanupStop, ExpireStop, IInv, Control, FailingHasError,
         Failing
<1>2. CASE SpawnStop
  <2>1. 1..spawned \subseteq Stages
    BY PipelineAssumption DEF IInv, Data, RecordTypes, Stages
  <2>2. QuietControl /\ err' # "none"
    BY <1>1, <1>2 DEF SpawnStop, Shielded, Continue, Raise, QuietControl,
                      Beginning, Loop
  <2>3. QED
    BY <1>2, <2>1, <2>2, StopStep DEF SpawnStop
<1>3. CASE CleanupStop
  <2>1. QuietControl /\ err' # "none"
    BY <1>1, <1>3 DEF CleanupStop, ShieldedInWait, Continue, Raise,
                      QuietControl, Beginning, Loop
  <2>2. QED
    BY <1>3, <2>1, StopStep DEF CleanupStop
<1>4. CASE ExpireStop
  <2>1. QuietControl /\ err' # "none"
    BY <1>1, <1>4 DEF ExpireStop, Shielded, AfterExpiry, Finalizer, Continue,
                      Raise, QuietControl, Beginning, Loop
  <2>2. QED
    BY <1>4, <2>1, StopStep DEF ExpireStop
<1>5. QED
  BY <1>2, <1>3, <1>4

\* The wait starts with every stage pending.
LEMMA CollectStep == ASSUME IInv, Collect PROVE IInv'
<1>1. Data'
  BY DEF Collect, IInv, Data, RecordTypes, BatchExited, CodesTrue, Latched,
         processes
<1>2. Control'
  BY DEF Collect, IInv, Control, NothingRecorded, CleanUntilFailure,
         FailingHasError, LoopAccounts, AllCoded, Beginning, Loop, Failing,
         Continue, processes
<1>3. QED
  BY <1>1, <1>2 DEF IInv

\* asyncio.wait moves exited stages from the pending set to the batch.
LEMMA WaitStep == ASSUME IInv, Wait PROVE IInv'
<1>1. /\ pc = "waiting" /\ err = "none" /\ batch = {}
      /\ \A i \in Stages : i \in pending \/ codes[i] # "none"
  BY DEF Wait, IInv, Control, LoopAccounts, Loop
<1>2. UNCHANGED << spawned, stage, stopped, codes, failure >>
  BY DEF Wait, processes
<1>3. CASE batch' = batch /\ pending' = pending /\ Raise("cancelled", "cleanup_stop")
  <2>1. Data'
    BY <1>2, <1>3 DEF IInv, Data, RecordTypes, BatchExited, CodesTrue, Latched
  <2>2. Control'
    BY <1>3 DEF Control, NothingRecorded, CleanUntilFailure, FailingHasError,
                LoopAccounts, AllCoded, Beginning, Loop, Failing, Raise
  <2>3. QED
    BY <2>1, <2>2 DEF IInv
<1>4. CASE /\ batch' = {i \in pending : stage[i] \in Exited}
           /\ pending' = pending \ {i \in pending : stage[i] \in Exited}
           /\ Continue("batch")
  <2>1. RecordTypes' /\ CodesTrue' /\ Latched'
    BY <1>2, <1>4 DEF IInv, Data, RecordTypes, CodesTrue, Latched
  <2>2. BatchExited'
    BY <1>2, <1>4 DEF BatchExited
  <2>3. pc' = "batch" /\ err' = "none"
    BY <1>1, <1>4 DEF Continue
  <2>4. \A i \in Stages : i \in pending' \/ i \in batch' \/ codes'[i] # "none"
    BY <1>1, <1>2, <1>4
  <2>5. Control'
    BY <1>1, <1>2, <2>3, <2>4
       DEF IInv, Control, NothingRecorded, CleanUntilFailure, FailingHasError,
           LoopAccounts, AllCoded, Beginning, Loop, Failing
  <2>6. QED
    BY <2>1, <2>2, <2>5 DEF IInv, Data
<1>5. QED
  BY <1>3, <1>4 DEF Wait

\* Where the loop goes on to, with everything accounted for.
LEMMA NextCompletionAccounts ==
    ASSUME NEW rest,
           \A i \in Stages : i \in pending \/ i \in rest \/ codes'[i] # "none",
           batch' = rest, pending' = pending, err' = "none",
           pc' = NextCompletion(rest)
    PROVE  /\ NothingRecorded' /\ FailingHasError'
           /\ LoopAccounts' /\ AllCoded'
BY DEF NextCompletion, NothingRecorded, FailingHasError, LoopAccounts, AllCoded,
       Beginning, Loop, Failing

\* A completion moves a stage from the batch to the exit codes, with the code
\* it exited with, and latches it if it is the first to fail.
LEMMA CompletionStep ==
    ASSUME IInv, NEW i \in Stages, ProcessCompleted(i)
    PROVE  IInv'
<1>1. /\ pc = "batch" /\ err = "none" /\ i \in batch /\ stage[i] \in Exited
      /\ \A j \in Stages : j \in pending \/ j \in batch \/ codes[j] # "none"
  BY DEF ProcessCompleted, IInv, Control, LoopAccounts, Loop, Data, BatchExited
<1>2. /\ UNCHANGED << spawned, stage, stopped, pending >>
      /\ batch' = batch \ {i}
      /\ codes' = [codes EXCEPT ![i] = stage[i]]
      /\ failure' = IF Latches(i) THEN i ELSE failure
  BY DEF ProcessCompleted, processes
<1>3. RecordTypes'
  BY <1>1, <1>2 DEF IInv, Data, RecordTypes, Stages
<1>4. BatchExited'
  BY <1>2 DEF IInv, Data, BatchExited
<1>5. CodesTrue'
  BY <1>2 DEF IInv, Data, RecordTypes, CodesTrue
<1>6. CleanUntilFailure /\ (failure = 0 => stopped = {})
  BY <1>1 DEF IInv, Control, CleanUntilFailure
<1>7. Latched'
  <2>1. CASE Latches(i)
    BY <1>2, <1>6, <2>1, PipelineAssumption
       DEF Latches, Latched, IInv, Data, RecordTypes, Stages
  <2>2. CASE ~ Latches(i) /\ failure = 0
    BY <1>2, <2>2 DEF Latches, Latched, IInv, Data, RecordTypes
  <2>3. CASE ~ Latches(i) /\ failure # 0
    <3>1. failure \in Stages /\ codes[failure] = "nonzero" /\ failure \notin stopped
      BY <2>3, PipelineAssumption DEF IInv, Data, RecordTypes, Latched, Stages
    <3>2. codes'[failure] = "nonzero"
      BY <1>2, <3>1 DEF IInv, Data, RecordTypes, CodesTrue
    <3>3. QED
      BY <1>2, <2>3, <3>1, <3>2 DEF Latched
  <2>4. QED
    BY <2>1, <2>2, <2>3
<1>8. \A j \in Stages : j \in pending \/ j \in batch' \/ codes'[j] # "none"
  BY <1>1, <1>2 DEF IInv, Data, RecordTypes, Exited
<1>9. CleanUntilFailure'
  BY <1>2, <1>6, PipelineAssumption DEF CleanUntilFailure, Stages
<1>10. NothingRecorded' /\ FailingHasError' /\ LoopAccounts' /\ AllCoded'
  <2>1. CASE pc' = NextCompletion(batch') /\ err' = err
    BY <1>1, <1>2, <1>8, <2>1, NextCompletionAccounts
  <2>2. CASE Raise("error", "cleanup_stop")
    BY <2>2 DEF Raise, NothingRecorded, FailingHasError, LoopAccounts, AllCoded,
                Beginning, Loop, Failing
  <2>3. CASE Latches(i) /\ pc' = "fail_fast" /\ err' = err
    BY <1>1, <1>2, <1>8, <2>3
       DEF NothingRecorded, FailingHasError, LoopAccounts, AllCoded, Beginning,
           Loop, Failing, Stages
  <2>4. QED
    BY <2>1, <2>2, <2>3 DEF ProcessCompleted, Continue
<1>11. QED
  BY <1>3, <1>4, <1>5, <1>7, <1>9, <1>10 DEF IInv, Data, Control

\* The fail-fast termination happens after a failure was latched.
LEMMA FailFastStep == ASSUME IInv, FailFast PROVE IInv'
<1>1. /\ pc = "fail_fast" /\ err = "none" /\ failure # 0
      /\ \A i \in Stages : i \in pending \/ i \in batch \/ codes[i] # "none"
  BY DEF FailFast, IInv, Control, LoopAccounts, Loop
<1>2. UNCHANGED << pending, batch, codes, failure >>
  BY DEF FailFast, waits
<1>3. Data'
  BY StopKeepsData DEF FailFast, StagesToTerminate, IInv
<1>4. CleanUntilFailure'
  BY <1>1, <1>2 DEF CleanUntilFailure
<1>5. NothingRecorded' /\ FailingHasError' /\ LoopAccounts' /\ AllCoded'
  <2>1. CASE pc' = NextCompletion(batch) /\ err' = err
    BY <1>1, <1>2, <2>1, NextCompletionAccounts
  <2>2. CASE pc' = "cleanup_stop" /\ err' # "none"
    BY <2>2 DEF NothingRecorded, FailingHasError, LoopAccounts, AllCoded,
                Beginning, Loop, Failing
  <2>3. QED
    BY <2>1, <2>2 DEF FailFast, ShieldedInWait, Continue, Raise
<1>6. QED
  BY <1>3, <1>4, <1>5 DEF IInv, Control

\* A stage that exits by itself was running, so nothing is recorded of it.
LEMMA ExitStep ==
    ASSUME IInv, NEW i \in Stages, StageExits(i) \/ DescendantExits(i)
    PROVE  IInv'
<1>1. UNCHANGED << pc, err, spawned, stopped, pending, batch, codes, failure >>
  BY DEF StageExits, DescendantExits, control, waits
<1>2. Control'
  BY <1>1 DEF IInv, Control, NothingRecorded, CleanUntilFailure,
              FailingHasError, LoopAccounts, AllCoded
<1>3. CASE stage' = stage
  BY <1>1, <1>2, <1>3 DEF IInv, Data, RecordTypes, BatchExited, CodesTrue, Latched
<1>4. CASE StageExits(i)
  <2>1. PICK c \in Exited : stage' = [stage EXCEPT ![i] = c]
    BY <1>4 DEF StageExits
  <2>2. stage[i] = "running"
    BY <1>4 DEF StageExits
  <2>3. RecordTypes'
    BY <1>1, <2>1 DEF IInv, Data, RecordTypes
  <2>4. BatchExited'
    BY <1>1, <2>1, <2>2 DEF IInv, Data, RecordTypes, BatchExited, Exited
  <2>5. codes[i] = "none"
    BY <2>2 DEF IInv, Data, RecordTypes, CodesTrue, Exited
  <2>6. CodesTrue' /\ Latched'
    BY <1>1, <2>1, <2>5 DEF IInv, Data, RecordTypes, CodesTrue, Latched
  <2>7. QED
    BY <1>2, <2>3, <2>4, <2>6 DEF IInv, Data
<1>5. QED
  BY <1>3, <1>4 DEF DescendantExits

-----------------------------------------------------------------------------
\* The invariant holds of every state of every run.
THEOREM InvariantHolds == Spec => []IInv
<1>1. Init => IInv
  BY PipelineAssumption
     DEF Init, IInv, Data, RecordTypes, BatchExited, CodesTrue, Latched, Control,
         NothingRecorded, CleanUntilFailure, FailingHasError, LoopAccounts,
         AllCoded, Beginning, Loop, Failing, Stages
<1>2. IInv /\ [Next]_vars => IInv'
  <2> SUFFICES ASSUME IInv, [Next]_vars PROVE IInv'
    OBVIOUS
  <2>1. CASE QuietSteps
    <3>1. FailingHasError
      BY DEF IInv, Control
    <3>2. QED
      BY <2>1, <3>1, QuietStepsControl, QuietStepsData, QuietStep
  <2>2. CASE SpawnStop \/ CleanupStop \/ ExpireStop
    BY <2>2, TerminationStep
  <2>3. CASE Plan
    BY <2>3, PlanStep
  <2>4. CASE Spawn
    BY <2>4, SpawnStep
  <2>5. CASE Collect
    BY <2>5, CollectStep
  <2>6. CASE Wait
    BY <2>6, WaitStep
  <2>7. CASE FailFast
    BY <2>7, FailFastStep
  <2>8. ASSUME NEW i \in Stages, ProcessCompleted(i) PROVE IInv'
    BY <2>8, CompletionStep
  <2>9. ASSUME NEW i \in Stages, StageExits(i) \/ DescendantExits(i) PROVE IInv'
    BY <2>9, ExitStep
  <2>10. CASE UNCHANGED vars
    BY <2>10 DEF vars, control, processes, waits, IInv, Data, RecordTypes,
                 BatchExited, CodesTrue, Latched, Control, NothingRecorded,
                 CleanUntilFailure, FailingHasError, LoopAccounts, AllCoded
  <2>11. QED
    BY <2>1, <2>2, <2>3, <2>4, <2>5, <2>6, <2>7, <2>8, <2>9, <2>10
       DEF Next, RunSteps, SpawnSteps, WaitSteps, OutputSteps, FinalSteps,
           QuietSteps
<1>3. QED
  BY <1>1, <1>2, PTL DEF Spec

\* A run that returns a result reports how every stage ended, and names as its
\* failure the first stage that failed of its own accord (record_completion and
\* _process_completed_task), whatever exits, terminations and interruptions
\* came in between.
THEOREM FirstFailureNamedHolds == Spec => []FirstFailureNamed
<1>1. IInv => FirstFailureNamed
  <2> SUFFICES ASSUME IInv, pc = "done", err = "none"
               PROVE  /\ codes = stage
                      /\ (failure = 0) = (\A i \in Stages : codes[i] = "zero")
                      /\ failure # 0 => /\ codes[failure] = "nonzero"
                                        /\ failure \notin stopped
    BY DEF FirstFailureNamed
  <2>1. \A i \in Stages : codes[i] # "none"
    BY DEF IInv, Control, AllCoded, Beginning, Loop
  <2>2. \A i \in Stages : codes[i] = stage[i]
    BY <2>1 DEF IInv, Data, CodesTrue
  <2>3. codes = stage
    BY <2>2 DEF IInv, Data, RecordTypes
  <2>4. failure # 0 => /\ failure \in Stages
                       /\ codes[failure] = "nonzero"
                       /\ failure \notin stopped
    BY PipelineAssumption DEF IInv, Data, RecordTypes, Latched, Stages
  <2>5. failure = 0 => \A i \in Stages : codes[i] = "zero"
    BY <2>1 DEF IInv, Data, RecordTypes, Latched, Exited
  <2>6. QED
    BY <2>3, <2>4, <2>5
<1>2. QED
  BY <1>1, InvariantHolds, PTL

-----------------------------------------------------------------------------
\* What the run still owns, by where it is.

Clean == landed \cap {"spawn_idle", "spawn_stop"} = {}

Outer == {"outer_worker", "outer_sink", "outer_drain"}
Ending == {"idle_final", "guard", "done"}
Finalizing ==
    {"result_sink", "hook_sink", "success_sink", "final_drain", "release",
     "timeout_sink", "observe"}

WorkerClosed ==
    pc \in Finalizing \cup Ending \cup {"outer_sink", "outer_drain", "build"}
    => ~ worker

SessionClosed ==
    \/ pc \in {"outer_drain", "final_drain", "release", "done"}
    \/ pc = "idle_final" /\ err = "none"
    => session # "open"

PumpsSettled ==
    /\ pc \in Beginning => ~ gathered
    /\ gathered => pumps = {}
    /\ pc \notin {"zero_wait", "waiting", "batch", "fail_fast", "cleanup_stop",
                  "cleanup_pumps", "collect_pumps", "wait_idle", "expire_stop",
                  "expire_pumps", "reconcile"} => pumps = {}

ReadersSettled ==
    Clean /\ (\/ pc \in Outer \cup Finalizing \cup Ending
              \/ pc \in {"plan", "close_worker", "build", "timeout_worker"}
              \/ pc = "reconcile" /\ err = "timeout")
    => readers = {}

SinksReleased == Clean /\ pc \in Outer \cup Ending \cup {"plan"} => sinks = {}

Released ==
    WorkerClosed /\ SessionClosed /\ PumpsSettled /\ ReadersSettled /\ SinksReleased

\* Every step releases what it leaves the reach of.
LEMMA ReleasedStep ==
    ASSUME FailingHasError, Released, [Next]_vars
    PROVE  Released'
<1> USE DEF FailingHasError, Failing, Released, WorkerClosed, SessionClosed,
            PumpsSettled, ReadersSettled, SinksReleased, Clean, Outer, Ending,
            Finalizing, Beginning, interrupts, control, streams, events
<1>1. CASE Plan
  BY <1>1 DEF Plan, Continue, Raise
<1>2. CASE Spawn
  BY <1>2 DEF Spawn, SpawnFailed, Uninterrupted, Cancelled, Continue, Raise
<1>3. CASE SpawnIdle
  BY <1>3 DEF SpawnIdle, Uninterrupted, Cancelled, Continue, Raise
<1>4. CASE SpawnStop
  BY <1>4 DEF SpawnStop, Shielded, Uninterrupted, Cancelled, Continue, Raise
<1>5. CASE SpawnReaders
  BY <1>5 DEF SpawnReaders, Shielded, Uninterrupted, Cancelled, Continue,
     Raise
<1>6. CASE OuterWorker
  BY <1>6 DEF OuterWorker, Shielded, Uninterrupted, Cancelled, Continue,
     Raise
<1>7. CASE OuterSink
  BY <1>7 DEF OuterSink, Uninterrupted, Cancelled, Continue, Raise, CloseCut,
     Close, Outcome
<1>8. CASE OuterDrain
  BY <1>8 DEF OuterDrain, DrainTasks, Shielded, Uninterrupted, Cancelled,
     Continue, Raise
<1>9. CASE Collect
  BY <1>9 DEF Collect, Continue
<1>10. CASE ZeroWait
  BY <1>10 DEF ZeroWait, Uninterrupted, Cancelled, Raise
<1>11. CASE Wait
  BY <1>11 DEF Wait, Uninterrupted, Cancelled, Interrupted, DeadlineExpires,
     Continue, Raise
<1>12. ASSUME NEW i \in Stages, ProcessCompleted(i) PROVE Released'
  BY <1>12 DEF ProcessCompleted, NextCompletion, Continue, Raise
<1>13. CASE FailFast
  BY <1>13 DEF FailFast, ShieldedInWait, NextCompletion, Uninterrupted,
     Cancelled, Interrupted, DeadlineExpires, Continue, Raise
<1>14. CASE CleanupStop
  BY <1>14 DEF CleanupStop, ShieldedInWait, Uninterrupted, Cancelled,
     Interrupted, DeadlineExpires, Continue, Raise
<1>15. CASE CleanupPumps
  BY <1>15 DEF CleanupPumps, ShieldedInWait, Uninterrupted, Cancelled,
     Interrupted, DeadlineExpires, Continue, Raise
<1>16. CASE CleanupWaits
  BY <1>16 DEF CleanupWaits, LeaveWait, Uninterrupted, Cancelled,
     Interrupted, DeadlineExpires, Raise
<1>17. CASE CollectPumps
  BY <1>17 DEF CollectPumps, LeaveWait, Uninterrupted, Cancelled,
     Interrupted, DeadlineExpires, Raise
<1>18. CASE PumpFailed
  BY <1>18 DEF PumpFailed, LeaveWait, Uninterrupted, Raise
<1>19. CASE WaitIdle
  BY <1>19 DEF WaitIdle, Shielded, Uninterrupted, Cancelled, Continue, Raise
<1>20. CASE ExpireStop
  BY <1>20 DEF ExpireStop, AfterExpiry, Finalizer, Shielded, Uninterrupted,
     Cancelled, Continue, Raise
<1>21. CASE ExpirePumps
  BY <1>21 DEF ExpirePumps, AfterExpiry, Finalizer, Shielded, Uninterrupted,
     Cancelled, Continue, Raise
<1>22. CASE ExpireSettle
  BY <1>22 DEF ExpireSettle, AfterExpiry, Finalizer, Shielded, Uninterrupted,
     Cancelled, Continue, Raise
<1>23. CASE Reconcile
  BY <1>23 DEF Reconcile, Finalizer, Shielded, Uninterrupted, Cancelled,
     Continue, Raise
<1>24. CASE Gather
  BY <1>24 DEF Gather, Uninterrupted, Cancelled, DeadlineExpires, Continue,
     Raise
<1>25. CASE ReaderFailed
  BY <1>25 DEF ReaderFailed, Uninterrupted, Raise
<1>26. CASE SettleOutputs
  BY <1>26 DEF SettleOutputs, Shielded, Uninterrupted, Cancelled, Continue,
     Raise
<1>27. CASE CloseWorker
  BY <1>27 DEF CloseWorker, Shielded, Uninterrupted, Cancelled, Continue,
     Raise
<1>28. CASE Build
  BY <1>28 DEF Build, Continue, Raise
<1>29. CASE ResultSink
  BY <1>29 DEF ResultSink, Uninterrupted, Cancelled, Continue, Raise,
     CloseCut, Close, Outcome
<1>30. CASE HookSink
  BY <1>30 DEF HookSink, Uninterrupted, Cancelled, Continue, Raise, CloseCut,
     Close, Outcome
<1>31. CASE SuccessSink
  BY <1>31 DEF SuccessSink, Uninterrupted, Cancelled, Continue, Raise,
     CloseCut, Close, Outcome, PipelineOutcome
<1>32. CASE FinalDrain
  BY <1>32 DEF FinalDrain, DrainTasks, Shielded, Uninterrupted, Cancelled,
     Continue, Raise
<1>33. CASE Release
  BY <1>33 DEF Release, Shielded, Uninterrupted, Cancelled, Continue, Raise
<1>34. CASE TimeoutWorker
  BY <1>34 DEF TimeoutWorker, Shielded, Uninterrupted, Cancelled, Continue,
     Raise
<1>35. CASE TimeoutSink
  BY <1>35 DEF TimeoutSink, Uninterrupted, Cancelled, Continue, Raise,
     CloseCut, Close, Outcome
<1>36. CASE SettleObserveTasks
  BY <1>36 DEF SettleObserveTasks, DrainTasks, Shielded, Uninterrupted,
     Cancelled, Continue, Raise
<1>37. CASE RunFailure
  BY <1>37 DEF RunFailure, DrainTasks, Close, Outcome, Shielded,
     Uninterrupted, Cancelled, Continue, Raise
<1>38. CASE IdleFinal
  BY <1>38 DEF IdleFinal, Shielded, Uninterrupted, Cancelled, Continue, Raise
<1>39. CASE Guard
  BY <1>39 DEF Guard, Close, Outcome, Shielded, Uninterrupted, Cancelled,
     Continue, Raise
<1>40. ASSUME NEW i \in Stages, StageExits(i) PROVE Released'
  BY <1>40 DEF StageExits
<1>41. ASSUME NEW i \in Stages, DescendantExits(i) PROVE Released'
  BY <1>41 DEF DescendantExits
<1>42. CASE UNCHANGED vars
  BY <1>42 DEF vars
<1>43. QED
  BY <1>1, <1>2, <1>3, <1>4, <1>5, <1>6, <1>7, <1>8, <1>9, <1>10, <1>11,
     <1>12, <1>13, <1>14, <1>15, <1>16, <1>17, <1>18, <1>19, <1>20, <1>21,
     <1>22, <1>23, <1>24, <1>25, <1>26, <1>27, <1>28, <1>29, <1>30, <1>31,
     <1>32, <1>33, <1>34, <1>35, <1>36, <1>37, <1>38, <1>39, <1>40, <1>41,
     <1>42 DEF Next, RunSteps, SpawnSteps, WaitSteps, OutputSteps, FinalSteps

\* What the run owns shrinks as Released says.
THEOREM ReleasedHolds == Spec => []Released
<1>1. Init => Released
  BY DEF Init, Released, WorkerClosed, SessionClosed, PumpsSettled,
         ReadersSettled, SinksReleased, Clean, Outer, Ending, Finalizing,
         Beginning
<1>2. IInv /\ Released /\ [Next]_vars => Released'
  BY ReleasedStep DEF IInv, Control
<1>3. QED
  BY <1>1, <1>2, InvariantHolds, PTL DEF Spec

\* However a run ends, and wherever it was interrupted but in the two awaits a
\* failed spawn passes first, no reader, capture sink, pump, delivery worker or
\* sink session is left behind.
THEOREM NothingLeftOpenHolds == Spec => []NothingLeftOpen
<1>1. Released => NothingLeftOpen
  BY DEF Released, WorkerClosed, SessionClosed, PumpsSettled, ReadersSettled,
         SinksReleased, Clean, Ending, Beginning, NothingLeftOpen
<1>2. QED
  BY <1>1, ReleasedHolds, PTL

-----------------------------------------------------------------------------
\* Where stages may be running.

NoneRunning == \A i \in Stages : stage[i] # "running"

\* The cancellations nobody terminates the stages for.
Excused ==
    \/ landed \cap {"spawn_idle", "zero_wait"} # {}
    \/ deadline = "elapsed" /\ "wait_idle" \in landed

MayRun ==
    \/ pc \in {"spawn", "spawn_idle", "spawn_stop", "collect", "zero_wait",
               "waiting", "batch", "fail_fast", "cleanup_stop", "expire_stop"}
    \/ pc = "wait_idle" /\ deadline = "elapsed" /\ err = "timeout"

Reclaimed ==
    /\ MayRun \/ Excused \/ NoneRunning
    /\ pc \in {"plan", "spawn", "spawn_idle", "spawn_stop"}
       => \A i \in Stages : i > spawned => stage[i] = "none"
    /\ pc = "zero_wait" => deadline = "elapsed"

\* The termination of every stage that was spawned leaves none running.
LEMMA StopReclaims ==
    ASSUME NEW S, S \subseteq Stages, Stop(S),
           \A i \in Stages : i \notin S => stage[i] # "running"
    PROVE  NoneRunning'
BY DEF Stop, NoneRunning, Exited

\* A quiet step starts no stage, and leaves the places where stages may run
\* only by an interruption that is excused.
LEMMA QuietReclaims ==
    ASSUME IInv, Reclaimed, QuietSteps
    PROVE  Reclaimed'
<1> NoneRunning => NoneRunning'
  BY QuietStepsData DEF processes, NoneRunning
<1> USE DEF Reclaimed, MayRun, Excused, IInv, Control, FailingHasError, Failing,
            interrupts
<1>1. CASE SpawnIdle
  BY <1>1 DEF SpawnIdle, Uninterrupted, Cancelled, Continue, Raise, processes
<1>2. CASE SpawnReaders
  BY <1>2 DEF SpawnReaders, Shielded, Uninterrupted, Cancelled, Continue,
     Raise
<1>3. CASE OuterWorker
  BY <1>3 DEF OuterWorker, Shielded, Uninterrupted, Cancelled, Continue,
     Raise
<1>4. CASE OuterSink
  BY <1>4 DEF OuterSink, Uninterrupted, Cancelled, Continue, Raise, CloseCut
<1>5. CASE OuterDrain
  BY <1>5 DEF OuterDrain, DrainTasks, Shielded, Uninterrupted, Cancelled,
     Continue, Raise
<1>6. CASE ZeroWait
  BY <1>6 DEF ZeroWait, Uninterrupted, Cancelled, Raise
<1>7. CASE CleanupPumps
  BY <1>7 DEF CleanupPumps, ShieldedInWait, Uninterrupted, Cancelled,
     Interrupted, DeadlineExpires, Continue, Raise
<1>8. CASE CleanupWaits
  BY <1>8 DEF CleanupWaits, LeaveWait, WaitError, Uninterrupted, Cancelled,
     Interrupted, DeadlineExpires, Raise
<1>9. CASE CollectPumps
  BY <1>9 DEF CollectPumps, LeaveWait, WaitError, Uninterrupted, Cancelled,
     Interrupted, DeadlineExpires, Raise
<1>10. CASE PumpFailed
  BY <1>10 DEF PumpFailed, LeaveWait, WaitError, Uninterrupted, Raise
<1>11. CASE WaitIdle
  BY <1>11 DEF WaitIdle, Shielded, Uninterrupted, Cancelled, Continue, Raise
<1>12. CASE ExpirePumps
  BY <1>12 DEF ExpirePumps, AfterExpiry, Finalizer, Shielded, Uninterrupted,
     Cancelled, Continue, Raise
<1>13. CASE ExpireSettle
  BY <1>13 DEF ExpireSettle, AfterExpiry, Finalizer, Shielded, Uninterrupted,
     Cancelled, Continue, Raise
<1>14. CASE Reconcile
  BY <1>14 DEF Reconcile, Finalizer, Shielded, Uninterrupted, Cancelled,
     Continue, Raise
<1>15. CASE Gather
  BY <1>15 DEF Gather, Uninterrupted, Cancelled, DeadlineExpires, Continue,
     Raise
<1>16. CASE ReaderFailed
  BY <1>16 DEF ReaderFailed, Uninterrupted, Raise
<1>17. CASE SettleOutputs
  BY <1>17 DEF SettleOutputs, Shielded, Uninterrupted, Cancelled, Continue,
     Raise
<1>18. CASE CloseWorker
  BY <1>18 DEF CloseWorker, Shielded, Uninterrupted, Cancelled, Continue,
     Raise
<1>19. CASE Build
  BY <1>19 DEF Build, Continue, Raise
<1>20. CASE ResultSink
  BY <1>20 DEF ResultSink, Uninterrupted, Cancelled, Continue, Raise,
     CloseCut
<1>21. CASE HookSink
  BY <1>21 DEF HookSink, Uninterrupted, Cancelled, Continue, Raise, CloseCut
<1>22. CASE SuccessSink
  BY <1>22 DEF SuccessSink, Uninterrupted, Cancelled, Continue, Raise,
     CloseCut
<1>23. CASE FinalDrain
  BY <1>23 DEF FinalDrain, DrainTasks, Shielded, Uninterrupted, Cancelled,
     Continue, Raise
<1>24. CASE Release
  BY <1>24 DEF Release, Shielded, Uninterrupted, Cancelled, Continue, Raise
<1>25. CASE TimeoutWorker
  BY <1>25 DEF TimeoutWorker, Shielded, Uninterrupted, Cancelled, Continue,
     Raise
<1>26. CASE TimeoutSink
  BY <1>26 DEF TimeoutSink, Uninterrupted, Cancelled, Continue, Raise,
     CloseCut
<1>27. CASE SettleObserveTasks
  BY <1>27 DEF SettleObserveTasks, DrainTasks, Shielded, Uninterrupted,
     Cancelled, Continue, Raise
<1>28. CASE RunFailure
  BY <1>28 DEF RunFailure, DrainTasks, Shielded, Uninterrupted, Cancelled,
     Continue, Raise
<1>29. CASE IdleFinal
  BY <1>29 DEF IdleFinal, Shielded, Uninterrupted, Cancelled, Continue, Raise
<1>30. CASE Guard
  BY <1>30 DEF Guard, Shielded, Uninterrupted, Cancelled, Continue, Raise
<1>31. QED
  BY <1>1, <1>2, <1>3, <1>4, <1>5, <1>6, <1>7, <1>8, <1>9, <1>10, <1>11,
     <1>12, <1>13, <1>14, <1>15, <1>16, <1>17, <1>18, <1>19, <1>20, <1>21,
     <1>22, <1>23, <1>24, <1>25, <1>26, <1>27, <1>28, <1>29, <1>30 DEF
     QuietSteps

\* Every other step goes where stages may run, or leaves none running.
LEMMA ReclaimedStep ==
    ASSUME IInv, IInv', Reclaimed, [Next]_vars
    PROVE  Reclaimed'
<1> USE DEF Reclaimed, MayRun
<1>1. err' = "none" /\ pc' = "collect_pumps" => NoneRunning'
  BY DEF IInv, Control, AllCoded, Data, CodesTrue, RecordTypes, Exited,
         Beginning, Loop, NoneRunning
<1>2. CASE QuietSteps
  BY <1>2, QuietReclaims
<1>3. CASE Plan
  BY <1>3 DEF Plan, Continue, Raise, processes, interrupts, Excused, NoneRunning
<1>4. CASE Spawn
  <2>1. pc' \in {"spawn", "collect", "spawn_idle", "spawn_stop"}
    BY <1>4 DEF Spawn, SpawnFailed, Continue, Raise
  <2>2. \/ /\ spawned' = spawned + 1
           /\ stage' = [stage EXCEPT ![spawned + 1] = "running"]
        \/ spawned' = spawned /\ stage' = stage
    BY <1>4 DEF Spawn
  <2>3. \A i \in Stages : i > spawned => stage[i] = "none"
    BY <1>4 DEF Spawn
  <2>4. \A i \in Stages : i > spawned' => stage'[i] = "none"
    BY <2>2, <2>3, PipelineAssumption DEF IInv, Data, RecordTypes, Stages
  <2>5. QED
    BY <2>1, <2>4
<1>5. CASE SpawnStop
  <2>1. pc' \in {"spawn_readers", "outer_worker"}
    BY <1>5 DEF SpawnStop, Shielded, Continue, Raise
  <2>2. /\ 1..spawned \subseteq Stages
        /\ \A i \in Stages : i \notin 1..spawned => stage[i] # "running"
    BY <1>5, PipelineAssumption
       DEF SpawnStop, IInv, Data, RecordTypes, Stages
  <2>3. NoneRunning'
    BY <1>5, <2>2, StopReclaims DEF SpawnStop
  <2>4. QED
    BY <2>1, <2>3
<1>6. CASE Collect
  BY <1>6 DEF Collect, Continue, interrupts
<1>7. CASE Wait
  BY <1>7 DEF Wait, Continue, Raise
<1>8. ASSUME NEW i \in Stages, ProcessCompleted(i) PROVE Reclaimed'
  <2>1. err = "none"
    BY <1>8 DEF ProcessCompleted, IInv, Control, LoopAccounts, Loop
  <2>2. QED
    BY <1>1, <1>8, <2>1 DEF ProcessCompleted, NextCompletion, Continue, Raise
<1>9. CASE FailFast
  <2>1. err = "none"
    BY <1>9 DEF FailFast, IInv, Control, LoopAccounts, Loop
  <2>2. QED
    BY <1>1, <1>9, <2>1 DEF FailFast, NextCompletion, ShieldedInWait, Continue,
                            Raise
<1>10. CASE CleanupStop \/ ExpireStop
  <2>1. NoneRunning'
    BY <1>10, StopReclaims DEF CleanupStop, ExpireStop
  <2>2. pc' \notin {"plan", "spawn", "spawn_idle", "spawn_stop", "zero_wait"}
    BY <1>10 DEF CleanupStop, ExpireStop, Shielded, ShieldedInWait, AfterExpiry,
                 Finalizer, Continue, Raise
  <2>3. QED
    BY <2>1, <2>2
<1>11. ASSUME NEW i \in Stages, StageExits(i) \/ DescendantExits(i) PROVE Reclaimed'
  <2>1. UNCHANGED << pc, err, deadline, landed, spawned >>
    BY <1>11 DEF StageExits, DescendantExits, control, interrupts
  <2>2. \A j \in Stages : \/ stage'[j] = stage[j]
                          \/ stage[j] = "running" /\ stage'[j] # "running"
    BY <1>11 DEF StageExits, DescendantExits, Exited, IInv, Data, RecordTypes
  <2>3. QED
    BY <2>1, <2>2 DEF Excused, NoneRunning
<1>12. CASE UNCHANGED vars
  BY <1>12 DEF vars, control, interrupts, processes, Excused, NoneRunning
<1>13. QED
  BY <1>2, <1>3, <1>4, <1>5, <1>6, <1>7, <1>8, <1>9, <1>10, <1>11, <1>12
     DEF Next, RunSteps, SpawnSteps, WaitSteps, OutputSteps, FinalSteps,
         QuietSteps

\* A run leaves no stage running, however it ends, except by a cancellation at
\* one of the three awaits StagesReclaimed names.
THEOREM StagesReclaimedHolds == Spec => []StagesReclaimed
<1>1. Init => Reclaimed
  BY DEF Init, Reclaimed, MayRun, NoneRunning, Excused
<1>2. IInv /\ IInv' /\ Reclaimed /\ [Next]_vars => Reclaimed'
  BY ReclaimedStep
<1>3. Reclaimed => StagesReclaimed
  BY DEF Reclaimed, MayRun, Excused, NoneRunning, StagesReclaimed,
         NoStageLeftRunning
<1>4. QED
  BY <1>1, <1>2, <1>3, InvariantHolds, PTL DEF Spec

\* Stages, readers, sinks, pumps, worker and session are settled whatever ends
\* a run, but for a cancellation at one of the named awaits.
THEOREM RunReclaimedHolds == Spec => []RunReclaimed
BY StagesReclaimedHolds, NothingLeftOpenHolds, PTL DEF RunReclaimed

-----------------------------------------------------------------------------
(***************************************************************************)
(* What the observers, the session and the process groups are owed.        *)
(*                                                                         *)
(* Told and drained: at every await past the close of the session the      *)
(* settled events are out, unless what stood between was interrupted.      *)
(* Story: before the session is closed only a failed spawn has settled a   *)
(* stage, with the error the close is about to name; afterwards the        *)
(* session and the codes recorded say what was settled.                    *)
(* Groups: an expiry, and a cancellation of the wait, is on its way to a   *)
(* termination of every stage or has passed one, after which no leader is  *)
(* left to fork.                                                           *)
(***************************************************************************)

\* The awaits at which the session may be closed.
Closed ==
    {"outer_drain", "final_drain", "release", "observe", "idle_final", "guard",
     "done"}

StillOpen == pc \notin Closed => session = "open"

\* What excuses a run from its settled events.
Untold == landed \cap Closings # {} \/ session = "failed"

Told ==
    /\ planned \subseteq Stages
    /\ pc \in Closed => Untold \/ \A i \in planned : settled[i] # "none"
    /\ pc \in {"release", "idle_final", "guard", "done"} => Untold \/ ~ undrained

\* A result is on its way.
Succeeding == pc \in {"gather", "settle", "close_worker", "build", "success_sink"}
              => err = "none"

Results == {"exit_zero", "exit_nonzero"}

Story ==
    session # "failed" /\ "outer_worker" \notin landed =>
      \A i \in Stages : settled[i] # "none" =>
        /\ session = "open" =>
              pc \in {"outer_worker", "outer_sink"} /\ settled[i] = Outcome(err)
        /\ session \in Results =>
              codes[i] # "none" /\ settled[i] = ResultOutcome(codes[i])
        /\ session \notin Results \cup {"open"} => settled[i] = session

\* Nobody is left of any stage, and nobody is left to fork.
Emptied == desc = {} /\ NoneRunning

WaitCancelled == landed \cap {"waiting", "fail_fast"} # {}

Groups ==
    /\ desc \subseteq Stages
    /\ pc \in {"plan", "spawn"} => ~ WaitCancelled
    /\ pc \in {"expire_stop", "expire_pumps", "expire_settle",
               "timeout_worker", "timeout_sink"} => err = "timeout"
    /\ owned /\ WaitCancelled => pc = "cleanup_stop" \/ Emptied
    /\ owned /\ err = "timeout" => pc \in {"wait_idle", "expire_stop"} \/ Emptied
    /\ owned /\ session = "timeout" => Emptied

Observed == StillOpen /\ Told /\ Succeeding /\ Story /\ cancels \in Nat

\* Every step keeps the session and the observers to the same story.
LEMMA ObservedStep ==
    ASSUME IInv, Observed, [Next]_vars
    PROVE  Observed'
<1> USE DEF IInv, Control, FailingHasError, Failing, AllCoded, Beginning, Loop,
            Observed, StillOpen, Told, Succeeding, Story, Closed, Untold,
            Results, Closings, interrupts, control, waits, events
<1>1. CASE Plan
  <2>1. planned' \subseteq Stages
    BY <1>1, PipelineAssumption DEF Plan, Stages
  <2>2. QED
    BY <1>1, <2>1 DEF Plan, Continue, Raise
<1>2. CASE Spawn
  BY <1>2 DEF Spawn, SpawnFailed, Uninterrupted, Cancelled, Continue, Raise
<1>3. CASE SpawnIdle
  BY <1>3 DEF SpawnIdle, Uninterrupted, Cancelled, Continue, Raise
<1>4. CASE SpawnStop
  BY <1>4 DEF SpawnStop, Shielded, Uninterrupted, Cancelled, Continue, Raise
<1>5. CASE SpawnReaders
  BY <1>5 DEF SpawnReaders, Shielded, EmitTerminalEvents, EmitTerminal,
     Outcome, Uninterrupted, Cancelled, Continue, Raise
<1>6. CASE OuterWorker
  BY <1>6 DEF OuterWorker, Shielded, Uninterrupted, Cancelled, Continue, Raise
<1>7. CASE OuterSink
  BY <1>7 DEF OuterSink, CloseCut, Close, EmitTerminalEvents, EmitTerminal,
     Outcome, Uninterrupted, Cancelled, Continue, Raise
<1>8. CASE OuterDrain
  BY <1>8 DEF OuterDrain, Shielded, DrainTasks, Uninterrupted, Cancelled,
     Continue, Raise
<1>9. CASE Collect
  BY <1>9 DEF Collect, Continue, Raise
<1>10. CASE ZeroWait
  BY <1>10 DEF ZeroWait, Uninterrupted, Cancelled, Raise
<1>11. CASE Wait
  BY <1>11 DEF Wait, Uninterrupted, Interrupted, Cancelled, DeadlineExpires,
     Continue, Raise
<1>12. ASSUME NEW i \in Stages, ProcessCompleted(i) PROVE Observed'
  BY <1>12 DEF ProcessCompleted, NextCompletion, Continue, Raise
<1>13. CASE FailFast
  BY <1>13 DEF FailFast, ShieldedInWait, NextCompletion, Uninterrupted,
     Interrupted, Cancelled, DeadlineExpires, Continue, Raise
<1>14. CASE CleanupStop
  BY <1>14 DEF CleanupStop, ShieldedInWait, Uninterrupted, Interrupted,
     Cancelled, DeadlineExpires, Continue, Raise
<1>15. CASE CleanupPumps
  BY <1>15 DEF CleanupPumps, ShieldedInWait, Uninterrupted, Interrupted,
     Cancelled, DeadlineExpires, Continue, Raise
<1>16. CASE CleanupWaits
  BY <1>16 DEF CleanupWaits, LeaveWait, WaitError, Uninterrupted, Interrupted,
     Cancelled, DeadlineExpires, Raise
<1>17. CASE CollectPumps
  BY <1>17 DEF CollectPumps, LeaveWait, WaitError, Uninterrupted, Interrupted,
     Cancelled, DeadlineExpires, Raise
<1>18. CASE PumpFailed
  BY <1>18 DEF PumpFailed, LeaveWait, WaitError, Uninterrupted, Raise
<1>19. CASE WaitIdle
  BY <1>19 DEF WaitIdle, Shielded, Uninterrupted, Cancelled, Continue, Raise
<1>20. CASE ExpireStop
  BY <1>20 DEF ExpireStop, Shielded, AfterExpiry, Finalizer, Uninterrupted,
     Cancelled, Continue, Raise
<1>21. CASE ExpirePumps
  BY <1>21 DEF ExpirePumps, Shielded, AfterExpiry, Finalizer, Uninterrupted,
     Cancelled, Continue, Raise
<1>22. CASE ExpireSettle
  BY <1>22 DEF ExpireSettle, Shielded, AfterExpiry, Finalizer, Uninterrupted,
     Cancelled, Continue, Raise
<1>23. CASE Reconcile
  BY <1>23 DEF Reconcile, Shielded, Finalizer, Uninterrupted, Cancelled,
     Continue, Raise
<1>24. CASE Gather
  BY <1>24 DEF Gather, Uninterrupted, Cancelled, DeadlineExpires, Continue,
     Raise
<1>25. CASE ReaderFailed
  BY <1>25 DEF ReaderFailed, Uninterrupted, Raise
<1>26. CASE SettleOutputs
  BY <1>26 DEF SettleOutputs, Shielded, Uninterrupted, Cancelled, Continue,
     Raise
<1>27. CASE CloseWorker
  BY <1>27 DEF CloseWorker, Shielded, Uninterrupted, Cancelled, Continue,
     Raise
<1>28. CASE Build
  BY <1>28 DEF Build, Continue, Raise
<1>29. CASE ResultSink
  BY <1>29 DEF ResultSink, CloseCut, Close, EmitTerminalEvents, EmitTerminal,
     Outcome, Uninterrupted, Cancelled, Continue, Raise
<1>30. CASE HookSink
  BY <1>30 DEF HookSink, CloseCut, Close, EmitTerminalEvents, EmitTerminal,
     Outcome, Uninterrupted, Cancelled, Continue, Raise
<1>31. CASE SuccessSink
  BY <1>31 DEF SuccessSink, CloseCut, Close, EmitTerminal, ResultOutcome,
     PipelineOutcome, Uninterrupted, Cancelled, Continue, Raise
<1>32. CASE FinalDrain
  BY <1>32 DEF FinalDrain, Shielded, DrainTasks, Uninterrupted, Cancelled,
     Continue, Raise
<1>33. CASE Release
  BY <1>33 DEF Release, Shielded, Uninterrupted, Cancelled, Continue, Raise
<1>34. CASE TimeoutWorker
  BY <1>34 DEF TimeoutWorker, Shielded, Uninterrupted, Cancelled, Continue,
     Raise
<1>35. CASE TimeoutSink
  BY <1>35 DEF TimeoutSink, CloseCut, Close, EmitTerminalEvents, EmitTerminal,
     Uninterrupted, Cancelled, Continue, Raise
<1>36. CASE SettleObserveTasks
  BY <1>36 DEF SettleObserveTasks, Shielded, DrainTasks, Uninterrupted,
     Cancelled, Continue, Raise
<1>37. CASE RunFailure
  BY <1>37 DEF RunFailure, Shielded, DrainTasks, Close, EmitTerminalEvents,
     EmitTerminal, Outcome, Uninterrupted, Cancelled, Continue, Raise
<1>38. CASE IdleFinal
  BY <1>38 DEF IdleFinal, Shielded, Uninterrupted, Cancelled, Continue, Raise
<1>39. CASE Guard
  BY <1>39 DEF Guard, Shielded, Close, Outcome, Uninterrupted, Cancelled,
     Continue, Raise
<1>40. ASSUME NEW i \in Stages, StageExits(i) PROVE Observed'
  BY <1>40 DEF StageExits
<1>41. ASSUME NEW i \in Stages, DescendantExits(i) PROVE Observed'
  BY <1>41 DEF DescendantExits
<1>42. CASE UNCHANGED vars
  BY <1>42 DEF vars
<1>43. QED
  BY <1>1, <1>2, <1>3, <1>4, <1>5, <1>6, <1>7, <1>8, <1>9, <1>10, <1>11,
     <1>12, <1>13, <1>14, <1>15, <1>16, <1>17, <1>18, <1>19, <1>20, <1>21,
     <1>22, <1>23, <1>24, <1>25, <1>26, <1>27, <1>28, <1>29, <1>30, <1>31,
     <1>32, <1>33, <1>34, <1>35, <1>36, <1>37, <1>38, <1>39, <1>40, <1>41,
     <1>42
     DEF Next, RunSteps, SpawnSteps, WaitSteps, OutputSteps, FinalSteps

\* The termination of any set of stages leaves an emptied pipeline empty, and
\* that of every stage of owned groups empties it.
LEMMA StopEmpties ==
    ASSUME owned, desc \subseteq Stages, NEW S, S \subseteq Stages, Stop(S)
    PROVE  /\ desc' \subseteq Stages
           /\ Emptied => Emptied'
           /\ S = Stages => Emptied'
<1>1. desc' = desc \ S
  BY DEF Stop
<1>2. \A i \in Stages : stage'[i] = "running" => i \notin S /\ stage[i] = "running"
  BY DEF Stop, Exited
<1>3. QED
  BY <1>1, <1>2 DEF Emptied, NoneRunning

\* The descendants a termination leaves are descendants of stages.
LEMMA StopDescendants ==
    ASSUME desc \subseteq Stages, NEW S, S \subseteq Stages, Stop(S)
    PROVE  desc' \subseteq Stages
BY DEF Stop

\* Every step keeps expired and cancelled runs to the termination they owe.
LEMMA GroupsStep ==
    ASSUME IInv, StillOpen, Groups, [Next]_vars
    PROVE  Groups'
<1> USE DEF IInv, Data, Control, NothingRecorded, LoopAccounts,
            FailingHasError, Failing, Beginning, Loop, StillOpen, Closed,
            Groups, WaitCancelled, Emptied, NoneRunning, setup, interrupts,
            control, processes, events
<1>1. CASE Plan
  BY <1>1 DEF Plan, Continue, Raise
<1>2. CASE Spawn
  BY <1>2 DEF Spawn, SpawnFailed, Uninterrupted, Cancelled, Continue, Raise
<1>3. CASE SpawnIdle
  BY <1>3 DEF SpawnIdle, Uninterrupted, Cancelled, Continue, Raise
<1>4. CASE SpawnStop
  <2>1. 1..spawned \subseteq Stages
    BY PipelineAssumption DEF RecordTypes, Stages
  <2>2. desc' \subseteq Stages /\ (owned => (Emptied => Emptied'))
    BY <1>4, <2>1, StopDescendants, StopEmpties DEF SpawnStop
  <2>3. QED
    BY <1>4, <2>2 DEF SpawnStop, Shielded, Uninterrupted,
     Cancelled, Continue, Raise
<1>5. CASE SpawnReaders
  BY <1>5 DEF SpawnReaders, Shielded, Outcome, Uninterrupted, Cancelled,
     Continue, Raise
<1>6. CASE OuterWorker
  BY <1>6 DEF OuterWorker, Shielded, Uninterrupted, Cancelled, Continue, Raise
<1>7. CASE OuterSink
  BY <1>7 DEF OuterSink, CloseCut, Close, Outcome, Uninterrupted, Cancelled,
     Continue, Raise
<1>8. CASE OuterDrain
  BY <1>8 DEF OuterDrain, Shielded, DrainTasks, Uninterrupted, Cancelled,
     Continue, Raise
<1>9. CASE Collect
  BY <1>9 DEF Collect, Continue, Raise
<1>10. CASE ZeroWait
  BY <1>10 DEF ZeroWait, Uninterrupted, Cancelled, Raise
<1>11. CASE Wait
  BY <1>11 DEF Wait, Uninterrupted, Interrupted, Cancelled, DeadlineExpires,
     Continue, Raise
<1>12. ASSUME NEW i \in Stages, ProcessCompleted(i) PROVE Groups'
  BY <1>12 DEF ProcessCompleted, NextCompletion, Continue, Raise
<1>13. CASE FailFast
  <2>1. StagesToTerminate(failure) \subseteq Stages
    BY DEF StagesToTerminate
  <2>2. desc' \subseteq Stages /\ (owned => (Emptied => Emptied'))
    BY <1>13, <2>1, StopDescendants, StopEmpties DEF FailFast
  <2>3. QED
    BY <1>13, <2>2 DEF FailFast, ShieldedInWait, NextCompletion,
     Uninterrupted, Interrupted, Cancelled, DeadlineExpires, Continue, Raise
<1>14. CASE CleanupStop
  <2>1. desc' \subseteq Stages /\ (owned => Emptied')
    BY <1>14, StopDescendants, StopEmpties DEF CleanupStop
  <2>2. QED
    BY <1>14, <2>1 DEF CleanupStop, ShieldedInWait, Uninterrupted,
     Interrupted, Cancelled, DeadlineExpires, Continue, Raise
<1>15. CASE CleanupPumps
  BY <1>15 DEF CleanupPumps, ShieldedInWait, Uninterrupted, Interrupted,
     Cancelled, DeadlineExpires, Continue, Raise
<1>16. CASE CleanupWaits
  BY <1>16 DEF CleanupWaits, LeaveWait, WaitError, Uninterrupted, Interrupted,
     Cancelled, DeadlineExpires, Raise
<1>17. CASE CollectPumps
  BY <1>17 DEF CollectPumps, LeaveWait, WaitError, Uninterrupted, Interrupted,
     Cancelled, DeadlineExpires, Raise
<1>18. CASE PumpFailed
  BY <1>18 DEF PumpFailed, LeaveWait, WaitError, Uninterrupted, Raise
<1>19. CASE WaitIdle
  BY <1>19 DEF WaitIdle, Shielded, Uninterrupted, Cancelled, Continue, Raise
<1>20. CASE ExpireStop
  <2>1. desc' \subseteq Stages /\ (owned => Emptied')
    BY <1>20, StopDescendants, StopEmpties DEF ExpireStop
  <2>2. QED
    BY <1>20, <2>1 DEF ExpireStop, Shielded, AfterExpiry,
     Finalizer, Uninterrupted, Cancelled, Continue, Raise
<1>21. CASE ExpirePumps
  BY <1>21 DEF ExpirePumps, Shielded, AfterExpiry, Finalizer, Uninterrupted,
     Cancelled, Continue, Raise
<1>22. CASE ExpireSettle
  BY <1>22 DEF ExpireSettle, Shielded, AfterExpiry, Finalizer, Uninterrupted,
     Cancelled, Continue, Raise
<1>23. CASE Reconcile
  BY <1>23 DEF Reconcile, Shielded, Finalizer, Uninterrupted, Cancelled,
     Continue, Raise
<1>24. CASE Gather
  BY <1>24 DEF Gather, Uninterrupted, Cancelled, DeadlineExpires, Continue,
     Raise
<1>25. CASE ReaderFailed
  BY <1>25 DEF ReaderFailed, Uninterrupted, Raise
<1>26. CASE SettleOutputs
  BY <1>26 DEF SettleOutputs, Shielded, Uninterrupted, Cancelled, Continue,
     Raise
<1>27. CASE CloseWorker
  BY <1>27 DEF CloseWorker, Shielded, Uninterrupted, Cancelled, Continue,
     Raise
<1>28. CASE Build
  BY <1>28 DEF Build, Continue, Raise
<1>29. CASE ResultSink
  BY <1>29 DEF ResultSink, CloseCut, Close, Outcome, Uninterrupted, Cancelled,
     Continue, Raise
<1>30. CASE HookSink
  BY <1>30 DEF HookSink, CloseCut, Close, Outcome, Uninterrupted, Cancelled,
     Continue, Raise
<1>31. CASE SuccessSink
  BY <1>31 DEF SuccessSink, CloseCut, Close, PipelineOutcome, Uninterrupted,
     Cancelled, Continue, Raise
<1>32. CASE FinalDrain
  BY <1>32 DEF FinalDrain, Shielded, DrainTasks, Uninterrupted, Cancelled,
     Continue, Raise
<1>33. CASE Release
  BY <1>33 DEF Release, Shielded, Uninterrupted, Cancelled, Continue, Raise
<1>34. CASE TimeoutWorker
  BY <1>34 DEF TimeoutWorker, Shielded, Uninterrupted, Cancelled, Continue,
     Raise
<1>35. CASE TimeoutSink
  BY <1>35 DEF TimeoutSink, CloseCut, Close, Uninterrupted, Cancelled,
     Continue, Raise
<1>36. CASE SettleObserveTasks
  BY <1>36 DEF SettleObserveTasks, Shielded, DrainTasks, Uninterrupted,
     Cancelled, Continue, Raise
<1>37. CASE RunFailure
  BY <1>37 DEF RunFailure, Shielded, DrainTasks, Close, Outcome,
     Uninterrupted, Cancelled, Continue, Raise
<1>38. CASE IdleFinal
  BY <1>38 DEF IdleFinal, Shielded, Uninterrupted, Cancelled, Continue, Raise
<1>39. CASE Guard
  BY <1>39 DEF Guard, Shielded, Close, Outcome, Uninterrupted, Cancelled,
     Continue, Raise
<1>40. ASSUME NEW i \in Stages, StageExits(i) PROVE Groups'
  BY <1>40 DEF StageExits
<1>41. ASSUME NEW i \in Stages, DescendantExits(i) PROVE Groups'
  BY <1>41 DEF DescendantExits
<1>42. CASE UNCHANGED vars
  BY <1>42 DEF vars
<1>43. QED
  BY <1>1, <1>2, <1>3, <1>4, <1>5, <1>6, <1>7, <1>8, <1>9, <1>10, <1>11,
     <1>12, <1>13, <1>14, <1>15, <1>16, <1>17, <1>18, <1>19, <1>20, <1>21,
     <1>22, <1>23, <1>24, <1>25, <1>26, <1>27, <1>28, <1>29, <1>30, <1>31,
     <1>32, <1>33, <1>34, <1>35, <1>36, <1>37, <1>38, <1>39, <1>40, <1>41,
     <1>42
     DEF Next, RunSteps, SpawnSteps, WaitSteps, OutputSteps, FinalSteps

\* However a run ends, every planned stage is settled, the session and the
\* observers are told the same, and the owned groups of a run that expired or
\* was cancelled while it waited are empty, but for the interruptions the three
\* properties name.
THEOREM RunAccountedHolds == Spec => []RunAccounted
<1>1. Init => Observed /\ Groups
  BY PipelineAssumption DEF Init, Observed, StillOpen, Told, Succeeding, Story,
     Closed, Groups, WaitCancelled
<1>2. IInv /\ (Observed /\ Groups) /\ [Next]_vars => (Observed /\ Groups)'
  BY ObservedStep, GroupsStep DEF Observed
<1>3. Observed => EveryStageSettled
  BY DEF Observed, Told, Untold, Closed, EveryStageSettled
<1>4. IInv /\ Released /\ Observed => OneStory
  <2> SUFFICES ASSUME IInv, Released, Observed,
                      pc = "done", session # "failed", "outer_worker" \notin landed,
                      NEW i \in Stages, settled[i] # "none"
               PROVE  settled[i] = IF session \in {"exit_zero", "exit_nonzero"}
                                   THEN ResultOutcome(stage[i]) ELSE session
    BY DEF OneStory
  <2>1. session # "open"
    BY DEF Released, SessionClosed
  <2>2. CASE session \in Results
    <3>1. codes[i] # "none" /\ settled[i] = ResultOutcome(codes[i])
      BY <2>2 DEF Observed, Story
    <3>2. codes[i] = stage[i]
      BY <3>1 DEF IInv, Data, CodesTrue
    <3>3. QED
      BY <2>2, <3>1, <3>2 DEF Results
  <2>3. CASE session \notin Results
    BY <2>1, <2>3 DEF Observed, Story, Results
  <2>4. QED
    BY <2>2, <2>3
<1>5. Groups => OwnedGroupsReclaimed
  BY DEF Groups, WaitCancelled, Emptied, OwnedGroupsReclaimed
<1>6. QED
  BY <1>1, <1>2, <1>3, <1>4, <1>5, InvariantHolds, ReleasedHolds, PTL
     DEF Spec, RunAccounted
=============================================================================
