---------------------------- MODULE StreamProofs ----------------------------
(***************************************************************************)
(* Safety of a child's stdin writer and of a reader of its lines.          *)
(*                                                                         *)
(* The stdin writer (StdinWriter), for every close grace, settle grace,    *)
(* positive slack and number of reclaims: type correctness, the release of *)
(* the pipe and the producer, the containment of the writer's cleanup in   *)
(* the reclaim budget, and the naming of its failures.                     *)
(* ReclaimContainsCleanup is not inductive: that the writer has ended when *)
(* the budget is spent follows from CleanupFits, which relates the run's   *)
(* countdown to the writer's at every await the cleanup consists of.       *)
(* FailureNamed needs NothingWrongYet: until the writer's body is left     *)
(* there is no cause, no report and no chunk error to mistake for one.     *)
(*                                                                         *)
(* An iteration of SafeCmd.lines() (LineStream), for any streams, line     *)
(* counts, queue capacity and number of cancellations: a closed stream     *)
(* leaves nothing of its run behind, and the readers, the queue, the       *)
(* settlement and the coordinator implement LineDelivery.  What a closed   *)
(* stream leaves behind is settled long before it is closed.  Bracket says *)
(* where the generator is while the coordinator lives, Quiet which         *)
(* resources are done with at each of the coordinator's awaits, and        *)
(* Unpublished when the coordinator can have ended without an outcome.     *)
(* The refinement rests on Order and Ends.  Of every stream, the lines in  *)
(* the queue continue those the consumer has seen, without a gap and in    *)
(* order (InOrder); up to the settlement the last line a reader has taken  *)
(* is among them (NothingDropped); and a result is queued behind every     *)
(* line that will ever be written (ResultLast, Collected, AtEnd).          *)
(***************************************************************************)
EXTENDS StdinWriter, LineStream, Sequences, TLAPS

-----------------------------------------------------------------------------
(* The stdin writer. *)

\* A finalizer is started only past the pipe's release, and then exists.
FinalizerOnlyAfterPipe ==
    /\ pc \in Body \cup {"start", "close"} => finalizer = "none"
    /\ pc \in {"finalize", "reclaim"} => finalizer # "none"

Released == OwnedThingsReleased /\ FinalizerOnlyAfterPipe

\* While the run waits for a writer that took its cancellation, what is left
\* of the budget covers what is left of the cleanup, with the slack to spare.
CleanupFits ==
    run = "reclaiming" /\ ~swallowed =>
        /\ pc \notin Body \cup {"start"}
        /\ pc = "close" => budget >= ((timer + SettleGrace) + SettleGrace) + Slack
        /\ pc = "finalize" => budget >= (timer + SettleGrace) + Slack
        /\ pc = "reclaim" => budget >= timer + Slack

\* A writer is reclaimed only after its first step.
Contained == /\ ReclaimContainsCleanup /\ CleanupFits
             /\ pc = "start" => run = "waiting"

\* The budget is a number of ticks.
LEMMA BudgetIsNat == ReclaimBudget \in Nat
  BY GraceAssumption DEF ReclaimBudget

\* A cancellation leaves the writer at one of its awaits.
LEMMA CancelTypes ==
  ASSUME TypeOK, CancelWriter
  PROVE  /\ pc' \in WriterAwaits /\ ending' \in Endings
         /\ pipe' \in {"open", "closing", "closed", "aborted"}
         /\ timer' \in Nat
         /\ finalizer' \in {"none", "running", "asked", "done"}
         /\ swallowed' \in BOOLEAN
<1>1. CASE pc = "pull" /\ manners = "stubborn" /\ swallowed' = TRUE
           /\ UNCHANGED <<pc, ending, pipe, timer, finalizer>>
  BY <1>1 DEF TypeOK
<1>2. CASE pc \in Body /\ BeginClose("cancelled") /\ UNCHANGED <<finalizer, swallowed>>
  BY <1>2, GraceAssumption DEF TypeOK, BeginClose, WriterAwaits, Endings
<1>3. CASE pc = "close" /\ pipe' = "aborted" /\ BeginFinalize("cancelled")
           /\ UNCHANGED swallowed
  BY <1>3, GraceAssumption DEF TypeOK, BeginFinalize, WriterAwaits, Endings
<1>4. CASE pc \in {"finalize", "reclaim"} /\ pc' = "ended" /\ ending' = "cancelled"
           /\ finalizer' = "asked" /\ UNCHANGED <<pipe, timer, swallowed>>
  BY <1>4 DEF TypeOK, WriterAwaits, Endings
<1> QED
  BY <1>1, <1>2, <1>3, <1>4 DEF CancelWriter

\* Every step keeps the types.
LEMMA TypeStep == TypeOK /\ [Next]_vars => TypeOK'
<1> SUFFICES ASSUME TypeOK, [Next]_vars PROVE TypeOK'
  OBVIOUS
<1>0. TypeOK
  OBVIOUS
<1>1. ASSUME StartProducer PROVE TypeOK'
  BY <1>0, <1>1, GraceAssumption DEF StartProducer, TypeOK, setup, owner, Body, WriterAwaits,
       Endings, Boundaries
<1>2. ASSUME Exhausted PROVE TypeOK'
  BY <1>0, <1>2, GraceAssumption DEF Exhausted, BeginClose, TypeOK, setup, owner, Body,
       WriterAwaits, Endings, Boundaries
<1>3. ASSUME ProducerFails PROVE TypeOK'
  BY <1>0, <1>3, GraceAssumption DEF ProducerFails, BeginClose, TypeOK, setup, owner, Body,
       WriterAwaits, Endings, Boundaries
<1>4. ASSUME PullText PROVE TypeOK'
  BY <1>0, <1>4, GraceAssumption DEF PullText, Encoded, TypeOK, setup, owner, Body,
       WriterAwaits, Endings, Boundaries
<1>5. ASSUME PullBytes PROVE TypeOK'
  BY <1>0, <1>5, GraceAssumption DEF PullBytes, TypeOK, setup, owner, Body, WriterAwaits,
       Endings, Boundaries
<1>6. ASSUME PullInvalid PROVE TypeOK'
  BY <1>0, <1>6, GraceAssumption DEF PullInvalid, Handle, BeginClose, TypeOK, setup, owner,
       Body, WriterAwaits, Endings, Boundaries
<1>7. ASSUME EncodeFails PROVE TypeOK'
  BY <1>0, <1>7, GraceAssumption DEF EncodeFails, Handle, BeginClose, TypeOK, setup, owner,
       Body, WriterAwaits, Endings, Boundaries
<1>8. ASSUME Drained PROVE TypeOK'
  BY <1>0, <1>8, GraceAssumption DEF Drained, BeginClose, TypeOK, setup, owner, Body,
       WriterAwaits, Endings, Boundaries
<1>9. ASSUME Flushed PROVE TypeOK'
  BY <1>0, <1>9, GraceAssumption DEF Flushed, BeginClose, Encoded, TypeOK, setup, owner, Body,
       WriterAwaits, Endings, Boundaries
<1>10. ASSUME WriteFails PROVE TypeOK'
  BY <1>0, <1>10, GraceAssumption DEF WriteFails, Handle, BeginClose, TypeOK, setup, owner,
       Body, WriterAwaits, Endings, Boundaries
<1>11. ASSUME HookFails PROVE TypeOK'
  BY <1>0, <1>11, GraceAssumption DEF HookFails, BeginClose, TypeOK, setup, owner, Body,
       WriterAwaits, Endings, Boundaries
<1>12. ASSUME CloseCompletes PROVE TypeOK'
  BY <1>0, <1>12, GraceAssumption DEF CloseCompletes, BeginFinalize, TypeOK, setup, owner,
       Body, WriterAwaits, Endings, Boundaries
<1>13. ASSUME FinalizerEnds PROVE TypeOK'
  BY <1>0, <1>13, GraceAssumption DEF FinalizerEnds, TypeOK, setup, owner, Body, WriterAwaits,
       Endings, Boundaries
<1>14. ASSUME CloseExpires PROVE TypeOK'
  BY <1>0, <1>14, GraceAssumption DEF CloseExpires, BeginFinalize, TypeOK, setup, owner, Body,
       WriterAwaits, Endings, Boundaries
<1>15. ASSUME FinalizeExpires PROVE TypeOK'
  BY <1>0, <1>15, GraceAssumption DEF FinalizeExpires, TypeOK, setup, owner, Body,
       WriterAwaits, Endings, Boundaries
<1>16. ASSUME FinalizerLeft PROVE TypeOK'
  BY <1>0, <1>16, GraceAssumption DEF FinalizerLeft, TypeOK, setup, owner, Body, WriterAwaits,
       Endings, Boundaries
<1>17. ASSUME TearDown PROVE TypeOK'
  <2>1. CancelWriter /\ run' = "reclaiming" /\ budget' = ReclaimBudget
    BY <1>17 DEF TearDown, Reclaim
  <2>2. UNCHANGED <<setup, built, text, chunkError, report, cause>>
    BY <1>17 DEF TearDown, Reclaim
  <2>3. reclaims' \in 0..MaxReclaims
    BY <1>0, <1>17, GraceAssumption DEF TearDown, TypeOK
  <2>4. budget' \in Nat
    BY <2>1, BudgetIsNat
  <2> QED
    BY <1>0, <2>1, <2>2, <2>3, <2>4, CancelTypes DEF TypeOK, setup
<1>18. ASSUME Settle PROVE TypeOK'
  BY <1>0, <1>18, GraceAssumption DEF Settle, TypeOK, setup, owner, Body, WriterAwaits,
       Endings, Boundaries
<1>19. ASSUME SettleExpires PROVE TypeOK'
  <2>1. CancelWriter /\ run' = "reclaiming" /\ budget' = ReclaimBudget
    BY <1>19 DEF SettleExpires, Reclaim
  <2>2. UNCHANGED <<setup, built, text, chunkError, report, cause>>
    BY <1>19 DEF SettleExpires, Reclaim
  <2>3. reclaims' \in 0..MaxReclaims
    BY <1>0, <1>19, GraceAssumption DEF SettleExpires, TypeOK
  <2>4. budget' \in Nat
    BY <2>1, BudgetIsNat
  <2> QED
    BY <1>0, <2>1, <2>2, <2>3, <2>4, CancelTypes DEF TypeOK, setup
<1>20. ASSUME Seen PROVE TypeOK'
  BY <1>0, <1>20, GraceAssumption DEF Seen, TypeOK, setup, owner, Body, WriterAwaits, Endings,
       Boundaries
<1>21. ASSUME Tick PROVE TypeOK'
  BY <1>0, <1>21, GraceAssumption DEF Tick, Counting, TypeOK, setup, owner, Body, WriterAwaits,
       Endings, Boundaries
<1>22. ASSUME UNCHANGED vars PROVE TypeOK'
  BY <1>0, <1>22 DEF vars, TypeOK, setup, owner, Body, WriterAwaits, Endings, Boundaries
<1> QED
  BY <1>1, <1>2, <1>3, <1>4, <1>5, <1>6, <1>7, <1>8, <1>9, <1>10, <1>11, <1>12, <1>13, <1>14,
       <1>15, <1>16, <1>17, <1>18, <1>19, <1>20, <1>21, <1>22 DEF Next, Producer, Writes, Cleanup, Expiries, Run

\* Type correctness of the stdin writer and of the run that reclaims it.
THEOREM TypeCorrect == Spec => []TypeOK
<1>1. Init => TypeOK
  <2> SUFFICES ASSUME Init PROVE TypeOK
    OBVIOUS
  <2>1. timer \in Nat /\ budget \in Nat /\ reclaims \in 0..MaxReclaims
    BY GraceAssumption DEF Init
  <2>2. pc \in WriterAwaits
    BY DEF Init, WriterAwaits, Body
  <2> QED
    BY <2>1, <2>2 DEF Init, TypeOK, Endings, Boundaries
<1> QED
  BY <1>1, TypeStep, PTL DEF Spec

\* Every step keeps the order of pipe and producer.
LEMMA ReleaseStep == (TypeOK /\ Released) /\ [Next]_vars => Released'
<1> SUFFICES ASSUME (TypeOK /\ Released), [Next]_vars PROVE Released'
  OBVIOUS
<1>0. (TypeOK /\ Released)
  OBVIOUS
<1>1. ASSUME StartProducer PROVE Released'
  BY <1>0, <1>1, GraceAssumption DEF StartProducer, Released, OwnedThingsReleased,
       FinalizerOnlyAfterPipe, TypeOK, setup, owner, Body, WriterAwaits
<1>2. ASSUME Exhausted PROVE Released'
  BY <1>0, <1>2, GraceAssumption DEF Exhausted, BeginClose, Released, OwnedThingsReleased,
       FinalizerOnlyAfterPipe, TypeOK, setup, owner, Body, WriterAwaits
<1>3. ASSUME ProducerFails PROVE Released'
  BY <1>0, <1>3, GraceAssumption DEF ProducerFails, BeginClose, Released, OwnedThingsReleased,
       FinalizerOnlyAfterPipe, TypeOK, setup, owner, Body, WriterAwaits
<1>4. ASSUME PullText PROVE Released'
  BY <1>0, <1>4, GraceAssumption DEF PullText, Encoded, Released, OwnedThingsReleased,
       FinalizerOnlyAfterPipe, TypeOK, setup, owner, Body, WriterAwaits
<1>5. ASSUME PullBytes PROVE Released'
  BY <1>0, <1>5, GraceAssumption DEF PullBytes, Released, OwnedThingsReleased,
       FinalizerOnlyAfterPipe, TypeOK, setup, owner, Body, WriterAwaits
<1>6. ASSUME PullInvalid PROVE Released'
  BY <1>0, <1>6, GraceAssumption DEF PullInvalid, Handle, BeginClose, Released,
       OwnedThingsReleased, FinalizerOnlyAfterPipe, TypeOK, setup, owner, Body, WriterAwaits
<1>7. ASSUME EncodeFails PROVE Released'
  BY <1>0, <1>7, GraceAssumption DEF EncodeFails, Handle, BeginClose, Released,
       OwnedThingsReleased, FinalizerOnlyAfterPipe, TypeOK, setup, owner, Body, WriterAwaits
<1>8. ASSUME Drained PROVE Released'
  BY <1>0, <1>8, GraceAssumption DEF Drained, BeginClose, Released, OwnedThingsReleased,
       FinalizerOnlyAfterPipe, TypeOK, setup, owner, Body, WriterAwaits
<1>9. ASSUME Flushed PROVE Released'
  BY <1>0, <1>9, GraceAssumption DEF Flushed, BeginClose, Encoded, Released,
       OwnedThingsReleased, FinalizerOnlyAfterPipe, TypeOK, setup, owner, Body, WriterAwaits
<1>10. ASSUME WriteFails PROVE Released'
  BY <1>0, <1>10, GraceAssumption DEF WriteFails, Handle, BeginClose, Released,
       OwnedThingsReleased, FinalizerOnlyAfterPipe, TypeOK, setup, owner, Body, WriterAwaits
<1>11. ASSUME HookFails PROVE Released'
  BY <1>0, <1>11, GraceAssumption DEF HookFails, BeginClose, Released, OwnedThingsReleased,
       FinalizerOnlyAfterPipe, TypeOK, setup, owner, Body, WriterAwaits
<1>12. ASSUME CloseCompletes PROVE Released'
  BY <1>0, <1>12, GraceAssumption DEF CloseCompletes, BeginFinalize, Released,
       OwnedThingsReleased, FinalizerOnlyAfterPipe, TypeOK, setup, owner, Body, WriterAwaits
<1>13. ASSUME FinalizerEnds PROVE Released'
  BY <1>0, <1>13, GraceAssumption DEF FinalizerEnds, Released, OwnedThingsReleased,
       FinalizerOnlyAfterPipe, TypeOK, setup, owner, Body, WriterAwaits
<1>14. ASSUME CloseExpires PROVE Released'
  BY <1>0, <1>14, GraceAssumption DEF CloseExpires, BeginFinalize, Released,
       OwnedThingsReleased, FinalizerOnlyAfterPipe, TypeOK, setup, owner, Body, WriterAwaits
<1>15. ASSUME FinalizeExpires PROVE Released'
  BY <1>0, <1>15, GraceAssumption DEF FinalizeExpires, Released, OwnedThingsReleased,
       FinalizerOnlyAfterPipe, TypeOK, setup, owner, Body, WriterAwaits
<1>16. ASSUME FinalizerLeft PROVE Released'
  BY <1>0, <1>16, GraceAssumption DEF FinalizerLeft, Released, OwnedThingsReleased,
       FinalizerOnlyAfterPipe, TypeOK, setup, owner, Body, WriterAwaits
<1>17. ASSUME TearDown PROVE Released'
  BY <1>0, <1>17, GraceAssumption DEF TearDown, Reclaim, CancelWriter, ReclaimBudget,
       BeginClose, BeginFinalize, Released, OwnedThingsReleased, FinalizerOnlyAfterPipe, TypeOK, setup, owner, Body, WriterAwaits
<1>18. ASSUME Settle PROVE Released'
  BY <1>0, <1>18, GraceAssumption DEF Settle, Released, OwnedThingsReleased,
       FinalizerOnlyAfterPipe, TypeOK, setup, owner, Body, WriterAwaits
<1>19. ASSUME SettleExpires PROVE Released'
  BY <1>0, <1>19, GraceAssumption DEF SettleExpires, Reclaim, CancelWriter, ReclaimBudget,
       BeginClose, BeginFinalize, Released, OwnedThingsReleased, FinalizerOnlyAfterPipe, TypeOK, setup, owner, Body, WriterAwaits
<1>20. ASSUME Seen PROVE Released'
  BY <1>0, <1>20, GraceAssumption DEF Seen, Released, OwnedThingsReleased,
       FinalizerOnlyAfterPipe, TypeOK, setup, owner, Body, WriterAwaits
<1>21. ASSUME Tick PROVE Released'
  BY <1>0, <1>21, GraceAssumption DEF Tick, Counting, Released, OwnedThingsReleased,
       FinalizerOnlyAfterPipe, TypeOK, setup, owner, Body, WriterAwaits
<1>22. ASSUME UNCHANGED vars PROVE Released'
  BY <1>0, <1>22 DEF vars, Released, OwnedThingsReleased, FinalizerOnlyAfterPipe, TypeOK,
       setup, owner, Body, WriterAwaits
<1> QED
  BY <1>1, <1>2, <1>3, <1>4, <1>5, <1>6, <1>7, <1>8, <1>9, <1>10, <1>11, <1>12, <1>13, <1>14,
       <1>15, <1>16, <1>17, <1>18, <1>19, <1>20, <1>21, <1>22 DEF Next, Producer, Writes, Cleanup, Expiries, Run

\* However the stdin writer ends, its pipe is closed or aborted and its
\* producer's aclose was called, in that order.
THEOREM EverythingReleased == Spec => []OwnedThingsReleased
<1>1. Init => Released
  BY DEF Init, Released, OwnedThingsReleased, FinalizerOnlyAfterPipe, TypeOK, setup, owner,
       Body, WriterAwaits
<1>2. Released => OwnedThingsReleased
  BY DEF Released
<1> QED
  BY <1>1, <1>2, TypeCorrect, ReleaseStep, PTL DEF Spec

\* Every step keeps the budget ahead of the cleanup.
LEMMA ContainStep == (TypeOK /\ Released /\ Contained) /\ [Next]_vars => Contained'
<1> SUFFICES ASSUME (TypeOK /\ Released /\ Contained), [Next]_vars PROVE Contained'
  OBVIOUS
<1>0. (TypeOK /\ Released /\ Contained)
  OBVIOUS
<1>1. ASSUME StartProducer PROVE Contained'
  BY <1>0, <1>1, GraceAssumption DEF StartProducer, Contained, CleanupFits,
       ReclaimContainsCleanup, FinalizerOnlyAfterPipe, Released, OwnedThingsReleased, TypeOK, setup, owner, Body, WriterAwaits
<1>2. ASSUME Exhausted PROVE Contained'
  BY <1>0, <1>2, GraceAssumption DEF Exhausted, BeginClose, Contained, CleanupFits,
       ReclaimContainsCleanup, FinalizerOnlyAfterPipe, Released, OwnedThingsReleased, TypeOK, setup, owner, Body, WriterAwaits
<1>3. ASSUME ProducerFails PROVE Contained'
  BY <1>0, <1>3, GraceAssumption DEF ProducerFails, BeginClose, Contained, CleanupFits,
       ReclaimContainsCleanup, FinalizerOnlyAfterPipe, Released, OwnedThingsReleased, TypeOK, setup, owner, Body, WriterAwaits
<1>4. ASSUME PullText PROVE Contained'
  BY <1>0, <1>4, GraceAssumption DEF PullText, Encoded, Contained, CleanupFits,
       ReclaimContainsCleanup, FinalizerOnlyAfterPipe, Released, OwnedThingsReleased, TypeOK, setup, owner, Body, WriterAwaits
<1>5. ASSUME PullBytes PROVE Contained'
  BY <1>0, <1>5, GraceAssumption DEF PullBytes, Contained, CleanupFits, ReclaimContainsCleanup,
       FinalizerOnlyAfterPipe, Released, OwnedThingsReleased, TypeOK, setup, owner, Body, WriterAwaits
<1>6. ASSUME PullInvalid PROVE Contained'
  BY <1>0, <1>6, GraceAssumption DEF PullInvalid, Handle, BeginClose, Contained, CleanupFits,
       ReclaimContainsCleanup, FinalizerOnlyAfterPipe, Released, OwnedThingsReleased, TypeOK, setup, owner, Body, WriterAwaits
<1>7. ASSUME EncodeFails PROVE Contained'
  BY <1>0, <1>7, GraceAssumption DEF EncodeFails, Handle, BeginClose, Contained, CleanupFits,
       ReclaimContainsCleanup, FinalizerOnlyAfterPipe, Released, OwnedThingsReleased, TypeOK, setup, owner, Body, WriterAwaits
<1>8. ASSUME Drained PROVE Contained'
  BY <1>0, <1>8, GraceAssumption DEF Drained, BeginClose, Contained, CleanupFits,
       ReclaimContainsCleanup, FinalizerOnlyAfterPipe, Released, OwnedThingsReleased, TypeOK, setup, owner, Body, WriterAwaits
<1>9. ASSUME Flushed PROVE Contained'
  BY <1>0, <1>9, GraceAssumption DEF Flushed, BeginClose, Encoded, Contained, CleanupFits,
       ReclaimContainsCleanup, FinalizerOnlyAfterPipe, Released, OwnedThingsReleased, TypeOK, setup, owner, Body, WriterAwaits
<1>10. ASSUME WriteFails PROVE Contained'
  BY <1>0, <1>10, GraceAssumption DEF WriteFails, Handle, BeginClose, Contained, CleanupFits,
       ReclaimContainsCleanup, FinalizerOnlyAfterPipe, Released, OwnedThingsReleased, TypeOK, setup, owner, Body, WriterAwaits
<1>11. ASSUME HookFails PROVE Contained'
  BY <1>0, <1>11, GraceAssumption DEF HookFails, BeginClose, Contained, CleanupFits,
       ReclaimContainsCleanup, FinalizerOnlyAfterPipe, Released, OwnedThingsReleased, TypeOK, setup, owner, Body, WriterAwaits
<1>12. ASSUME CloseCompletes PROVE Contained'
  BY <1>0, <1>12, GraceAssumption DEF CloseCompletes, BeginFinalize, Contained, CleanupFits,
       ReclaimContainsCleanup, FinalizerOnlyAfterPipe, Released, OwnedThingsReleased, TypeOK, setup, owner, Body, WriterAwaits
<1>13. ASSUME FinalizerEnds PROVE Contained'
  BY <1>0, <1>13, GraceAssumption DEF FinalizerEnds, Contained, CleanupFits,
       ReclaimContainsCleanup, FinalizerOnlyAfterPipe, Released, OwnedThingsReleased, TypeOK, setup, owner, Body, WriterAwaits
<1>14. ASSUME CloseExpires PROVE Contained'
  BY <1>0, <1>14, GraceAssumption DEF CloseExpires, BeginFinalize, Contained, CleanupFits,
       ReclaimContainsCleanup, FinalizerOnlyAfterPipe, Released, OwnedThingsReleased, TypeOK, setup, owner, Body, WriterAwaits
<1>15. ASSUME FinalizeExpires PROVE Contained'
  BY <1>0, <1>15, GraceAssumption DEF FinalizeExpires, Contained, CleanupFits,
       ReclaimContainsCleanup, FinalizerOnlyAfterPipe, Released, OwnedThingsReleased, TypeOK, setup, owner, Body, WriterAwaits
<1>16. ASSUME FinalizerLeft PROVE Contained'
  BY <1>0, <1>16, GraceAssumption DEF FinalizerLeft, Contained, CleanupFits,
       ReclaimContainsCleanup, FinalizerOnlyAfterPipe, Released, OwnedThingsReleased, TypeOK, setup, owner, Body, WriterAwaits
<1>17. ASSUME TearDown PROVE Contained'
  BY <1>0, <1>17, GraceAssumption DEF TearDown, Reclaim, CancelWriter, ReclaimBudget,
       BeginClose, BeginFinalize, Contained, CleanupFits, ReclaimContainsCleanup, FinalizerOnlyAfterPipe, Released, OwnedThingsReleased, TypeOK, setup, owner, Body, WriterAwaits
<1>18. ASSUME Settle PROVE Contained'
  BY <1>0, <1>18, GraceAssumption DEF Settle, Contained, CleanupFits, ReclaimContainsCleanup,
       FinalizerOnlyAfterPipe, Released, OwnedThingsReleased, TypeOK, setup, owner, Body, WriterAwaits
<1>19. ASSUME SettleExpires PROVE Contained'
  BY <1>0, <1>19, GraceAssumption DEF SettleExpires, Reclaim, CancelWriter, ReclaimBudget,
       BeginClose, BeginFinalize, Contained, CleanupFits, ReclaimContainsCleanup, FinalizerOnlyAfterPipe, Released, OwnedThingsReleased, TypeOK, setup, owner, Body, WriterAwaits
<1>20. ASSUME Seen PROVE Contained'
  BY <1>0, <1>20, GraceAssumption DEF Seen, Contained, CleanupFits, ReclaimContainsCleanup,
       FinalizerOnlyAfterPipe, Released, OwnedThingsReleased, TypeOK, setup, owner, Body, WriterAwaits
<1>21. ASSUME Tick PROVE Contained'
  BY <1>0, <1>21, GraceAssumption DEF Tick, Counting, Contained, CleanupFits,
       ReclaimContainsCleanup, FinalizerOnlyAfterPipe, Released, OwnedThingsReleased, TypeOK, setup, owner, Body, WriterAwaits
<1>22. ASSUME UNCHANGED vars PROVE Contained'
  BY <1>0, <1>22 DEF vars, Contained, CleanupFits, ReclaimContainsCleanup,
       FinalizerOnlyAfterPipe, Released, OwnedThingsReleased, TypeOK, setup, owner, Body, WriterAwaits
<1> QED
  BY <1>1, <1>2, <1>3, <1>4, <1>5, <1>6, <1>7, <1>8, <1>9, <1>10, <1>11, <1>12, <1>13, <1>14,
       <1>15, <1>16, <1>17, <1>18, <1>19, <1>20, <1>21, <1>22 DEF Next, Producer, Writes, Cleanup, Expiries, Run

\* Whatever the graces, a reclaim that allows the close, both finalization
\* steps and a positive slack never gives up on a writer that is still
\* cleaning up.
THEOREM BudgetSuffices == Spec => []ReclaimContainsCleanup
<1>1. Init => Released /\ Contained
  BY DEF Init, Contained, CleanupFits, ReclaimContainsCleanup, FinalizerOnlyAfterPipe,
       Released, OwnedThingsReleased, TypeOK, setup, owner, Body, WriterAwaits
<1>2. Contained => ReclaimContainsCleanup
  BY DEF Contained
<1> QED
  BY <1>1, <1>2, TypeCorrect, ReleaseStep, ContainStep, PTL DEF Spec

\* For all graces the writer releases what it owns and has the time to do so.
THEOREM WriterIsReclaimed == Spec => []WriterReclaimed
BY EverythingReleased, BudgetSuffices, PTL DEF WriterReclaimed

\* Until the writer's body is left nothing has gone wrong: no cause, no report,
\* and the marker of a chunk error is clear.
NothingWrongYet ==
    pc \in Body \cup {"start"} =>
        cause = "none" /\ report = "none" /\ chunkError = "none"

Named == FailureNamed /\ NothingWrongYet

\* Every step keeps a failure's name.
LEMMA NamedStep == (TypeOK /\ Named) /\ [Next]_vars => Named'
<1> SUFFICES ASSUME TypeOK, Named, [Next]_vars PROVE Named'
  OBVIOUS
<1> USE DEF Named, FailureNamed, NothingWrongYet, Body
<1>1. ASSUME StartProducer PROVE Named'
  BY <1>1 DEF StartProducer, setup, owner
<1>2. ASSUME Exhausted PROVE Named'
  BY <1>2 DEF Exhausted, BeginClose, setup, owner
<1>3. ASSUME ProducerFails PROVE Named'
  BY <1>3 DEF ProducerFails, BeginClose, setup, owner
<1>4. ASSUME PullText PROVE Named'
  BY <1>4 DEF PullText, Encoded, setup, owner
<1>5. ASSUME PullBytes PROVE Named'
  BY <1>5 DEF PullBytes, setup, owner
<1>6. ASSUME PullInvalid PROVE Named'
  BY <1>6 DEF PullInvalid, Handle, BeginClose, setup, owner
<1>7. ASSUME EncodeFails PROVE Named'
  BY <1>7 DEF EncodeFails, Handle, BeginClose, setup, owner
<1>8. ASSUME Drained PROVE Named'
  BY <1>8 DEF Drained, BeginClose, setup, owner
<1>9. ASSUME Flushed PROVE Named'
  BY <1>9 DEF Flushed, BeginClose, Encoded, setup, owner
<1>10. ASSUME WriteFails PROVE Named'
  BY <1>10 DEF WriteFails, Handle, BeginClose, setup, owner, TypeOK
<1>11. ASSUME HookFails PROVE Named'
  BY <1>11 DEF HookFails, BeginClose, setup, owner
<1>12. ASSUME CloseCompletes PROVE Named'
  BY <1>12 DEF CloseCompletes, BeginFinalize, setup, owner
<1>13. ASSUME FinalizerEnds PROVE Named'
  BY <1>13 DEF FinalizerEnds, setup, owner
<1>14. ASSUME CloseExpires PROVE Named'
  BY <1>14 DEF CloseExpires, BeginFinalize, setup, owner
<1>15. ASSUME FinalizeExpires PROVE Named'
  BY <1>15 DEF FinalizeExpires, setup, owner
<1>16. ASSUME FinalizerLeft PROVE Named'
  BY <1>16 DEF FinalizerLeft, setup, owner
<1>17. ASSUME TearDown PROVE Named'
  BY <1>17 DEF TearDown, Reclaim, CancelWriter, BeginClose, BeginFinalize, setup, owner
<1>18. ASSUME Settle PROVE Named'
  BY <1>18 DEF Settle, setup, owner
<1>19. ASSUME SettleExpires PROVE Named'
  BY <1>19 DEF SettleExpires, Reclaim, CancelWriter, BeginClose, BeginFinalize, setup, owner
<1>20. ASSUME Seen PROVE Named'
  BY <1>20 DEF Seen, setup, owner
<1>21. ASSUME Tick PROVE Named'
  BY <1>21 DEF Tick, Counting, setup, owner
<1>22. ASSUME UNCHANGED vars PROVE Named'
  BY <1>22 DEF vars, setup
<1> QED
  BY <1>1, <1>2, <1>3, <1>4, <1>5, <1>6, <1>7, <1>8, <1>9, <1>10, <1>11, <1>12, <1>13, <1>14,
       <1>15, <1>16, <1>17, <1>18, <1>19, <1>20, <1>21, <1>22 DEF Next, Producer, Writes, Cleanup, Expiries, Run

\* Whatever the graces and however often it is reclaimed, the stdin writer
\* reports a failure at the boundary that caused it, and ends well only if the
\* child closed its end or a payload's write failed.
THEOREM FailuresAreNamed == Spec => []FailureNamed
<1>1. Init => Named
  BY DEF Init, Named, FailureNamed, NothingWrongYet, Body
<1>2. Named => FailureNamed
  BY DEF Named
<1> QED
  BY <1>1, <1>2, TypeCorrect, NamedStep, PTL DEF Spec

-----------------------------------------------------------------------------
(* The line stream. *)

Items == [kind : {"line"}, stream : Streams, number : Nat]
           \cup [kind : {"result"}]

LineErrors == {"cancelled", "timeout", "error"}

Flags ==
    /\ owned \in BOOLEAN /\ interrupted \in BOOLEAN /\ result \in BOOLEAN
    /\ ccut \in BOOLEAN /\ settling \in BOOLEAN /\ sinks \in BOOLEAN
    /\ worker \in BOOLEAN /\ slipped \in BOOLEAN

Values ==
    /\ deadline \in {"none", "armed", "elapsed", "passed"}
    /\ cancels \in Nat
    /\ it \in ItAwaits
    /\ failure \in LineErrors \cup {"none", "exit"}
    /\ tfail \in LineErrors \cup {"none"}
    /\ co \in CoAwaits
    /\ cerr \in LineErrors \cup {"none"}
    /\ future \in Published \cup {"pending", "result"}
    /\ child \in {"none", "running", "exited", "killed"}
    /\ desc \in {"none", "holding"}
    /\ beat \in {"off", "armed", "on", "stopped"}
    /\ session \in LineErrors \cup {"none", "open", "ok"}

Tables ==
    /\ queue \in Seq(Items)
    /\ out \in [Streams -> Nat]
    /\ taken \in [Streams -> Nat]
    /\ reader \in [Streams -> ReaderDone \cup {"reading", "putting"}]
    /\ seen \in [Streams -> Seq(Nat)]

\* Every variable has its type.
LineTypes == Flags /\ Values /\ Tables

-----------------------------------------------------------------------------
Opened == {"new", "next", "yield"}
Ended == {"none", "done"}

\* The generator is in its body until the coordinator has an outcome or is
\* cancelled, and settles what is left once the coordinator is over.
Bracket ==
    /\ it = "new" => co = "none"
    /\ co = "none" => it \notin {"next", "yield", "absorb"}
    /\ it \in {"drain", "worker", "sink", "closed"} => co \in Ended
    /\ it \in {"new", "sink", "closed"} => ~ worker
    /\ it = "new" => session = "none"
    /\ it = "closed" => session # "open"
    /\ it \in Settling => failure # "none"
    /\ result => it \notin Opened

\* A coordinator that nobody cancelled publishes an outcome before it ends.
Unpublished ==
    /\ future # "pending" => co = "done"
    /\ it \in {"next", "yield"} /\ future = "pending" => co # "done"
    /\ it \in Opened => ~ ccut /\ cerr # "cancelled"
    /\ co \in {"kill", "teardown", "abandon_idle", "abandon_kill",
               "abandon_drain"} => cerr # "none"

\* The awaits at which the child may run, the heartbeat beat, and the sinks and
\* the readers be in use.
ChildAwaits == {"exit", "kill", "abandon_idle", "abandon_kill"}
BeatAwaits == {"exit", "kill", "teardown", "abandon_idle"}
SinkAwaits == ChildAwaits \cup {"teardown", "collect", "read_drains",
                                "finalize", "abandon_drain"}
ReaderAwaits == ChildAwaits \cup {"teardown", "collect", "abandon_drain"}

Quiet ==
    /\ slipped => co = "done"
    /\ co \in {"none", "spawn"} => \A s \in Streams : reader[s] = "none"
    /\ child = "running" => slipped \/ co \in ChildAwaits
    /\ beat = "on" => slipped \/ co \in BeatAwaits
    /\ sinks => slipped \/ co \in SinkAwaits
    /\ \A s \in Streams :
         reader[s] \notin ReaderDone => slipped \/ co \in ReaderAwaits

-----------------------------------------------------------------------------
IsLine(i, s) ==
    i \in DOMAIN queue /\ queue[i].kind = "line" /\ queue[i].stream = s

\* The lines of a stream in the queue are those that follow the seen ones.
InOrder(s) ==
    /\ \A i \in DOMAIN seen[s] : seen[s][i] = i
    /\ \A i \in DOMAIN queue : IsLine(i, s) =>
         /\ Len(seen[s]) < queue[i].number /\ queue[i].number <= taken[s]
         /\ \/ queue[i].number = Len(seen[s]) + 1
            \/ \E j \in 1..(i - 1) :
                 IsLine(j, s) /\ queue[j].number + 1 = queue[i].number
    /\ \A i, j \in DOMAIN queue :
         i < j /\ IsLine(i, s) /\ IsLine(j, s) =>
           queue[i].number < queue[j].number

NothingDropped(s) ==
    ~ settling \/ reader[s] = "putting" =>
        \/ taken[s] = Len(seen[s])
        \/ \E i \in DOMAIN queue : IsLine(i, s) /\ queue[i].number = taken[s]

ResultLast ==
    \A i \in DOMAIN queue :
        queue[i].kind = "result" => i = Len(queue) /\ future = "result"

\* What a reader that is at the end of its stream, or waits for room, knows.
AtEnd(s) ==
    /\ taken[s] <= out[s]
    /\ reader[s] = "putting" => taken[s] < out[s]
    /\ reader[s] = "eof" => taken[s] = out[s] /\ child # "running"

Collecting == {"read_drains", "finalize", "close_worker", "put"}

\* A result is only assembled from readers that are at their end, and before
\* any settlement has started.
Collected ==
    /\ co \in {"none", "spawn", "exit", "kill", "collect"} => ~ settling
    /\ co \in Collecting \/ future = "result" =>
          ~ settling /\ \A s \in Streams : reader[s] = "eof"
    /\ result => future = "result"

\* The two halves of the delivery: the order, and the end.
Order == ResultLast /\ \A s \in Streams : InOrder(s) /\ NothingDropped(s)
Ends == Collected /\ \A s \in Streams : AtEnd(s)

LineInv == LineTypes /\ Bracket /\ Unpublished /\ Quiet /\ Order /\ Ends

-----------------------------------------------------------------------------
\* Every step keeps the flags Boolean.
LEMMA FlagStep ==
    Flags /\ Values /\ Bracket /\ Unpublished /\ [LineNext]_lineVars => Flags'
<1> SUFFICES ASSUME Flags, Values, Bracket, Unpublished, [LineNext]_lineVars
             PROVE  Flags'
  OBVIOUS
<1> USE DEF Flags
<1>1. ASSUME Start PROVE Flags'
  BY <1>1 DEF Start, Spawned, coLeaves, fixed, iterator
<1>2. ASSUME SpawnFails PROVE Flags'
  BY <1>2 DEF SpawnFails, Publish, coLeaves, fixed, iterator,
      lines
<1>3. ASSUME StartHookFails PROVE Flags'
  BY <1>3 DEF StartHookFails, Spawned, coLeaves, fixed, iterator
<1>4. ASSUME AbandonIdle PROVE Flags'
  BY <1>4 DEF AbandonIdle, StopIdle, coLeaves, fixed, iterator,
      processes,
       lines
<1>5. ASSUME AbandonKill PROVE Flags'
  BY <1>5 DEF AbandonKill, Stop, Publish, coLeaves, fixed,
      iterator, lines
<1>6. ASSUME AbandonDrain PROVE Flags'
  BY <1>6 DEF AbandonDrain, CutReaders, Publish, CoRaised, coLeaves,
      fixed,
       iterator, processes
<1>7. ASSUME ExitSeen PROVE Flags'
  BY <1>7 DEF ExitSeen, StopIdle, coLeaves, fixed, iterator,
      processes, lines
<1>8. ASSUME ExitExpires PROVE Flags'
  BY <1>8 DEF ExitExpires, coLeaves, fixed, iterator, processes,
      lines
<1>9. ASSUME ExitStopped PROVE Flags'
  BY <1>9 DEF ExitStopped, Stop, EnterTeardown, CoRaised, coLeaves,
      fixed,
       iterator, lines
<1>10. ASSUME Teardown PROVE Flags'
  BY <1>10 DEF Teardown, SettleGroup, Stop, processes, StopIdle,
      CutReaders,
       Publish, CoRaised, coLeaves, fixed, iterator
<1>11. ASSUME Collect PROVE Flags'
  BY <1>11 DEF Collect, ReadersDone, EnterTeardown, coLeaves, fixed,
      iterator,
       processes, lines
<1>12. ASSUME ReadDrains PROVE Flags'
  BY <1>12 DEF ReadDrains, coLeaves, fixed, iterator, processes,
      lines
<1>13. ASSUME Finalize PROVE Flags'
  BY <1>13 DEF Finalize, Publish, coLeaves, fixed, iterator,
      processes, lines
<1>14. ASSUME CloseWorker PROVE Flags'
  BY <1>14 DEF CloseWorker, Publish, fixed, iterator, processes,
      lines
<1>15. ASSUME PutResult PROVE Flags'
  BY <1>15 DEF PutResult, HasRoom, Result, coLeaves, fixed,
      iterator,
       processes
<1>16. ASSUME Absorb PROVE Flags'
  BY <1>16 DEF Absorb, Settled, fixed, coordinator, processes,
      lines
<1>17. ASSUME Drain PROVE Flags'
  BY <1>17 DEF Drain, Settled, fixed, coordinator, processes,
      lines
<1>18. ASSUME CloseDelivery PROVE Flags'
  BY <1>18 DEF CloseDelivery, Settled, fixed, coordinator, processes,
      lines
<1>19. ASSUME CloseSink PROVE Flags'
  BY <1>19 DEF CloseSink, Outcome, Settled, fixed, coordinator,
      processes,
       lines
<1>20. ASSUME FirstPull PROVE Flags'
  BY <1>20 DEF FirstPull, fixed, processes, lines
<1>21. ASSUME StartFails PROVE Flags'
  BY <1>21 DEF StartFails, fixed, coordinator, processes, lines
<1>22. ASSUME Pull PROVE Flags'
  BY <1>22 DEF Pull, fixed, coordinator, processes, lines,
      resources
<1>23. ASSUME TakeFailure PROVE Flags'
  BY <1>23 DEF TakeFailure, EndBody, coordinator, processes, fixed,
      lines,
       resources
<1>24. ASSUME TakeLine PROVE Flags'
  BY <1>24 DEF TakeLine, fixed, coordinator, processes, resources
<1>25. ASSUME TakeResult PROVE Flags'
  BY <1>25 DEF TakeResult, EndBody, coordinator, processes, fixed,
      resources
<1>26. ASSUME CloseUnused PROVE Flags'
  BY <1>26 DEF CloseUnused, fixed, coordinator, processes, lines,
      resources
<1>27. ASSUME Leave PROVE Flags'
  <2>1. future = "pending" => co \notin Ended
    BY <1>27 DEF Leave, Bracket, Unpublished, Ended
  <2>2. /\ ccut' \in BOOLEAN /\ settling' \in BOOLEAN
        /\ slipped' \in BOOLEAN
    <3>1. CASE future # "pending"
      BY <1>27, <3>1 DEF Leave, coordinator
    <3>2. CASE future = "pending"
      <4>1. CancelCoordinator /\ co \in CoAwaits \ Ended
        BY <1>27, <2>1, <3>2 DEF Leave, Values
      <4> QED
        BY <4>1 DEF CancelCoordinator, EnterTeardown, CoAwaits, CoShielded,
             Ended
    <3> QED
      BY <3>1, <3>2
  <2>3. UNCHANGED << owned, interrupted, result, sinks, worker >>
    BY <1>27 DEF Leave, fixed, resources
  <2> QED
    BY <2>2, <2>3
<1>28. ASSUME CancelSettlement PROVE Flags'
  BY <1>28 DEF CancelSettlement, fixed, coordinator, processes, lines,
       resources
<1>29. ASSUME ChildExits PROVE Flags'
  BY <1>29 DEF ChildExits, fixed, iterator, coordinator, lines,
      resources
<1>30. ASSUME DescendantExits PROVE Flags'
  BY <1>30 DEF DescendantExits, fixed, iterator, coordinator, lines,
      resources
<1>31. ASSUME TimePasses PROVE Flags'
  BY <1>31 DEF TimePasses, fixed, iterator, coordinator, processes,
      lines,
       resources
<1>32. ASSUME NEW s \in Streams, ChildWrites(s) PROVE Flags'
  BY <1>32 DEF ChildWrites, fixed, iterator, coordinator, lines,
      resources
<1>33. ASSUME NEW s \in Streams, ReadLine(s) PROVE Flags'
  BY <1>33 DEF ReadLine, HasRoom, NextLine, Line, fixed,
      iterator,
       coordinator, processes, resources
<1>34. ASSUME NEW s \in Streams, PutLine(s) PROVE Flags'
  BY <1>34 DEF PutLine, HasRoom, NextLine, Line, fixed,
      iterator, coordinator,
       processes, resources
<1>35. ASSUME NEW s \in Streams, ReaderEnds(s) PROVE Flags'
  BY <1>35 DEF ReaderEnds, fixed, iterator, coordinator, processes,
      resources
<1>36. ASSUME NEW s \in Streams, ReaderFails(s) PROVE Flags'
  BY <1>36 DEF ReaderFails, fixed, iterator, coordinator, processes,
      resources
<1>37. ASSUME UNCHANGED lineVars PROVE Flags'
  BY <1>37 DEF lineVars, fixed, iterator, coordinator, processes,
      lines, resources
<1> QED
  BY <1>1, <1>2, <1>3, <1>4, <1>5, <1>6, <1>7, <1>8, <1>9, <1>10, <1>11,
       <1>12, <1>13, <1>14, <1>15, <1>16, <1>17, <1>18, <1>19, <1>20, <1>21,
       <1>22, <1>23, <1>24, <1>25, <1>26, <1>27, <1>28, <1>29, <1>30, <1>31,
       <1>32, <1>33, <1>34, <1>35, <1>36, <1>37 DEF LineNext, CoSteps,
       SettleSteps, Consumer, Environment, ReaderSteps

\* Every step keeps the values in their sets.
LEMMA ValueStep == Values /\ Bracket /\ Unpublished /\ [LineNext]_lineVars => Values'
<1> SUFFICES ASSUME Values, Bracket, Unpublished, [LineNext]_lineVars PROVE Values'
  OBVIOUS
<1> USE DEF Values, LineErrors, Published, Settling, ItAwaits, CoAwaits,
     CoShielded
<1>1. ASSUME Start PROVE Values'
  BY <1>1 DEF Start, Spawned, coLeaves, fixed, iterator
<1>2. ASSUME SpawnFails PROVE Values'
  BY <1>2 DEF SpawnFails, Publish, coLeaves, fixed, iterator,
      lines
<1>3. ASSUME StartHookFails PROVE Values'
  BY <1>3 DEF StartHookFails, Spawned, coLeaves, fixed, iterator
<1>4. ASSUME AbandonIdle PROVE Values'
  BY <1>4 DEF AbandonIdle, StopIdle, coLeaves, fixed, iterator,
      processes,
       lines
<1>5. ASSUME AbandonKill PROVE Values'
  BY <1>5 DEF AbandonKill, Stop, Publish, coLeaves, fixed,
      iterator, lines
<1>6. ASSUME AbandonDrain PROVE Values'
  BY <1>6 DEF AbandonDrain, CutReaders, Publish, CoRaised, coLeaves,
      fixed,
       iterator, processes
<1>7. ASSUME ExitSeen PROVE Values'
  BY <1>7 DEF ExitSeen, StopIdle, coLeaves, fixed, iterator,
      processes, lines
<1>8. ASSUME ExitExpires PROVE Values'
  BY <1>8 DEF ExitExpires, coLeaves, fixed, iterator, processes,
      lines
<1>9. ASSUME ExitStopped PROVE Values'
  BY <1>9 DEF ExitStopped, Stop, EnterTeardown, CoRaised, coLeaves,
      fixed,
       iterator, lines
<1>10. ASSUME Teardown PROVE Values'
  BY <1>10 DEF Teardown, SettleGroup, Stop, processes, StopIdle,
      CutReaders,
       Publish, CoRaised, coLeaves, fixed, iterator
<1>11. ASSUME Collect PROVE Values'
  BY <1>11 DEF Collect, ReadersDone, EnterTeardown, coLeaves, fixed,
      iterator,
       processes, lines
<1>12. ASSUME ReadDrains PROVE Values'
  BY <1>12 DEF ReadDrains, coLeaves, fixed, iterator, processes,
      lines
<1>13. ASSUME Finalize PROVE Values'
  BY <1>13 DEF Finalize, Publish, coLeaves, fixed, iterator,
      processes, lines
<1>14. ASSUME CloseWorker PROVE Values'
  BY <1>14 DEF CloseWorker, Publish, fixed, iterator, processes,
      lines
<1>15. ASSUME PutResult PROVE Values'
  BY <1>15 DEF PutResult, HasRoom, Result, coLeaves, fixed,
      iterator,
       processes
<1>16. ASSUME Absorb PROVE Values'
  BY <1>16 DEF Absorb, Settled, fixed, coordinator, processes,
      lines
<1>17. ASSUME Drain PROVE Values'
  BY <1>17 DEF Drain, Settled, fixed, coordinator, processes,
      lines
<1>18. ASSUME CloseDelivery PROVE Values'
  BY <1>18 DEF CloseDelivery, Settled, fixed, coordinator, processes,
      lines
<1>19. ASSUME CloseSink PROVE Values'
  BY <1>19 DEF CloseSink, Outcome, Settled, fixed, coordinator,
      processes,
       lines
<1>20. ASSUME FirstPull PROVE Values'
  BY <1>20 DEF FirstPull, fixed, processes, lines
<1>21. ASSUME StartFails PROVE Values'
  BY <1>21 DEF StartFails, fixed, coordinator, processes, lines
<1>22. ASSUME Pull PROVE Values'
  BY <1>22 DEF Pull, fixed, coordinator, processes, lines,
      resources
<1>23. ASSUME TakeFailure PROVE Values'
  BY <1>23 DEF TakeFailure, EndBody, coordinator, processes, fixed,
      lines,
       resources
<1>24. ASSUME TakeLine PROVE Values'
  BY <1>24 DEF TakeLine, fixed, coordinator, processes, resources
<1>25. ASSUME TakeResult PROVE Values'
  BY <1>25 DEF TakeResult, EndBody, coordinator, processes, fixed,
      resources
<1>26. ASSUME CloseUnused PROVE Values'
  BY <1>26 DEF CloseUnused, fixed, coordinator, processes, lines,
      resources
<1>27. ASSUME Leave PROVE Values'
  <2>1. future = "pending" => co \notin Ended
    BY <1>27 DEF Leave, Bracket, Unpublished, Ended
  <2>2. /\ co' \in CoAwaits
        /\ cerr' \in LineErrors \cup {"none"}
        /\ future' \in Published \cup {"pending", "result"}
        /\ child' \in {"none", "running", "exited", "killed"}
        /\ desc' \in {"none", "holding"}
    <3>1. CASE future # "pending"
      BY <1>27, <3>1 DEF Leave, coordinator, processes
    <3>2. CASE future = "pending"
      <4>1. CancelCoordinator /\ co \in CoAwaits \ Ended
        BY <1>27, <2>1, <3>2 DEF Leave
      <4> QED
        BY <4>1, ZenonT(60) DEF CancelCoordinator, Publish, EnterTeardown, processes,
            Ended
    <3> QED
      BY <3>1, <3>2
  <2>3. /\ it' = "absorb"
        /\ failure' \in {"exit", "cancelled"}
        /\ cancels' \in Nat
        /\ UNCHANGED << deadline, tfail, beat, session >>
    BY <1>27 DEF Leave, resources
  <2> QED
    BY <2>2, <2>3
<1>28. ASSUME CancelSettlement PROVE Values'
  BY <1>28 DEF CancelSettlement, fixed, coordinator, processes, lines,
       resources
<1>29. ASSUME ChildExits PROVE Values'
  BY <1>29 DEF ChildExits, fixed, iterator, coordinator, lines,
      resources
<1>30. ASSUME DescendantExits PROVE Values'
  BY <1>30 DEF DescendantExits, fixed, iterator, coordinator, lines,
      resources
<1>31. ASSUME TimePasses PROVE Values'
  BY <1>31 DEF TimePasses, fixed, iterator, coordinator, processes,
      lines,
       resources
<1>32. ASSUME NEW s \in Streams, ChildWrites(s) PROVE Values'
  BY <1>32 DEF ChildWrites, fixed, iterator, coordinator, lines,
      resources
<1>33. ASSUME NEW s \in Streams, ReadLine(s) PROVE Values'
  BY <1>33 DEF ReadLine, HasRoom, NextLine, Line, fixed,
      iterator,
       coordinator, processes, resources
<1>34. ASSUME NEW s \in Streams, PutLine(s) PROVE Values'
  BY <1>34 DEF PutLine, HasRoom, NextLine, Line, fixed,
      iterator, coordinator,
       processes, resources
<1>35. ASSUME NEW s \in Streams, ReaderEnds(s) PROVE Values'
  BY <1>35 DEF ReaderEnds, fixed, iterator, coordinator, processes,
      resources
<1>36. ASSUME NEW s \in Streams, ReaderFails(s) PROVE Values'
  BY <1>36 DEF ReaderFails, fixed, iterator, coordinator, processes,
      resources
<1>37. ASSUME UNCHANGED lineVars PROVE Values'
  BY <1>37 DEF lineVars, fixed, iterator, coordinator, processes,
      lines, resources
<1> QED
  BY <1>1, <1>2, <1>3, <1>4, <1>5, <1>6, <1>7, <1>8, <1>9, <1>10, <1>11,
       <1>12, <1>13, <1>14, <1>15, <1>16, <1>17, <1>18, <1>19, <1>20, <1>21,
       <1>22, <1>23, <1>24, <1>25, <1>26, <1>27, <1>28, <1>29, <1>30, <1>31,
       <1>32, <1>33, <1>34, <1>35, <1>36, <1>37 DEF LineNext, CoSteps,
       SettleSteps, Consumer, Environment, ReaderSteps

\* Every step keeps the types of the queue and of what is kept per stream.
LEMMA TableStep ==
    Tables /\ Values /\ Bracket /\ Unpublished /\ [LineNext]_lineVars => Tables'
<1> SUFFICES ASSUME Tables, Values, Bracket, Unpublished, [LineNext]_lineVars
             PROVE  Tables'
  OBVIOUS
<1> USE DEF Tables, Items, ReaderDone
<1>1. ASSUME Start PROVE Tables'
  BY <1>1 DEF Start, Spawned, coLeaves, fixed, iterator
<1>2. ASSUME SpawnFails PROVE Tables'
  BY <1>2 DEF SpawnFails, Publish, coLeaves, fixed, iterator,
      lines
<1>3. ASSUME StartHookFails PROVE Tables'
  BY <1>3 DEF StartHookFails, Spawned, coLeaves, fixed, iterator
<1>4. ASSUME AbandonIdle PROVE Tables'
  BY <1>4 DEF AbandonIdle, StopIdle, coLeaves, fixed, iterator,
      processes,
       lines
<1>5. ASSUME AbandonKill PROVE Tables'
  BY <1>5 DEF AbandonKill, Stop, Publish, coLeaves, fixed,
      iterator, lines
<1>6. ASSUME AbandonDrain PROVE Tables'
  BY <1>6 DEF AbandonDrain, CutReaders, Publish, CoRaised, coLeaves,
      fixed,
       iterator, processes
<1>7. ASSUME ExitSeen PROVE Tables'
  BY <1>7 DEF ExitSeen, StopIdle, coLeaves, fixed, iterator,
      processes, lines
<1>8. ASSUME ExitExpires PROVE Tables'
  BY <1>8 DEF ExitExpires, coLeaves, fixed, iterator, processes,
      lines
<1>9. ASSUME ExitStopped PROVE Tables'
  BY <1>9 DEF ExitStopped, Stop, EnterTeardown, CoRaised, coLeaves,
      fixed,
       iterator, lines
<1>10. ASSUME Teardown PROVE Tables'
  BY <1>10 DEF Teardown, SettleGroup, Stop, processes, StopIdle,
      CutReaders,
       Publish, CoRaised, coLeaves, fixed, iterator
<1>11. ASSUME Collect PROVE Tables'
  BY <1>11 DEF Collect, ReadersDone, EnterTeardown, coLeaves, fixed,
      iterator,
       processes, lines
<1>12. ASSUME ReadDrains PROVE Tables'
  BY <1>12 DEF ReadDrains, coLeaves, fixed, iterator, processes,
      lines
<1>13. ASSUME Finalize PROVE Tables'
  BY <1>13 DEF Finalize, Publish, coLeaves, fixed, iterator,
      processes, lines
<1>14. ASSUME CloseWorker PROVE Tables'
  BY <1>14 DEF CloseWorker, Publish, fixed, iterator, processes,
      lines
<1>15. ASSUME PutResult PROVE Tables'
  BY <1>15 DEF PutResult, HasRoom, Result, coLeaves, fixed,
      iterator,
       processes
<1>16. ASSUME Absorb PROVE Tables'
  BY <1>16 DEF Absorb, Settled, fixed, coordinator, processes,
      lines
<1>17. ASSUME Drain PROVE Tables'
  BY <1>17 DEF Drain, Settled, fixed, coordinator, processes,
      lines
<1>18. ASSUME CloseDelivery PROVE Tables'
  BY <1>18 DEF CloseDelivery, Settled, fixed, coordinator, processes,
      lines
<1>19. ASSUME CloseSink PROVE Tables'
  BY <1>19 DEF CloseSink, Outcome, Settled, fixed, coordinator,
      processes,
       lines
<1>20. ASSUME FirstPull PROVE Tables'
  BY <1>20 DEF FirstPull, fixed, processes, lines
<1>21. ASSUME StartFails PROVE Tables'
  BY <1>21 DEF StartFails, fixed, coordinator, processes, lines
<1>22. ASSUME Pull PROVE Tables'
  BY <1>22 DEF Pull, fixed, coordinator, processes, lines,
      resources
<1>23. ASSUME TakeFailure PROVE Tables'
  BY <1>23 DEF TakeFailure, EndBody, coordinator, processes, fixed,
      lines,
       resources
<1>24. ASSUME TakeLine PROVE Tables'
  BY <1>24 DEF TakeLine, fixed, coordinator, processes, resources
<1>25. ASSUME TakeResult PROVE Tables'
  BY <1>25 DEF TakeResult, EndBody, coordinator, processes, fixed,
      resources
<1>26. ASSUME CloseUnused PROVE Tables'
  BY <1>26 DEF CloseUnused, fixed, coordinator, processes, lines,
      resources
<1>27. ASSUME Leave PROVE Tables'
  <2>1. future = "pending" => co \notin Ended
    BY <1>27 DEF Leave, Bracket, Unpublished, Ended
  <2> QED
    BY <1>27, <2>1 DEF Leave, CancelCoordinator, Publish, EnterTeardown,
        fixed,
         processes, lines, resources, coordinator, Ended, Values,
         CoAwaits, CoShielded
<1>28. ASSUME CancelSettlement PROVE Tables'
  BY <1>28 DEF CancelSettlement, fixed, coordinator, processes, lines,
       resources
<1>29. ASSUME ChildExits PROVE Tables'
  BY <1>29 DEF ChildExits, fixed, iterator, coordinator, lines,
      resources
<1>30. ASSUME DescendantExits PROVE Tables'
  BY <1>30 DEF DescendantExits, fixed, iterator, coordinator, lines,
      resources
<1>31. ASSUME TimePasses PROVE Tables'
  BY <1>31 DEF TimePasses, fixed, iterator, coordinator, processes,
      lines,
       resources
<1>32. ASSUME NEW s \in Streams, ChildWrites(s) PROVE Tables'
  BY <1>32 DEF ChildWrites, fixed, iterator, coordinator, lines,
      resources
<1>33. ASSUME NEW s \in Streams, ReadLine(s) PROVE Tables'
  <2>1. NextLine(s) \in Items
    BY DEF NextLine, Line
  <2>2. Append(queue, NextLine(s)) \in Seq(Items)
    BY <2>1
  <2>3. queue' \in Seq(Items)
    BY <1>33, <2>2 DEF ReadLine
  <2>4. /\ taken' \in [Streams -> Nat]
        /\ reader' \in [Streams -> ReaderDone \cup {"reading", "putting"}]
    <3>1. CASE settling
      BY <1>33, <3>1 DEF ReadLine
    <3>2. CASE ~ settling /\ HasRoom
      <4>1. taken' = [taken EXCEPT ![s] = @ + 1] /\ reader' = reader
        BY <1>33, <3>2 DEF ReadLine
      <4> QED
        BY <4>1
    <3>3. CASE ~ settling /\ ~ HasRoom
      BY <1>33, <3>3 DEF ReadLine
    <3> QED
      BY <3>1, <3>2, <3>3
  <2> QED
    BY <1>33, <2>3, <2>4 DEF ReadLine, processes
<1>34. ASSUME NEW s \in Streams, PutLine(s) PROVE Tables'
  <2>1. NextLine(s) \in Items
    BY DEF NextLine, Line
  <2>2. Append(queue, NextLine(s)) \in Seq(Items)
    BY <2>1
  <2>3. queue' \in Seq(Items)
    BY <1>34, <2>2 DEF PutLine
  <2>4. /\ taken' \in [Streams -> Nat]
        /\ reader' \in [Streams -> ReaderDone \cup {"reading", "putting"}]
    BY <1>34 DEF PutLine
  <2> QED
    BY <1>34, <2>3, <2>4 DEF PutLine, processes
<1>35. ASSUME NEW s \in Streams, ReaderEnds(s) PROVE Tables'
  BY <1>35 DEF ReaderEnds, fixed, iterator, coordinator, processes,
      resources
<1>36. ASSUME NEW s \in Streams, ReaderFails(s) PROVE Tables'
  BY <1>36 DEF ReaderFails, fixed, iterator, coordinator, processes,
      resources
<1>37. ASSUME UNCHANGED lineVars PROVE Tables'
  BY <1>37 DEF lineVars, fixed, iterator, coordinator, processes,
      lines, resources
<1> QED
  BY <1>1, <1>2, <1>3, <1>4, <1>5, <1>6, <1>7, <1>8, <1>9, <1>10, <1>11,
       <1>12, <1>13, <1>14, <1>15, <1>16, <1>17, <1>18, <1>19, <1>20, <1>21,
       <1>22, <1>23, <1>24, <1>25, <1>26, <1>27, <1>28, <1>29, <1>30, <1>31,
       <1>32, <1>33, <1>34, <1>35, <1>36, <1>37 DEF LineNext, CoSteps,
       SettleSteps, Consumer, Environment, ReaderSteps

\* Every step keeps the generator around the coordinator.
LEMMA BracketStep ==
    Values /\ Bracket /\ Unpublished /\ [LineNext]_lineVars => Bracket'
<1> SUFFICES ASSUME Values, Bracket, Unpublished, [LineNext]_lineVars PROVE Bracket'
  OBVIOUS
<1> USE DEF Values, Bracket, Unpublished, Opened, Ended, LineErrors, Published,
     Settling, ItAwaits, CoAwaits, CoShielded
<1>1. ASSUME Start PROVE Bracket'
  BY <1>1 DEF Start, Spawned, coLeaves, fixed, iterator
<1>2. ASSUME SpawnFails PROVE Bracket'
  BY <1>2 DEF SpawnFails, Publish, coLeaves, fixed, iterator,
      lines
<1>3. ASSUME StartHookFails PROVE Bracket'
  BY <1>3 DEF StartHookFails, Spawned, coLeaves, fixed, iterator
<1>4. ASSUME AbandonIdle PROVE Bracket'
  BY <1>4 DEF AbandonIdle, StopIdle, coLeaves, fixed, iterator,
      processes,
       lines
<1>5. ASSUME AbandonKill PROVE Bracket'
  BY <1>5 DEF AbandonKill, Stop, Publish, coLeaves, fixed,
      iterator, lines
<1>6. ASSUME AbandonDrain PROVE Bracket'
  BY <1>6 DEF AbandonDrain, CutReaders, Publish, CoRaised, coLeaves,
      fixed,
       iterator, processes
<1>7. ASSUME ExitSeen PROVE Bracket'
  BY <1>7 DEF ExitSeen, StopIdle, coLeaves, fixed, iterator,
      processes, lines
<1>8. ASSUME ExitExpires PROVE Bracket'
  BY <1>8 DEF ExitExpires, coLeaves, fixed, iterator, processes,
      lines
<1>9. ASSUME ExitStopped PROVE Bracket'
  BY <1>9 DEF ExitStopped, Stop, EnterTeardown, CoRaised, coLeaves,
      fixed,
       iterator, lines
<1>10. ASSUME Teardown PROVE Bracket'
  BY <1>10 DEF Teardown, SettleGroup, Stop, processes, StopIdle,
      CutReaders,
       Publish, CoRaised, coLeaves, fixed, iterator
<1>11. ASSUME Collect PROVE Bracket'
  BY <1>11 DEF Collect, ReadersDone, EnterTeardown, coLeaves, fixed,
      iterator,
       processes, lines
<1>12. ASSUME ReadDrains PROVE Bracket'
  BY <1>12 DEF ReadDrains, coLeaves, fixed, iterator, processes,
      lines
<1>13. ASSUME Finalize PROVE Bracket'
  BY <1>13 DEF Finalize, Publish, coLeaves, fixed, iterator,
      processes, lines
<1>14. ASSUME CloseWorker PROVE Bracket'
  BY <1>14 DEF CloseWorker, Publish, fixed, iterator, processes,
      lines
<1>15. ASSUME PutResult PROVE Bracket'
  BY <1>15 DEF PutResult, HasRoom, Result, coLeaves, fixed,
      iterator,
       processes
<1>16. ASSUME Absorb PROVE Bracket'
  BY <1>16 DEF Absorb, Settled, fixed, coordinator, processes,
      lines
<1>17. ASSUME Drain PROVE Bracket'
  BY <1>17 DEF Drain, Settled, fixed, coordinator, processes,
      lines
<1>18. ASSUME CloseDelivery PROVE Bracket'
  BY <1>18 DEF CloseDelivery, Settled, fixed, coordinator, processes,
      lines
<1>19. ASSUME CloseSink PROVE Bracket'
  BY <1>19 DEF CloseSink, Outcome, Settled, fixed, coordinator,
      processes,
       lines
<1>20. ASSUME FirstPull PROVE Bracket'
  BY <1>20 DEF FirstPull, fixed, processes, lines
<1>21. ASSUME StartFails PROVE Bracket'
  BY <1>21 DEF StartFails, fixed, coordinator, processes, lines
<1>22. ASSUME Pull PROVE Bracket'
  BY <1>22 DEF Pull, fixed, coordinator, processes, lines,
      resources
<1>23. ASSUME TakeFailure PROVE Bracket'
  BY <1>23 DEF TakeFailure, EndBody, coordinator, processes, fixed,
      lines,
       resources
<1>24. ASSUME TakeLine PROVE Bracket'
  BY <1>24 DEF TakeLine, fixed, coordinator, processes, resources
<1>25. ASSUME TakeResult PROVE Bracket'
  BY <1>25 DEF TakeResult, EndBody, coordinator, processes, fixed,
      resources
<1>26. ASSUME CloseUnused PROVE Bracket'
  BY <1>26 DEF CloseUnused, fixed, coordinator, processes, lines,
      resources
<1>27. ASSUME Leave PROVE Bracket'
  BY <1>27 DEF Leave, CancelCoordinator, Publish, processes,
      EnterTeardown,
       coordinator, fixed, lines, resources
<1>28. ASSUME CancelSettlement PROVE Bracket'
  BY <1>28 DEF CancelSettlement, fixed, coordinator, processes, lines,
       resources
<1>29. ASSUME ChildExits PROVE Bracket'
  BY <1>29 DEF ChildExits, fixed, iterator, coordinator, lines,
      resources
<1>30. ASSUME DescendantExits PROVE Bracket'
  BY <1>30 DEF DescendantExits, fixed, iterator, coordinator, lines,
      resources
<1>31. ASSUME TimePasses PROVE Bracket'
  BY <1>31 DEF TimePasses, fixed, iterator, coordinator, processes,
      lines,
       resources
<1>32. ASSUME NEW s \in Streams, ChildWrites(s) PROVE Bracket'
  BY <1>32 DEF ChildWrites, fixed, iterator, coordinator, lines,
      resources
<1>33. ASSUME NEW s \in Streams, ReadLine(s) PROVE Bracket'
  BY <1>33 DEF ReadLine, HasRoom, NextLine, Line, fixed,
      iterator,
       coordinator, processes, resources
<1>34. ASSUME NEW s \in Streams, PutLine(s) PROVE Bracket'
  BY <1>34 DEF PutLine, HasRoom, NextLine, Line, fixed,
      iterator, coordinator,
       processes, resources
<1>35. ASSUME NEW s \in Streams, ReaderEnds(s) PROVE Bracket'
  BY <1>35 DEF ReaderEnds, fixed, iterator, coordinator, processes,
      resources
<1>36. ASSUME NEW s \in Streams, ReaderFails(s) PROVE Bracket'
  BY <1>36 DEF ReaderFails, fixed, iterator, coordinator, processes,
      resources
<1>37. ASSUME UNCHANGED lineVars PROVE Bracket'
  BY <1>37 DEF lineVars, fixed, iterator, coordinator, processes,
      lines, resources
<1> QED
  BY <1>1, <1>2, <1>3, <1>4, <1>5, <1>6, <1>7, <1>8, <1>9, <1>10, <1>11,
       <1>12, <1>13, <1>14, <1>15, <1>16, <1>17, <1>18, <1>19, <1>20, <1>21,
       <1>22, <1>23, <1>24, <1>25, <1>26, <1>27, <1>28, <1>29, <1>30, <1>31,
       <1>32, <1>33, <1>34, <1>35, <1>36, <1>37 DEF LineNext, CoSteps,
       SettleSteps, Consumer, Environment, ReaderSteps

\* Every step of a coordinator that nobody cancelled leaves it an outcome.
LEMMA UnpublishedStep ==
    Values /\ Bracket /\ Unpublished /\ [LineNext]_lineVars => Unpublished'
<1> SUFFICES ASSUME Values, Bracket, Unpublished, [LineNext]_lineVars
             PROVE  Unpublished'
  OBVIOUS
<1> USE DEF Values, Bracket, Unpublished, Opened, Ended, LineErrors, Published,
     Settling, ItAwaits, CoAwaits, CoShielded
<1>1. ASSUME Start PROVE Unpublished'
  BY <1>1 DEF Start, Spawned, coLeaves, fixed, iterator
<1>2. ASSUME SpawnFails PROVE Unpublished'
  BY <1>2 DEF SpawnFails, Publish, coLeaves, fixed, iterator,
      lines
<1>3. ASSUME StartHookFails PROVE Unpublished'
  BY <1>3 DEF StartHookFails, Spawned, coLeaves, fixed, iterator
<1>4. ASSUME AbandonIdle PROVE Unpublished'
  BY <1>4 DEF AbandonIdle, StopIdle, coLeaves, fixed, iterator,
      processes,
       lines
<1>5. ASSUME AbandonKill PROVE Unpublished'
  BY <1>5 DEF AbandonKill, Stop, Publish, coLeaves, fixed,
      iterator, lines
<1>6. ASSUME AbandonDrain PROVE Unpublished'
  BY <1>6 DEF AbandonDrain, CutReaders, Publish, CoRaised, coLeaves,
      fixed,
       iterator, processes
<1>7. ASSUME ExitSeen PROVE Unpublished'
  BY <1>7 DEF ExitSeen, StopIdle, coLeaves, fixed, iterator,
      processes, lines
<1>8. ASSUME ExitExpires PROVE Unpublished'
  BY <1>8 DEF ExitExpires, coLeaves, fixed, iterator, processes,
      lines
<1>9. ASSUME ExitStopped PROVE Unpublished'
  BY <1>9 DEF ExitStopped, Stop, EnterTeardown, CoRaised, coLeaves,
      fixed,
       iterator, lines
<1>10. ASSUME Teardown PROVE Unpublished'
  BY <1>10 DEF Teardown, SettleGroup, Stop, processes, StopIdle,
      CutReaders,
       Publish, CoRaised, coLeaves, fixed, iterator
<1>11. ASSUME Collect PROVE Unpublished'
  BY <1>11 DEF Collect, ReadersDone, EnterTeardown, coLeaves, fixed,
      iterator,
       processes, lines
<1>12. ASSUME ReadDrains PROVE Unpublished'
  BY <1>12 DEF ReadDrains, coLeaves, fixed, iterator, processes,
      lines
<1>13. ASSUME Finalize PROVE Unpublished'
  BY <1>13 DEF Finalize, Publish, coLeaves, fixed, iterator,
      processes, lines
<1>14. ASSUME CloseWorker PROVE Unpublished'
  BY <1>14 DEF CloseWorker, Publish, fixed, iterator, processes,
      lines
<1>15. ASSUME PutResult PROVE Unpublished'
  BY <1>15 DEF PutResult, HasRoom, Result, coLeaves, fixed,
      iterator,
       processes
<1>16. ASSUME Absorb PROVE Unpublished'
  BY <1>16 DEF Absorb, Settled, fixed, coordinator, processes,
      lines
<1>17. ASSUME Drain PROVE Unpublished'
  BY <1>17 DEF Drain, Settled, fixed, coordinator, processes,
      lines
<1>18. ASSUME CloseDelivery PROVE Unpublished'
  BY <1>18 DEF CloseDelivery, Settled, fixed, coordinator, processes,
      lines
<1>19. ASSUME CloseSink PROVE Unpublished'
  BY <1>19 DEF CloseSink, Outcome, Settled, fixed, coordinator,
      processes,
       lines
<1>20. ASSUME FirstPull PROVE Unpublished'
  BY <1>20 DEF FirstPull, fixed, processes, lines
<1>21. ASSUME StartFails PROVE Unpublished'
  BY <1>21 DEF StartFails, fixed, coordinator, processes, lines
<1>22. ASSUME Pull PROVE Unpublished'
  BY <1>22 DEF Pull, fixed, coordinator, processes, lines,
      resources
<1>23. ASSUME TakeFailure PROVE Unpublished'
  BY <1>23 DEF TakeFailure, EndBody, coordinator, processes, fixed,
      lines,
       resources
<1>24. ASSUME TakeLine PROVE Unpublished'
  BY <1>24 DEF TakeLine, fixed, coordinator, processes, resources
<1>25. ASSUME TakeResult PROVE Unpublished'
  BY <1>25 DEF TakeResult, EndBody, coordinator, processes, fixed,
      resources
<1>26. ASSUME CloseUnused PROVE Unpublished'
  BY <1>26 DEF CloseUnused, fixed, coordinator, processes, lines,
      resources
<1>27. ASSUME Leave PROVE Unpublished'
  BY <1>27 DEF Leave, CancelCoordinator, Publish, processes,
      EnterTeardown,
       coordinator, fixed, lines, resources
<1>28. ASSUME CancelSettlement PROVE Unpublished'
  BY <1>28 DEF CancelSettlement, fixed, coordinator, processes, lines,
       resources
<1>29. ASSUME ChildExits PROVE Unpublished'
  BY <1>29 DEF ChildExits, fixed, iterator, coordinator, lines,
      resources
<1>30. ASSUME DescendantExits PROVE Unpublished'
  BY <1>30 DEF DescendantExits, fixed, iterator, coordinator, lines,
      resources
<1>31. ASSUME TimePasses PROVE Unpublished'
  BY <1>31 DEF TimePasses, fixed, iterator, coordinator, processes,
      lines,
       resources
<1>32. ASSUME NEW s \in Streams, ChildWrites(s) PROVE Unpublished'
  BY <1>32 DEF ChildWrites, fixed, iterator, coordinator, lines,
      resources
<1>33. ASSUME NEW s \in Streams, ReadLine(s) PROVE Unpublished'
  BY <1>33 DEF ReadLine, HasRoom, NextLine, Line, fixed,
      iterator,
       coordinator, processes, resources
<1>34. ASSUME NEW s \in Streams, PutLine(s) PROVE Unpublished'
  BY <1>34 DEF PutLine, HasRoom, NextLine, Line, fixed,
      iterator, coordinator,
       processes, resources
<1>35. ASSUME NEW s \in Streams, ReaderEnds(s) PROVE Unpublished'
  BY <1>35 DEF ReaderEnds, fixed, iterator, coordinator, processes,
      resources
<1>36. ASSUME NEW s \in Streams, ReaderFails(s) PROVE Unpublished'
  BY <1>36 DEF ReaderFails, fixed, iterator, coordinator, processes,
      resources
<1>37. ASSUME UNCHANGED lineVars PROVE Unpublished'
  BY <1>37 DEF lineVars, fixed, iterator, coordinator, processes,
      lines, resources
<1> QED
  BY <1>1, <1>2, <1>3, <1>4, <1>5, <1>6, <1>7, <1>8, <1>9, <1>10, <1>11,
       <1>12, <1>13, <1>14, <1>15, <1>16, <1>17, <1>18, <1>19, <1>20, <1>21,
       <1>22, <1>23, <1>24, <1>25, <1>26, <1>27, <1>28, <1>29, <1>30, <1>31,
       <1>32, <1>33, <1>34, <1>35, <1>36, <1>37 DEF LineNext, CoSteps,
       SettleSteps, Consumer, Environment, ReaderSteps

\* Every step of the coordinator leaves behind what Quiet allows.
LEMMA LineQuiet ==
    Tables /\ Values /\ Bracket /\ Unpublished /\ Quiet /\ [LineNext]_lineVars =>
      Quiet'
<1> SUFFICES ASSUME Tables, Values, Bracket, Unpublished, Quiet,
                   [LineNext]_lineVars PROVE Quiet'
  OBVIOUS
<1> USE DEF Values, Bracket, Unpublished, Tables, Quiet, ChildAwaits,
     BeatAwaits, SinkAwaits, ReaderAwaits, Opened, Ended, ReaderDone, LineErrors,
     Published, Settling, ItAwaits, CoAwaits, CoShielded
<1>1. ASSUME Start PROVE Quiet'
  BY <1>1 DEF Start, Spawned, coLeaves, fixed, iterator
<1>2. ASSUME SpawnFails PROVE Quiet'
  BY <1>2 DEF SpawnFails, Publish, coLeaves, fixed, iterator,
      lines
<1>3. ASSUME StartHookFails PROVE Quiet'
  BY <1>3 DEF StartHookFails, Spawned, coLeaves, fixed, iterator
<1>4. ASSUME AbandonIdle PROVE Quiet'
  BY <1>4 DEF AbandonIdle, StopIdle, coLeaves, fixed, iterator,
      processes,
       lines
<1>5. ASSUME AbandonKill PROVE Quiet'
  BY <1>5 DEF AbandonKill, Stop, Publish, coLeaves, fixed,
      iterator, lines
<1>6. ASSUME AbandonDrain PROVE Quiet'
  BY <1>6 DEF AbandonDrain, CutReaders, Publish, CoRaised, coLeaves,
      fixed,
       iterator, processes
<1>7. ASSUME ExitSeen PROVE Quiet'
  BY <1>7 DEF ExitSeen, StopIdle, coLeaves, fixed, iterator,
      processes, lines
<1>8. ASSUME ExitExpires PROVE Quiet'
  BY <1>8 DEF ExitExpires, coLeaves, fixed, iterator, processes,
      lines
<1>9. ASSUME ExitStopped PROVE Quiet'
  BY <1>9 DEF ExitStopped, Stop, EnterTeardown, CoRaised, coLeaves,
      fixed,
       iterator, lines
<1>10. ASSUME Teardown PROVE Quiet'
  BY <1>10 DEF Teardown, SettleGroup, Stop, processes, StopIdle,
      CutReaders,
       Publish, CoRaised, coLeaves, fixed, iterator
<1>11. ASSUME Collect PROVE Quiet'
  BY <1>11 DEF Collect, ReadersDone, EnterTeardown, coLeaves, fixed,
      iterator,
       processes, lines
<1>12. ASSUME ReadDrains PROVE Quiet'
  BY <1>12 DEF ReadDrains, coLeaves, fixed, iterator, processes,
      lines
<1>13. ASSUME Finalize PROVE Quiet'
  BY <1>13 DEF Finalize, Publish, coLeaves, fixed, iterator,
      processes, lines
<1>14. ASSUME CloseWorker PROVE Quiet'
  BY <1>14 DEF CloseWorker, Publish, fixed, iterator, processes,
      lines
<1>15. ASSUME PutResult PROVE Quiet'
  BY <1>15 DEF PutResult, HasRoom, Result, coLeaves, fixed,
      iterator,
       processes
<1>16. ASSUME Absorb PROVE Quiet'
  BY <1>16 DEF Absorb, Settled, fixed, coordinator, processes,
      lines
<1>17. ASSUME Drain PROVE Quiet'
  BY <1>17 DEF Drain, Settled, fixed, coordinator, processes,
      lines
<1>18. ASSUME CloseDelivery PROVE Quiet'
  BY <1>18 DEF CloseDelivery, Settled, fixed, coordinator, processes,
      lines
<1>19. ASSUME CloseSink PROVE Quiet'
  BY <1>19 DEF CloseSink, Outcome, Settled, fixed, coordinator,
      processes,
       lines
<1>20. ASSUME FirstPull PROVE Quiet'
  BY <1>20 DEF FirstPull, fixed, processes, lines
<1>21. ASSUME StartFails PROVE Quiet'
  BY <1>21 DEF StartFails, fixed, coordinator, processes, lines
<1>22. ASSUME Pull PROVE Quiet'
  BY <1>22 DEF Pull, fixed, coordinator, processes, lines,
      resources
<1>23. ASSUME TakeFailure PROVE Quiet'
  BY <1>23 DEF TakeFailure, EndBody, coordinator, processes, fixed,
      lines,
       resources
<1>24. ASSUME TakeLine PROVE Quiet'
  BY <1>24 DEF TakeLine, fixed, coordinator, processes, resources
<1>25. ASSUME TakeResult PROVE Quiet'
  BY <1>25 DEF TakeResult, EndBody, coordinator, processes, fixed,
      resources
<1>26. ASSUME CloseUnused PROVE Quiet'
  BY <1>26 DEF CloseUnused, fixed, coordinator, processes, lines,
      resources
<1>27. ASSUME Leave PROVE Quiet'
  BY <1>27, ZenonT(60) DEF Leave, CancelCoordinator, Publish, processes,
      EnterTeardown,
       coordinator, fixed, lines, resources
<1>28. ASSUME CancelSettlement PROVE Quiet'
  BY <1>28 DEF CancelSettlement, fixed, coordinator, processes, lines,
       resources
<1>29. ASSUME ChildExits PROVE Quiet'
  BY <1>29 DEF ChildExits, fixed, iterator, coordinator, lines,
      resources
<1>30. ASSUME DescendantExits PROVE Quiet'
  BY <1>30 DEF DescendantExits, fixed, iterator, coordinator, lines,
      resources
<1>31. ASSUME TimePasses PROVE Quiet'
  BY <1>31 DEF TimePasses, fixed, iterator, coordinator, processes,
      lines,
       resources
<1>32. ASSUME NEW s \in Streams, ChildWrites(s) PROVE Quiet'
  BY <1>32 DEF ChildWrites, fixed, iterator, coordinator, lines,
      resources
<1>33. ASSUME NEW s \in Streams, ReadLine(s) PROVE Quiet'
  BY <1>33 DEF ReadLine, HasRoom, NextLine, Line, fixed,
      iterator,
       coordinator, processes, resources
<1>34. ASSUME NEW s \in Streams, PutLine(s) PROVE Quiet'
  BY <1>34 DEF PutLine, HasRoom, NextLine, Line, fixed,
      iterator, coordinator,
       processes, resources
<1>35. ASSUME NEW s \in Streams, ReaderEnds(s) PROVE Quiet'
  BY <1>35 DEF ReaderEnds, fixed, iterator, coordinator, processes,
      resources
<1>36. ASSUME NEW s \in Streams, ReaderFails(s) PROVE Quiet'
  BY <1>36 DEF ReaderFails, fixed, iterator, coordinator, processes,
      resources
<1>37. ASSUME UNCHANGED lineVars PROVE Quiet'
  BY <1>37 DEF lineVars, fixed, iterator, coordinator, processes,
      lines, resources
<1> QED
  BY <1>1, <1>2, <1>3, <1>4, <1>5, <1>6, <1>7, <1>8, <1>9, <1>10, <1>11,
       <1>12, <1>13, <1>14, <1>15, <1>16, <1>17, <1>18, <1>19, <1>20, <1>21,
       <1>22, <1>23, <1>24, <1>25, <1>26, <1>27, <1>28, <1>29, <1>30, <1>31,
       <1>32, <1>33, <1>34, <1>35, <1>36, <1>37 DEF LineNext, CoSteps,
       SettleSteps, Consumer, Environment, ReaderSteps

-----------------------------------------------------------------------------

\* Every step keeps what a result and the end of a stream stand for.
LEMMA EndStep ==
    Tables /\ Values /\ Bracket /\ Unpublished /\ Quiet /\ Order /\ Ends
      /\ [LineNext]_lineVars => Ends'
<1> SUFFICES ASSUME Tables, Values, Bracket, Unpublished, Quiet, Order, Ends,
                   [LineNext]_lineVars PROVE Ends'
  OBVIOUS
<1> USE DEF Values, Bracket, Unpublished, Tables, Quiet, Ends, Collected,
     Collecting, AtEnd, ReaderAwaits, ChildAwaits, Opened, Ended, ReaderDone,
     LineErrors, Published, Settling, ItAwaits, CoAwaits, CoShielded
<1>1. ASSUME Start PROVE Ends'
  BY <1>1 DEF Start, Spawned, coLeaves, fixed, iterator
<1>2. ASSUME SpawnFails PROVE Ends'
  BY <1>2 DEF SpawnFails, Publish, coLeaves, fixed, iterator,
      lines
<1>3. ASSUME StartHookFails PROVE Ends'
  BY <1>3 DEF StartHookFails, Spawned, coLeaves, fixed, iterator
<1>4. ASSUME AbandonIdle PROVE Ends'
  BY <1>4 DEF AbandonIdle, StopIdle, coLeaves, fixed, iterator,
      processes,
       lines
<1>5. ASSUME AbandonKill PROVE Ends'
  BY <1>5 DEF AbandonKill, Stop, Publish, coLeaves, fixed,
      iterator, lines
<1>6. ASSUME AbandonDrain PROVE Ends'
  BY <1>6 DEF AbandonDrain, CutReaders, Publish, CoRaised, coLeaves,
      fixed,
       iterator, processes
<1>7. ASSUME ExitSeen PROVE Ends'
  BY <1>7 DEF ExitSeen, StopIdle, coLeaves, fixed, iterator,
      processes, lines
<1>8. ASSUME ExitExpires PROVE Ends'
  BY <1>8 DEF ExitExpires, coLeaves, fixed, iterator, processes,
      lines
<1>9. ASSUME ExitStopped PROVE Ends'
  BY <1>9 DEF ExitStopped, Stop, EnterTeardown, CoRaised, coLeaves,
      fixed,
       iterator, lines
<1>10. ASSUME Teardown PROVE Ends'
  BY <1>10 DEF Teardown, SettleGroup, Stop, processes, StopIdle,
      CutReaders,
       Publish, CoRaised, coLeaves, fixed, iterator
<1>11. ASSUME Collect PROVE Ends'
  BY <1>11 DEF Collect, ReadersDone, EnterTeardown, coLeaves, fixed,
      iterator,
       processes, lines
<1>12. ASSUME ReadDrains PROVE Ends'
  BY <1>12 DEF ReadDrains, coLeaves, fixed, iterator, processes,
      lines
<1>13. ASSUME Finalize PROVE Ends'
  BY <1>13 DEF Finalize, Publish, coLeaves, fixed, iterator,
      processes, lines
<1>14. ASSUME CloseWorker PROVE Ends'
  BY <1>14 DEF CloseWorker, Publish, fixed, iterator, processes,
      lines
<1>15. ASSUME PutResult PROVE Ends'
  BY <1>15 DEF PutResult, HasRoom, Result, coLeaves, fixed,
      iterator,
       processes
<1>16. ASSUME Absorb PROVE Ends'
  BY <1>16 DEF Absorb, Settled, fixed, coordinator, processes,
      lines
<1>17. ASSUME Drain PROVE Ends'
  BY <1>17 DEF Drain, Settled, fixed, coordinator, processes,
      lines
<1>18. ASSUME CloseDelivery PROVE Ends'
  BY <1>18 DEF CloseDelivery, Settled, fixed, coordinator, processes,
      lines
<1>19. ASSUME CloseSink PROVE Ends'
  BY <1>19 DEF CloseSink, Outcome, Settled, fixed, coordinator,
      processes,
       lines
<1>20. ASSUME FirstPull PROVE Ends'
  BY <1>20 DEF FirstPull, fixed, processes, lines
<1>21. ASSUME StartFails PROVE Ends'
  BY <1>21 DEF StartFails, fixed, coordinator, processes, lines
<1>22. ASSUME Pull PROVE Ends'
  BY <1>22 DEF Pull, fixed, coordinator, processes, lines,
      resources
<1>23. ASSUME TakeFailure PROVE Ends'
  BY <1>23 DEF TakeFailure, EndBody, coordinator, processes, fixed,
      lines,
       resources
<1>24. ASSUME TakeLine PROVE Ends'
  BY <1>24 DEF TakeLine, fixed, coordinator, processes, resources
<1>25. ASSUME TakeResult PROVE Ends'
  <2>1. 1 \in DOMAIN queue /\ queue[1].kind = "result"
    BY <1>25 DEF TakeResult
  <2>2. future = "result"
    BY <2>1 DEF Order, ResultLast
  <2> QED
    BY <1>25, <2>2 DEF TakeResult, EndBody, coordinator, processes
<1>26. ASSUME CloseUnused PROVE Ends'
  BY <1>26 DEF CloseUnused, fixed, coordinator, processes, lines,
      resources
<1>27. ASSUME Leave PROVE Ends'
  BY <1>27, ZenonT(60) DEF Leave, CancelCoordinator, Publish, processes,
      EnterTeardown,
       coordinator, fixed, lines, resources
<1>28. ASSUME CancelSettlement PROVE Ends'
  BY <1>28 DEF CancelSettlement, fixed, coordinator, processes, lines,
       resources
<1>29. ASSUME ChildExits PROVE Ends'
  BY <1>29 DEF ChildExits, fixed, iterator, coordinator, lines,
      resources
<1>30. ASSUME DescendantExits PROVE Ends'
  BY <1>30 DEF DescendantExits, fixed, iterator, coordinator, lines,
      resources
<1>31. ASSUME TimePasses PROVE Ends'
  BY <1>31 DEF TimePasses, fixed, iterator, coordinator, processes,
      lines,
       resources
<1>32. ASSUME NEW s \in Streams, ChildWrites(s) PROVE Ends'
  BY <1>32 DEF ChildWrites, fixed, iterator, coordinator, lines,
      resources
<1>33. ASSUME NEW s \in Streams, ReadLine(s) PROVE Ends'
  <2>1. CASE settling
    <3>1. taken' = [taken EXCEPT ![s] = @ + 1] /\ reader' = reader
      BY <1>33, <2>1 DEF ReadLine
    <3> QED
      BY <1>33, <3>1 DEF ReadLine, coordinator, processes, iterator
  <2>2. CASE ~ settling /\ HasRoom
    <3>1. taken' = [taken EXCEPT ![s] = @ + 1] /\ reader' = reader
      BY <1>33, <2>2 DEF ReadLine
    <3> QED
      BY <1>33, <3>1 DEF ReadLine, coordinator, processes, iterator
  <2>3. CASE ~ settling /\ ~ HasRoom
    BY <1>33, <2>3 DEF ReadLine, coordinator, processes, iterator
  <2> QED
    BY <2>1, <2>2, <2>3
<1>34. ASSUME NEW s \in Streams, PutLine(s) PROVE Ends'
  BY <1>34 DEF PutLine, HasRoom, NextLine, Line, fixed,
      iterator, coordinator,
       processes, resources
<1>35. ASSUME NEW s \in Streams, ReaderEnds(s) PROVE Ends'
  BY <1>35 DEF ReaderEnds, fixed, iterator, coordinator, processes,
      resources
<1>36. ASSUME NEW s \in Streams, ReaderFails(s) PROVE Ends'
  BY <1>36 DEF ReaderFails, fixed, iterator, coordinator, processes,
      resources
<1>37. ASSUME UNCHANGED lineVars PROVE Ends'
  BY <1>37 DEF lineVars, fixed, iterator, coordinator, processes,
      lines, resources
<1> QED
  BY <1>1, <1>2, <1>3, <1>4, <1>5, <1>6, <1>7, <1>8, <1>9, <1>10, <1>11,
       <1>12, <1>13, <1>14, <1>15, <1>16, <1>17, <1>18, <1>19, <1>20, <1>21,
       <1>22, <1>23, <1>24, <1>25, <1>26, <1>27, <1>28, <1>29, <1>30, <1>31,
       <1>32, <1>33, <1>34, <1>35, <1>36, <1>37 DEF LineNext, CoSteps,
       SettleSteps, Consumer, Environment, ReaderSteps

\* A step that leaves queue, seen and taken lines alone keeps the order.
LEMMA OrderKept ==
    ASSUME Tables, Order,
           UNCHANGED << queue, taken, seen >>,
           settling => settling',
           \A s \in Streams : reader'[s] = "putting" => reader[s] = "putting",
           future' = future \/ future = "pending"
    PROVE  Order'
<1>1. ResultLast'
  BY DEF Order, ResultLast
<1>2. ASSUME NEW s \in Streams PROVE InOrder(s)'
  BY DEF Order, InOrder, IsLine
<1>3. ASSUME NEW s \in Streams PROVE NothingDropped(s)'
  BY <1>3 DEF Order, NothingDropped, IsLine
<1> QED
  BY <1>1, <1>2, <1>3 DEF Order

\* A line behind all the lines its reader has taken keeps the order.
LEMMA OrderPublish ==
    ASSUME Tables, Order, NEW s \in Streams,
           ~ settling \/ reader[s] = "putting",
           \A i \in DOMAIN queue : queue[i].kind = "line",
           queue' = Append(queue, NextLine(s)),
           taken' = [taken EXCEPT ![s] = @ + 1],
           UNCHANGED << seen, settling, future >>,
           \A r \in Streams : reader'[r] = "putting" => reader[r] = "putting"
    PROVE  Order'
<1>0. PICK n \in Nat : n = Len(queue)
  <2>1. Len(queue) \in Nat
    BY DEF Tables
  <2> QED
    BY <2>1
<1>1. n \in Nat /\ DOMAIN queue = 1..n /\ DOMAIN queue' = 1..(n + 1)
  BY <1>0 DEF Tables
<1>2. \A i \in 1..n : queue'[i] = queue[i]
  BY <1>0 DEF Tables
<1>3. /\ queue'[n + 1].kind = "line" /\ queue'[n + 1].stream = s
      /\ queue'[n + 1].number = taken[s] + 1
  BY <1>0 DEF Tables, NextLine, Line
<1>4. taken[s] \in Nat /\ taken'[s] = taken[s] + 1
  BY DEF Tables
<1>5. \A r \in Streams \ {s} : taken'[r] = taken[r]
  BY DEF Tables
<1>6. \A r \in Streams, i \in 1..n : IsLine(i, r)' <=> IsLine(i, r)
  BY <1>1, <1>2 DEF IsLine
<1>7. \A r \in Streams : IsLine(n + 1, r)' <=> r = s
  BY <1>1, <1>3 DEF IsLine
<1>8. \A r \in Streams, i \in 1..n : IsLine(i, r) => queue[i].number \in Nat
  BY <1>1 DEF IsLine, Tables, Items
<1>9. ResultLast'
  BY <1>1, <1>2, <1>3 DEF ResultLast
<1>10. ASSUME NEW r \in Streams PROVE InOrder(r)'
  <2> USE <1>1, <1>2, <1>6, <1>7, <1>8
  <2>1. InOrder(r) /\ seen'[r] = seen[r] /\ Len(seen[r]) \in Nat
    BY DEF Order, Tables
  <2>2. \A i \in DOMAIN seen'[r] : seen'[r][i] = i
    BY <2>1 DEF InOrder
  <2>3. ASSUME NEW i \in 1..n, IsLine(i, r)
        PROVE  /\ Len(seen'[r]) < queue'[i].number
               /\ queue'[i].number <= taken'[r]
               /\ \/ queue'[i].number = Len(seen'[r]) + 1
                  \/ \E j \in 1..(i - 1) :
                       IsLine(j, r)' /\ queue'[j].number + 1 = queue'[i].number
    <3>1. taken[r] \in Nat /\ taken[r] <= taken'[r] /\ taken'[r] \in Nat
      BY <1>4, <1>5 DEF Tables
    <3>2. /\ Len(seen'[r]) < queue'[i].number
          /\ queue'[i].number <= taken'[r]
      BY <2>1, <2>3, <3>1 DEF InOrder
    <3>3. CASE queue[i].number = Len(seen[r]) + 1
      BY <2>1, <3>2, <3>3
    <3>4. ASSUME NEW j \in 1..(i - 1), IsLine(j, r),
                 queue[j].number + 1 = queue[i].number
          PROVE  IsLine(j, r)' /\ queue'[j].number + 1 = queue'[i].number
      BY <3>4
    <3> QED
      BY <2>1, <2>3, <3>2, <3>3, <3>4 DEF InOrder
  <2>4. ASSUME r = s
        PROVE  /\ Len(seen'[r]) < taken[r] + 1
               /\ \/ taken[r] + 1 = Len(seen'[r]) + 1
                  \/ \E j \in 1..n :
                       IsLine(j, r)' /\ queue'[j].number + 1 = taken[r] + 1
    BY <2>1, <2>4, <1>4 DEF Order, NothingDropped, InOrder
  <2>5. ASSUME NEW i \in 1..(n + 1), IsLine(i, r)'
        PROVE  /\ Len(seen'[r]) < queue'[i].number
               /\ queue'[i].number <= taken'[r]
               /\ \/ queue'[i].number = Len(seen'[r]) + 1
                  \/ \E j \in 1..(i - 1) :
                       IsLine(j, r)' /\ queue'[j].number + 1 = queue'[i].number
    <3>1. CASE i \in 1..n
      BY <2>3, <2>5, <3>1
    <3>2. CASE i = n + 1
      BY <2>4, <2>5, <3>2, <1>3, <1>4
    <3> QED
      BY <3>1, <3>2
  <2>6. ASSUME NEW i \in 1..(n + 1), NEW j \in 1..(n + 1), i < j,
               IsLine(i, r)', IsLine(j, r)'
        PROVE  queue'[i].number < queue'[j].number
    <3>1. CASE j \in 1..n
      BY <2>1, <2>6, <3>1, SMTT(30) DEF InOrder
    <3>2. CASE j = n + 1
      <4>1. r = s /\ i \in 1..n
        BY <2>6, <3>2
      <4> QED
        BY <2>1, <2>6, <3>2, <4>1, <1>3, <1>4, SMTT(30) DEF InOrder
    <3> QED
      BY <3>1, <3>2
  <2> QED
    BY <2>2, <2>5, <2>6 DEF InOrder
<1>11. ASSUME NEW r \in Streams PROVE NothingDropped(r)'
  <2>1. CASE r = s
    BY <2>1, <1>1, <1>3, <1>4, <1>7 DEF NothingDropped
  <2>2. CASE r # s
    <3>1. NothingDropped(r)
      BY DEF Order
    <3> QED
      BY <2>2, <3>1, <1>1, <1>2, <1>5, <1>6 DEF NothingDropped
  <2> QED
    BY <2>1, <2>2
<1> QED
  BY <1>9, <1>10, <1>11 DEF Order

\* The head of the queue is the next line of its stream.
LEMMA OrderTake ==
    ASSUME Tables, Order, TakeLine PROVE Order'
<1>0. PICK n \in Nat : n = Len(queue) /\ n # 0
  <2>1. Len(queue) \in Nat /\ Len(queue) # 0
    BY DEF Tables, TakeLine
  <2> QED
    BY <2>1
<1>1. DOMAIN queue = 1..n /\ DOMAIN queue' = 1..(n - 1) /\ Len(queue') = n - 1
  BY <1>0 DEF Tables, TakeLine
<1>2. \A i \in 1..(n - 1) : queue'[i] = queue[i + 1]
  BY <1>0 DEF Tables, TakeLine
<1>3. PICK s \in Streams, k \in Nat :
         /\ queue[1].kind = "line" /\ queue[1].stream = s
         /\ queue[1].number = k
  <2>1. queue[1] \in Items /\ queue[1].kind = "line"
    BY <1>0 DEF Tables, TakeLine
  <2>2. queue[1].stream \in Streams /\ queue[1].number \in Nat
    BY <2>1 DEF Items
  <2> QED
    BY <2>1, <2>2
<1>4. IsLine(1, s) /\ \A r \in Streams : IsLine(1, r) => r = s
  BY <1>0, <1>1, <1>3 DEF IsLine
<1>5. \A r \in Streams, i \in 1..(n - 1) : IsLine(i, r)' <=> IsLine(i + 1, r)
  BY <1>0, <1>1, <1>2 DEF IsLine
<1>6. \A r \in Streams, i \in 1..n : IsLine(i, r) => queue[i].number \in Nat
  BY <1>1 DEF IsLine, Tables, Items
<1>7. \A r \in Streams : seen[r] \in Seq(Nat) /\ Len(seen[r]) \in Nat
  BY DEF Tables
<1>8. k = Len(seen[s]) + 1
  BY <1>0, <1>1, <1>3, <1>4 DEF Order, InOrder
<1>9. /\ seen'[s] = Append(seen[s], k)
      /\ \A r \in Streams \ {s} : seen'[r] = seen[r]
      /\ UNCHANGED << taken, reader, settling, future >>
  <2>1. UNCHANGED << taken, reader, settling, future >>
    BY DEF TakeLine, coordinator
  <2>2. Head(queue) = queue[1]
    BY <1>0 DEF Tables
  <2>3. seen' = [seen EXCEPT ![s] = Append(@, k)]
    BY <1>3, <2>2 DEF TakeLine
  <2> QED
    BY <2>1, <2>3 DEF Tables
<1>10. /\ Len(seen'[s]) = k
       /\ DOMAIN seen[s] = 1..(k - 1) /\ DOMAIN seen'[s] = 1..k
       /\ seen'[s][k] = k
       /\ \A i \in 1..(k - 1) : seen'[s][i] = seen[s][i]
  <2>1. seen[s] \in Seq(Nat) /\ Len(seen[s]) = k - 1
    BY <1>7, <1>8
  <2> QED
    BY <2>1, <1>3, <1>9
<1>11. ResultLast'
  <2>1. ASSUME NEW i \in 1..(n - 1), queue[i + 1].kind = "result"
        PROVE  i = n - 1 /\ future = "result"
    <3>1. i + 1 \in 1..n
      BY <1>0
    <3> QED
      BY <2>1, <3>1, <1>0, <1>1 DEF Order, ResultLast
  <2> QED
    BY <2>1, <1>1, <1>2, <1>9 DEF ResultLast
<1>12. ASSUME NEW r \in Streams PROVE InOrder(r)'
  <2> USE <1>0, <1>1, <1>5, <1>6, <1>7
  <2>1. InOrder(r)
    BY DEF Order
  <2>2. \A i \in DOMAIN seen'[r] : seen'[r][i] = i
    <3>1. CASE r = s
      BY <2>1, <3>1, <1>3, <1>10, SMTT(30) DEF InOrder
    <3>2. CASE r # s
      BY <2>1, <3>2, <1>9 DEF InOrder
    <3> QED
      BY <3>1, <3>2
  <2>3. ASSUME NEW i \in 1..(n - 1), IsLine(i + 1, r)
        PROVE  /\ Len(seen'[r]) < queue[i + 1].number
               /\ queue[i + 1].number <= taken[r]
               /\ \/ queue[i + 1].number = Len(seen'[r]) + 1
                  \/ \E j \in 1..(i - 1) :
                       /\ IsLine(j + 1, r)
                       /\ queue[j + 1].number + 1 = queue[i + 1].number
    <3>1. /\ i + 1 \in 1..n /\ 1 \in 1..n /\ 1 < i + 1
          /\ Len(seen[r]) < queue[i + 1].number
          /\ queue[i + 1].number <= taken[r]
          /\ queue[i + 1].number \in Nat
      BY <2>1, <2>3 DEF InOrder
    <3>2. Len(seen'[r]) < queue[i + 1].number
      <4>1. CASE r = s
        <5>1. queue[1].number < queue[i + 1].number
          BY <2>1, <2>3, <3>1, <4>1, <1>4 DEF InOrder
        <5> QED
          BY <4>1, <5>1, <1>3, <1>10
      <4>2. CASE r # s
        BY <3>1, <4>2, <1>9
      <4> QED
        BY <4>1, <4>2
    <3>3. ASSUME queue[i + 1].number = Len(seen[r]) + 1
          PROVE  queue[i + 1].number = Len(seen'[r]) + 1
      <4>1. r # s
        BY <3>2, <3>3, <1>8, <1>10
      <4> QED
        BY <3>3, <4>1, <1>9
    <3>4. ASSUME NEW j \in 1..(i + 1 - 1), IsLine(j, r),
                 queue[j].number + 1 = queue[i + 1].number
          PROVE  \/ queue[i + 1].number = Len(seen'[r]) + 1
                 \/ \E m \in 1..(i - 1) :
                      /\ IsLine(m + 1, r)
                      /\ queue[m + 1].number + 1 = queue[i + 1].number
      <4>1. CASE j = 1
        BY <3>4, <4>1, <1>3, <1>4, <1>8, <1>10
      <4>2. CASE j # 1
        <5>1. j - 1 \in 1..(i - 1) /\ (j - 1) + 1 = j
          BY <3>4, <4>2
        <5> QED
          BY <3>4, <5>1
      <4> QED
        BY <4>1, <4>2
    <3>5. \/ queue[i + 1].number = Len(seen[r]) + 1
          \/ \E j \in 1..(i + 1 - 1) :
               IsLine(j, r) /\ queue[j].number + 1 = queue[i + 1].number
      BY <2>1, <2>3, <3>1, SMTT(30) DEF InOrder
    <3> QED
      BY <3>1, <3>2, <3>3, <3>4, <3>5
  <2>4. ASSUME NEW i \in 1..(n - 1), IsLine(i, r)'
        PROVE  /\ Len(seen'[r]) < queue'[i].number
               /\ queue'[i].number <= taken'[r]
               /\ \/ queue'[i].number = Len(seen'[r]) + 1
                  \/ \E j \in 1..(i - 1) :
                       IsLine(j, r)' /\ queue'[j].number + 1 = queue'[i].number
    <3>1. IsLine(i + 1, r) /\ queue'[i] = queue[i + 1] /\ taken' = taken
      BY <2>4, <1>2, <1>9
    <3>2. \A j \in 1..(i - 1) : /\ IsLine(j, r)' <=> IsLine(j + 1, r)
                                /\ queue'[j] = queue[j + 1]
      BY <1>2
    <3> QED
      BY <2>3, <3>1, <3>2
  <2>5. ASSUME NEW i \in 1..(n - 1), NEW j \in 1..(n - 1), i < j,
               IsLine(i, r)', IsLine(j, r)'
        PROVE  queue'[i].number < queue'[j].number
    <3>1. i + 1 \in 1..n /\ j + 1 \in 1..n /\ i + 1 < j + 1
      BY <2>5
    <3>2. queue[i + 1].number < queue[j + 1].number
      BY <2>1, <2>5, <3>1 DEF InOrder
    <3> QED
      BY <3>2, <1>2
  <2> QED
    BY <2>2, <2>4, <2>5 DEF InOrder
<1>13. ASSUME NEW r \in Streams PROVE NothingDropped(r)'
  <2> SUFFICES ASSUME ~ settling \/ reader[r] = "putting"
               PROVE  \/ taken[r] = Len(seen'[r])
                      \/ \E i \in 1..(n - 1) :
                           IsLine(i, r)' /\ queue'[i].number = taken[r]
    BY <1>1, <1>9 DEF NothingDropped
  <2>1. \/ taken[r] = Len(seen[r])
        \/ \E i \in 1..n : IsLine(i, r) /\ queue[i].number = taken[r]
    BY <1>1 DEF Order, NothingDropped
  <2>2. ASSUME taken[r] = Len(seen[r]) PROVE r # s
    BY <2>2, <1>0, <1>1, <1>3, <1>4, <1>7, <1>8 DEF Order, InOrder
  <2>3. ASSUME NEW i \in 1..n, IsLine(i, r), queue[i].number = taken[r]
        PROVE  \/ taken[r] = Len(seen'[r])
               \/ \E j \in 1..(n - 1) :
                    IsLine(j, r)' /\ queue'[j].number = taken[r]
    <3>1. CASE i = 1
      BY <2>3, <3>1, <1>3, <1>4, <1>8, <1>10
    <3>2. CASE i # 1
      <4>1. i - 1 \in 1..(n - 1) /\ (i - 1) + 1 = i
        BY <1>0, <2>3, <3>2
      <4> QED
        BY <2>3, <4>1, <1>2, <1>5
    <3> QED
      BY <3>1, <3>2
  <2> QED
    BY <2>1, <2>2, <2>3, <1>9
<1> QED
  BY <1>11, <1>12, <1>13 DEF Order

\* The result is taken from behind the last line.
LEMMA OrderTakeResult ==
    ASSUME Tables, Order, TakeResult
    PROVE  /\ Order'
           /\ future = "result"
           /\ \A s \in Streams : ~ settling => taken[s] = Len(seen[s])
<1>1. 1 \in DOMAIN queue /\ queue[1].kind = "result"
  BY DEF TakeResult, Tables
<1>2. Len(queue) = 1 /\ future = "result"
  BY <1>1 DEF Order, ResultLast
<1>3. /\ DOMAIN queue = {1} /\ DOMAIN queue' = {}
      /\ UNCHANGED << taken, reader, seen, settling, future >>
  BY <1>2 DEF TakeResult, EndBody, coordinator, Tables
<1>4. \A s \in Streams, i \in DOMAIN queue : ~ IsLine(i, s)
  BY <1>1, <1>3 DEF IsLine
<1>5. ASSUME NEW s \in Streams, ~ settling \/ reader[s] = "putting"
      PROVE  taken[s] = Len(seen[s])
  BY <1>4, <1>5 DEF Order, NothingDropped
<1>6. ResultLast' /\ \A s \in Streams : InOrder(s)' /\ NothingDropped(s)'
  BY <1>3, <1>5 DEF Order, ResultLast, InOrder, NothingDropped
<1> QED
  BY <1>2, <1>5, <1>6 DEF Order

\* The result goes behind every line, and there is only one.
LEMMA OrderPutResult ==
    ASSUME Tables, Order, future = "pending", PutResult PROVE Order'
<1>0. PICK n \in Nat : n = Len(queue)
  <2>1. Len(queue) \in Nat
    BY DEF Tables
  <2> QED
    BY <2>1
<1>1. DOMAIN queue = 1..n /\ DOMAIN queue' = 1..(n + 1) /\ Len(queue') = n + 1
  BY <1>0 DEF Tables, PutResult
<1>2. \A i \in 1..n : queue'[i] = queue[i]
  BY <1>0 DEF Tables, PutResult
<1>3. queue'[n + 1].kind = "result" /\ future' = "result"
  BY <1>0 DEF Tables, PutResult, Result
<1>4. UNCHANGED << taken, reader, seen, settling >>
  BY DEF PutResult
<1>5. \A i \in 1..n : queue[i].kind # "result"
  BY <1>1 DEF Order, ResultLast
<1>6. \A s \in Streams, i \in 1..n : IsLine(i, s)' <=> IsLine(i, s)
  BY <1>1, <1>2 DEF IsLine
<1>7. \A s \in Streams, i \in 1..(n + 1) : IsLine(i, s)' => i \in 1..n
  BY <1>0, <1>1, <1>3 DEF IsLine
<1>8. ResultLast'
  BY <1>0, <1>1, <1>2, <1>3, <1>5 DEF ResultLast
<1>9. ASSUME NEW s \in Streams PROVE InOrder(s)' /\ NothingDropped(s)'
  <2>1. InOrder(s) /\ NothingDropped(s)
    BY DEF Order
  <2>2. InOrder(s)'
    BY <2>1, <1>0, <1>1, <1>2, <1>4, <1>6, <1>7 DEF InOrder
  <2>3. NothingDropped(s)'
    BY <2>1, <1>0, <1>1, <1>2, <1>4, <1>6 DEF NothingDropped
  <2> QED
    BY <2>2, <2>3
<1> QED
  BY <1>8, <1>9 DEF Order

\* As long as a reader is at work no result is queued.
LEMMA NoResultYet ==
    ASSUME Tables, Order, Ends, NEW s \in Streams, reader[s] # "eof"
    PROVE  \A i \in DOMAIN queue : queue[i].kind = "line"
<1>1. future # "result"
  BY DEF Ends, Collected
<1>2. \A i \in DOMAIN queue : queue[i].kind \in {"line", "result"}
  BY DEF Tables, Items
<1> QED
  BY <1>1, <1>2 DEF Order, ResultLast

\* Every step keeps the queue's lines in order and without a gap.
LEMMA OrderStep ==
    Tables /\ Values /\ Bracket /\ Unpublished /\ Order /\ Ends /\
      [LineNext]_lineVars => Order'
<1> SUFFICES ASSUME Tables, Values, Bracket, Unpublished, Order, Ends,
                   [LineNext]_lineVars PROVE Order'
  OBVIOUS
<1> USE DEF Tables, Values, CoAwaits, CoShielded, ReaderDone
<1>1. ASSUME Start PROVE Order'
  BY <1>1, OrderKept DEF Start, Spawned, coLeaves, fixed, iterator
<1>2. ASSUME SpawnFails PROVE Order'
  BY <1>2, OrderKept DEF SpawnFails, Publish, coLeaves, fixed,
      iterator, lines
<1>3. ASSUME StartHookFails PROVE Order'
  BY <1>3, OrderKept DEF StartHookFails, Spawned, coLeaves, fixed,
      iterator
<1>4. ASSUME AbandonIdle PROVE Order'
  BY <1>4, OrderKept DEF AbandonIdle, StopIdle, coLeaves, fixed,
      iterator,
       processes, lines
<1>5. ASSUME AbandonKill PROVE Order'
  BY <1>5, OrderKept DEF AbandonKill, Stop, Publish, coLeaves, fixed,
       iterator, lines
<1>6. ASSUME AbandonDrain PROVE Order'
  BY <1>6, OrderKept DEF AbandonDrain, CutReaders, Publish, CoRaised,
       coLeaves, fixed, iterator, processes
<1>7. ASSUME ExitSeen PROVE Order'
  BY <1>7, OrderKept DEF ExitSeen, StopIdle, coLeaves, fixed,
      iterator,
       processes, lines
<1>8. ASSUME ExitExpires PROVE Order'
  BY <1>8, OrderKept DEF ExitExpires, coLeaves, fixed, iterator,
      processes,
       lines
<1>9. ASSUME ExitStopped PROVE Order'
  BY <1>9, OrderKept DEF ExitStopped, Stop, EnterTeardown, CoRaised,
      coLeaves,
       fixed, iterator, lines
<1>10. ASSUME Teardown PROVE Order'
  BY <1>10, OrderKept DEF Teardown, SettleGroup, Stop, processes,
      StopIdle,
       CutReaders, Publish, CoRaised, coLeaves, fixed, iterator
<1>11. ASSUME Collect PROVE Order'
  BY <1>11, OrderKept DEF Collect, ReadersDone, EnterTeardown, coLeaves,
       fixed, iterator, processes, lines
<1>12. ASSUME ReadDrains PROVE Order'
  BY <1>12, OrderKept DEF ReadDrains, coLeaves, fixed, iterator,
      processes,
       lines
<1>13. ASSUME Finalize PROVE Order'
  BY <1>13, OrderKept DEF Finalize, Publish, coLeaves, fixed,
      iterator,
       processes, lines
<1>14. ASSUME CloseWorker PROVE Order'
  BY <1>14, OrderKept DEF CloseWorker, Publish, fixed, iterator,
      processes,
       lines
<1>15. ASSUME PutResult PROVE Order'
  <2>1. future = "pending"
    BY <1>15 DEF PutResult, Unpublished
  <2> QED
    BY <1>15, <2>1, OrderPutResult
<1>16. ASSUME Absorb PROVE Order'
  BY <1>16, OrderKept DEF Absorb, Settled, fixed, coordinator,
      processes,
       lines
<1>17. ASSUME Drain PROVE Order'
  BY <1>17, OrderKept DEF Drain, Settled, fixed, coordinator,
      processes, lines
<1>18. ASSUME CloseDelivery PROVE Order'
  BY <1>18, OrderKept DEF CloseDelivery, Settled, fixed, coordinator,
       processes, lines
<1>19. ASSUME CloseSink PROVE Order'
  BY <1>19, OrderKept DEF CloseSink, Outcome, Settled, fixed,
      coordinator,
       processes, lines
<1>20. ASSUME FirstPull PROVE Order'
  BY <1>20, OrderKept DEF FirstPull, fixed, processes, lines
<1>21. ASSUME StartFails PROVE Order'
  BY <1>21, OrderKept DEF StartFails, fixed, coordinator, processes,
      lines
<1>22. ASSUME Pull PROVE Order'
  BY <1>22, OrderKept DEF Pull, fixed, coordinator, processes, lines,
       resources
<1>23. ASSUME TakeFailure PROVE Order'
  BY <1>23, OrderKept DEF TakeFailure, EndBody, coordinator, processes,
      fixed,
       lines, resources
<1>24. ASSUME TakeLine PROVE Order'
  BY <1>24, OrderTake
<1>25. ASSUME TakeResult PROVE Order'
  BY <1>25, OrderTakeResult
<1>26. ASSUME CloseUnused PROVE Order'
  BY <1>26, OrderKept DEF CloseUnused, fixed, coordinator, processes,
      lines,
       resources
<1>27. ASSUME Leave PROVE Order'
  <2>1. future = "pending" => co \notin Ended
    BY <1>27 DEF Leave, Bracket, Unpublished, Ended
  <2>2. UNCHANGED << queue, taken, seen, reader >>
    BY <1>27 DEF Leave, lines
  <2>3. (settling => settling') /\ (future' = future \/ future = "pending")
    BY <1>27, <2>1 DEF Leave, CancelCoordinator, Publish, EnterTeardown,
         coordinator, Ended
  <2> QED
    BY <2>2, <2>3, OrderKept
<1>28. ASSUME CancelSettlement PROVE Order'
  BY <1>28, OrderKept DEF CancelSettlement, fixed, coordinator, processes,
       lines, resources
<1>29. ASSUME ChildExits PROVE Order'
  BY <1>29, OrderKept DEF ChildExits, fixed, iterator, coordinator,
      lines,
       resources
<1>30. ASSUME DescendantExits PROVE Order'
  BY <1>30, OrderKept DEF DescendantExits, fixed, iterator, coordinator,
       lines, resources
<1>31. ASSUME TimePasses PROVE Order'
  BY <1>31, OrderKept DEF TimePasses, fixed, iterator, coordinator,
      processes,
       lines, resources
<1>32. ASSUME NEW s \in Streams, ChildWrites(s) PROVE Order'
  BY <1>32, OrderKept DEF ChildWrites, fixed, iterator, coordinator,
      lines,
       resources
<1>33. ASSUME NEW s \in Streams, ReadLine(s) PROVE Order'
  <2>1. NothingDropped(s) /\ reader[s] = "reading" /\ future = future'
    BY <1>33 DEF ReadLine, Order, coordinator
  <2>2. CASE settling
    <3>1. /\ UNCHANGED << queue, seen, settling, reader >>
          /\ taken' = [taken EXCEPT ![s] = @ + 1]
      BY <1>33, <2>2 DEF ReadLine, coordinator
    <3>2. \A r \in Streams : taken[r] \in Nat /\ taken'[r] \in Nat
                             /\ taken[r] <= taken'[r]
      BY <3>1 DEF Tables
    <3>3. \A r \in Streams : InOrder(r)'
      <4> SUFFICES ASSUME NEW r \in Streams PROVE InOrder(r)'
        OBVIOUS
      <4>1. \A i \in DOMAIN queue : IsLine(i, r) => queue[i].number \in Nat
        BY DEF IsLine, Tables, Items
      <4>2. InOrder(r)
        BY DEF Order
      <4> QED
        BY <4>1, <4>2, <3>1, <3>2 DEF InOrder, IsLine
    <3>4. \A r \in Streams : NothingDropped(r)'
      BY <2>1, <2>2, <3>1 DEF Order, NothingDropped, IsLine, Tables
    <3>5. ResultLast'
      BY <2>1, <3>1 DEF Order, ResultLast
    <3> QED
      BY <3>3, <3>4, <3>5 DEF Order
  <2>3. CASE ~ settling /\ HasRoom
    <3>1. /\ queue' = Append(queue, NextLine(s))
          /\ taken' = [taken EXCEPT ![s] = @ + 1]
          /\ UNCHANGED << seen, settling, future, reader >>
      BY <1>33, <2>3 DEF ReadLine, coordinator
    <3>2. \A i \in DOMAIN queue : queue[i].kind = "line"
      BY <2>1, NoResultYet
    <3> QED
      BY <2>3, <3>1, <3>2, OrderPublish
  <2>4. CASE ~ settling /\ ~ HasRoom
    <3>1. /\ UNCHANGED << queue, seen, settling, taken >>
          /\ reader' = [reader EXCEPT ![s] = "putting"]
      BY <1>33, <2>4 DEF ReadLine, coordinator
    <3>2. \A r \in Streams : InOrder(r)' /\ NothingDropped(r)'
      BY <2>4, <3>1 DEF Order, InOrder, NothingDropped, IsLine
    <3>3. ResultLast'
      BY <2>1, <3>1 DEF Order, ResultLast
    <3> QED
      BY <3>2, <3>3 DEF Order
  <2> QED
    BY <2>2, <2>3, <2>4
<1>34. ASSUME NEW s \in Streams, PutLine(s) PROVE Order'
  <2>1. /\ reader[s] = "putting"
        /\ taken' = [taken EXCEPT ![s] = @ + 1]
        /\ reader' = [reader EXCEPT ![s] = "reading"]
        /\ UNCHANGED << seen, settling, future >>
    BY <1>34 DEF PutLine, coordinator
  <2>2. \A r \in Streams : /\ reader'[r] = "putting" => reader[r] = "putting"
                           /\ r = s => reader'[r] # "putting"
    BY <2>1 DEF Tables
  <2>3. CASE queue' = Append(queue, NextLine(s))
    <3>1. \A i \in DOMAIN queue : queue[i].kind = "line"
      BY <2>1, NoResultYet
    <3> QED
      BY <2>1, <2>2, <2>3, <3>1, OrderPublish
  <2>4. CASE settling /\ UNCHANGED queue
    <3>1. \A r \in Streams : taken[r] \in Nat /\ taken'[r] \in Nat
                             /\ taken[r] <= taken'[r]
                             /\ (r # s => taken'[r] = taken[r])
      BY <2>1 DEF Tables
    <3>2. ASSUME NEW r \in Streams PROVE InOrder(r)'
      <4>1. \A i \in DOMAIN queue : IsLine(i, r) => queue[i].number \in Nat
        BY DEF IsLine, Tables, Items
      <4>2. InOrder(r)
        BY DEF Order
      <4> QED
        BY <4>1, <4>2, <2>1, <2>4, <3>1 DEF InOrder, IsLine
    <3>3. ASSUME NEW r \in Streams PROVE NothingDropped(r)'
      <4>1. NothingDropped(r)
        BY DEF Order
      <4>2. CASE r = s
        BY <2>1, <2>2, <2>4, <4>2 DEF NothingDropped
      <4>3. CASE r # s
        BY <2>1, <2>2, <2>4, <3>1, <4>1, <4>3 DEF NothingDropped, IsLine
      <4> QED
        BY <4>2, <4>3
    <3>4. ResultLast'
      BY <2>1, <2>4 DEF Order, ResultLast
    <3> QED
      BY <3>2, <3>3, <3>4 DEF Order
  <2> QED
    BY <1>34, <2>3, <2>4 DEF PutLine
<1>35. ASSUME NEW s \in Streams, ReaderEnds(s) PROVE Order'
  BY <1>35, OrderKept DEF ReaderEnds, fixed, iterator, coordinator,
      processes,
       resources
<1>36. ASSUME NEW s \in Streams, ReaderFails(s) PROVE Order'
  BY <1>36, OrderKept DEF ReaderFails, fixed, iterator, coordinator,
       processes, resources
<1>37. ASSUME UNCHANGED lineVars PROVE Order'
  BY <1>37, OrderKept DEF lineVars, fixed, iterator, coordinator,
      processes,
       lines, resources
<1> QED
  BY <1>1, <1>2, <1>3, <1>4, <1>5, <1>6, <1>7, <1>8, <1>9, <1>10, <1>11,
       <1>12, <1>13, <1>14, <1>15, <1>16, <1>17, <1>18, <1>19, <1>20, <1>21,
       <1>22, <1>23, <1>24, <1>25, <1>26, <1>27, <1>28, <1>29, <1>30, <1>31,
       <1>32, <1>33, <1>34, <1>35, <1>36, <1>37 DEF LineNext, CoSteps,
       SettleSteps, Consumer, Environment, ReaderSteps

\* An iteration begins with an empty queue and nothing of its own.
LEMMA LineInitial == LineInit => LineInv
<1> SUFFICES ASSUME LineInit PROVE LineInv
  OBVIOUS
<1>1. Flags /\ Values
  BY LineStreamAssumption DEF LineInit, Flags, Values, LineErrors, Published, ItAwaits,
       CoAwaits
<1>2. Tables
  BY DEF LineInit, Tables, ReaderDone
<1>3. Bracket /\ Unpublished /\ Quiet
  BY DEF LineInit, Bracket, Unpublished, Quiet, Opened, Ended, Settling, ReaderDone
<1>4. Order
  BY DEF LineInit, Order, ResultLast, InOrder, NothingDropped, IsLine
<1>5. Ends
  BY DEF LineInit, Ends, Collected, Collecting, AtEnd
<1> QED
  BY <1>1, <1>2, <1>3, <1>4, <1>5 DEF LineInv, LineTypes

\* Every step of generator, coordinator, readers and child keeps the invariant.
LEMMA StepIInv == LineInv /\ [LineNext]_lineVars => LineInv'
BY FlagStep, ValueStep, TableStep, BracketStep, UnpublishedStep, LineQuiet,
   EndStep, OrderStep DEF LineInv, LineTypes

\* The inductive invariant holds in every state of every iteration.
THEOREM LineInvariance == LineSpec => []LineInv
BY LineInitial, StepIInv, PTL DEF LineSpec

\* Every variable of an iteration keeps its type.
THEOREM LineTypesCorrect == LineSpec => []LineTypes
<1>1. LineInv => LineTypes
  BY DEF LineInv
<1> QED
  BY <1>1, LineInvariance, PTL

\* Whatever the consumer, its cancellations, the hooks, the readers and the
\* child do, a closed stream has left nothing of its run behind.
THEOREM StreamLeavesNothing == LineSpec => []NothingLeftBehind
<1>1. LineInv => NothingLeftBehind
  BY DEF LineInv, Bracket, Quiet, Ended, ChildAwaits, BeatAwaits, SinkAwaits,
       ReaderAwaits, NothingLeftBehind
<1> QED
  BY <1>1, LineInvariance, PTL

-----------------------------------------------------------------------------
\* The end of the iteration as LineDelivery sees it.
Closing == Settling \cup {"closed"}

\* Every step is a step of LineDelivery, or changes nothing it sees.
LEMMA DeliveryStep == LineInv /\ [LineNext]_lineVars => [LD!Next]_LD!vars
<1> SUFFICES ASSUME Tables, Values, Bracket, Unpublished, Order, Ends,
                   [LineNext]_lineVars PROVE [LD!Next]_LD!vars
  BY DEF LineInv, LineTypes
<1> USE DEF LD!vars, Settling
<1>1. ASSUME Start PROVE [LD!Next]_LD!vars
  BY <1>1 DEF Start, Spawned, coLeaves, fixed, iterator
<1>2. ASSUME SpawnFails PROVE [LD!Next]_LD!vars
  BY <1>2 DEF SpawnFails, Publish, coLeaves, fixed, iterator,
      lines
<1>3. ASSUME StartHookFails PROVE [LD!Next]_LD!vars
  BY <1>3 DEF StartHookFails, Spawned, coLeaves, fixed, iterator
<1>4. ASSUME AbandonIdle PROVE [LD!Next]_LD!vars
  BY <1>4 DEF AbandonIdle, StopIdle, coLeaves, fixed, iterator,
      processes,
       lines
<1>5. ASSUME AbandonKill PROVE [LD!Next]_LD!vars
  BY <1>5 DEF AbandonKill, Stop, Publish, coLeaves, fixed,
      iterator, lines
<1>6. ASSUME AbandonDrain PROVE [LD!Next]_LD!vars
  BY <1>6 DEF AbandonDrain, CutReaders, Publish, CoRaised, coLeaves,
      fixed,
       iterator, processes
<1>7. ASSUME ExitSeen PROVE [LD!Next]_LD!vars
  BY <1>7 DEF ExitSeen, StopIdle, coLeaves, fixed, iterator,
      processes, lines
<1>8. ASSUME ExitExpires PROVE [LD!Next]_LD!vars
  BY <1>8 DEF ExitExpires, coLeaves, fixed, iterator, processes,
      lines
<1>9. ASSUME ExitStopped PROVE [LD!Next]_LD!vars
  BY <1>9 DEF ExitStopped, Stop, EnterTeardown, CoRaised, coLeaves,
      fixed,
       iterator, lines
<1>10. ASSUME Teardown PROVE [LD!Next]_LD!vars
  BY <1>10 DEF Teardown, SettleGroup, Stop, processes, StopIdle,
      CutReaders,
       Publish, CoRaised, coLeaves, fixed, iterator
<1>11. ASSUME Collect PROVE [LD!Next]_LD!vars
  BY <1>11 DEF Collect, ReadersDone, EnterTeardown, coLeaves, fixed,
      iterator,
       processes, lines
<1>12. ASSUME ReadDrains PROVE [LD!Next]_LD!vars
  BY <1>12 DEF ReadDrains, coLeaves, fixed, iterator, processes,
      lines
<1>13. ASSUME Finalize PROVE [LD!Next]_LD!vars
  BY <1>13 DEF Finalize, Publish, coLeaves, fixed, iterator,
      processes, lines
<1>14. ASSUME CloseWorker PROVE [LD!Next]_LD!vars
  BY <1>14 DEF CloseWorker, Publish, fixed, iterator, processes,
      lines
<1>15. ASSUME PutResult PROVE [LD!Next]_LD!vars
  BY <1>15 DEF PutResult, HasRoom, Result, coLeaves, fixed,
      iterator,
       processes
<1>16. ASSUME Absorb PROVE [LD!Next]_LD!vars
  BY <1>16 DEF Absorb, Settled, fixed, coordinator, processes,
      lines
<1>17. ASSUME Drain PROVE [LD!Next]_LD!vars
  BY <1>17 DEF Drain, Settled, fixed, coordinator, processes,
      lines
<1>18. ASSUME CloseDelivery PROVE [LD!Next]_LD!vars
  BY <1>18 DEF CloseDelivery, Settled, fixed, coordinator, processes,
      lines
<1>19. ASSUME CloseSink PROVE [LD!Next]_LD!vars
  BY <1>19 DEF CloseSink, Outcome, Settled, fixed, coordinator,
      processes,
       lines
<1>20. ASSUME FirstPull PROVE [LD!Next]_LD!vars
  BY <1>20 DEF FirstPull, fixed, processes, lines
<1>21. ASSUME StartFails PROVE [LD!Next]_LD!vars
  <2>1. /\ it \notin Closing /\ it' \in Closing /\ ~ result /\ ~ result'
        /\ UNCHANGED << out, seen >>
    BY <1>21 DEF StartFails, Bracket, Opened, Closing, Settling, processes,
         lines
  <2> QED
    BY <2>1 DEF LD!Next, LD!Cut, Closing
<1>22. ASSUME Pull PROVE [LD!Next]_LD!vars
  BY <1>22 DEF Pull, fixed, coordinator, processes, lines,
      resources
<1>23. ASSUME TakeFailure PROVE [LD!Next]_LD!vars
  <2>1. /\ it \notin Closing /\ it' \in Closing /\ ~ result /\ ~ result'
        /\ UNCHANGED << out, seen >>
    BY <1>23 DEF TakeFailure, Bracket, Opened, Closing, Settling, EndBody,
         lines, processes
  <2> QED
    BY <2>1 DEF LD!Next, LD!Cut, Closing
<1>24. ASSUME TakeLine PROVE [LD!Next]_LD!vars
  <2>1. PICK n \in Nat : n = Len(queue) /\ n # 0
    <3>1. Len(queue) \in Nat /\ Len(queue) # 0
      BY <1>24 DEF Tables, TakeLine
    <3> QED
      BY <3>1
  <2>2. queue[1] \in Items /\ queue[1].kind = "line" /\ Head(queue) = queue[1]
        /\ 1 \in DOMAIN queue
    BY <1>24, <2>1 DEF Tables, TakeLine
  <2>3. PICK s \in Streams : queue[1].stream = s /\ IsLine(1, s)
    BY <2>2 DEF Items, IsLine
  <2>4. InOrder(s) /\ AtEnd(s) /\ Len(seen[s]) \in Nat
        /\ taken[s] \in Nat /\ out[s] \in Nat
    BY DEF Order, Ends, Tables
  <2>5. /\ queue[1].number = Len(seen[s]) + 1
        /\ queue[1].number <= taken[s]
    BY <2>2, <2>3, <2>4 DEF InOrder
  <2>6. Len(seen[s]) < out[s]
    BY <2>4, <2>5 DEF AtEnd
  <2>7. seen' = [seen EXCEPT ![s] = Append(@, Len(@) + 1)]
    BY <1>24, <2>2, <2>3, <2>5 DEF TakeLine
  <2>8. /\ ~ result /\ ~ result' /\ it \notin Closing /\ it' \notin Closing
        /\ out' = out
    BY <1>24 DEF TakeLine, Bracket, Opened, Closing, Settling, processes
  <2> QED
    BY <2>6, <2>7, <2>8 DEF LD!Next, LD!Deliver, Closing
<1>25. ASSUME TakeResult PROVE [LD!Next]_LD!vars
  <2>1. /\ it \notin Closing /\ it' \in Closing /\ ~ result
        /\ UNCHANGED << out, seen >>
    BY <1>25 DEF TakeResult, EndBody, Bracket, Opened, Closing, Settling,
         processes
  <2>2. \A s \in Streams : Len(seen[s]) = out[s]
    <3>1. /\ future = "result"
          /\ \A s \in Streams : ~ settling => taken[s] = Len(seen[s])
      BY <1>25, OrderTakeResult
    <3> QED
      BY <3>1 DEF Ends, Collected, AtEnd
  <2>3. CASE result'
    BY <2>1, <2>2, <2>3 DEF LD!Next, LD!Complete, Closing
  <2>4. CASE ~ result'
    BY <2>1, <2>4 DEF LD!Next, LD!Cut, Closing
  <2> QED
    BY <2>3, <2>4
<1>26. ASSUME CloseUnused PROVE [LD!Next]_LD!vars
  <2>1. /\ it \notin Closing /\ it' \in Closing /\ ~ result /\ ~ result'
        /\ UNCHANGED << out, seen >>
    BY <1>26 DEF CloseUnused, Bracket, Opened, Closing, Settling, processes,
         lines
  <2> QED
    BY <2>1 DEF LD!Next, LD!Cut, Closing
<1>27. ASSUME Leave PROVE [LD!Next]_LD!vars
  <2>1. future = "pending" => co \notin Ended
    BY <1>27 DEF Leave, Bracket, Unpublished, Ended
  <2>2. out' = out
    BY <1>27, <2>1 DEF Leave, CancelCoordinator, processes, Ended, Values,
         CoAwaits, CoShielded
  <2>3. /\ it \notin Closing /\ it' \in Closing /\ ~ result /\ ~ result'
        /\ UNCHANGED seen
    BY <1>27 DEF Leave, Bracket, Opened, Closing, Settling, lines
  <2> QED
    BY <2>2, <2>3 DEF LD!Next, LD!Cut, Closing
<1>28. ASSUME CancelSettlement PROVE [LD!Next]_LD!vars
  BY <1>28 DEF CancelSettlement, fixed, coordinator, processes, lines,
       resources
<1>29. ASSUME ChildExits PROVE [LD!Next]_LD!vars
  BY <1>29 DEF ChildExits, fixed, iterator, coordinator, lines,
      resources
<1>30. ASSUME DescendantExits PROVE [LD!Next]_LD!vars
  BY <1>30 DEF DescendantExits, fixed, iterator, coordinator, lines,
      resources
<1>31. ASSUME TimePasses PROVE [LD!Next]_LD!vars
  BY <1>31 DEF TimePasses, fixed, iterator, coordinator, processes,
      lines,
       resources
<1>32. ASSUME NEW s \in Streams, ChildWrites(s) PROVE [LD!Next]_LD!vars
  <2>1. ~ result
    BY <1>32 DEF ChildWrites, Ends, Collected, AtEnd
  <2> QED
    BY <1>32, <2>1 DEF ChildWrites, LD!Next, LD!Write, iterator, lines
<1>33. ASSUME NEW s \in Streams, ReadLine(s) PROVE [LD!Next]_LD!vars
  BY <1>33 DEF ReadLine, HasRoom, NextLine, Line, fixed,
      iterator,
       coordinator, processes, resources
<1>34. ASSUME NEW s \in Streams, PutLine(s) PROVE [LD!Next]_LD!vars
  BY <1>34 DEF PutLine, HasRoom, NextLine, Line, fixed,
      iterator, coordinator,
       processes, resources
<1>35. ASSUME NEW s \in Streams, ReaderEnds(s) PROVE [LD!Next]_LD!vars
  BY <1>35 DEF ReaderEnds, fixed, iterator, coordinator, processes,
      resources
<1>36. ASSUME NEW s \in Streams, ReaderFails(s) PROVE [LD!Next]_LD!vars
  BY <1>36 DEF ReaderFails, fixed, iterator, coordinator, processes,
      resources
<1>37. ASSUME UNCHANGED lineVars PROVE [LD!Next]_LD!vars
  BY <1>37 DEF lineVars, fixed, iterator, coordinator, processes,
      lines, resources
<1> QED
  BY <1>1, <1>2, <1>3, <1>4, <1>5, <1>6, <1>7, <1>8, <1>9, <1>10, <1>11,
       <1>12, <1>13, <1>14, <1>15, <1>16, <1>17, <1>18, <1>19, <1>20, <1>21,
       <1>22, <1>23, <1>24, <1>25, <1>26, <1>27, <1>28, <1>29, <1>30, <1>31,
       <1>32, <1>33, <1>34, <1>35, <1>36, <1>37 DEF LineNext, CoSteps,
       SettleSteps, Consumer, Environment, ReaderSteps

\* The lines the consumer sees, the lines the child writes and the end of the
\* iteration behave as LineDelivery allows, whatever stands between them.
THEOREM DeliveryRefined == LineSpec => ImplementsLineDelivery
<1>1. LineInit => LD!Init
  BY DEF LineInit, LD!Init, Settling
<1> QED
  BY <1>1, DeliveryStep, LineInvariance, PTL DEF LineSpec, ImplementsLineDelivery,
     LD!Spec
=============================================================================
