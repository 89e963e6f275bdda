--------------------------- MODULE CommandProofs ----------------------------
(***************************************************************************)
(* Safety of a command's run (CommandRun) and of a batch of them           *)
(* (ConcurrentRun, with the scoped policy its commands are launched under). *)
(*                                                                         *)
(* The command, for any number of cancellations: type correctness, that it *)
(* leaves nothing of its own behind, and that its outcome says what        *)
(* happened.  Its properties speak of the end of the run only.  The        *)
(* invariant says for every await what holds there: Placed, which awaits a *)
(* mode and a source can reach and how far the exit wait is; ExitInv, what *)
(* the exit wait's state tells about the child and the deadline; Settled,  *)
(* which of the writer, the readers and the sinks are done with; and       *)
(* Blamed, what an error on its way out, or its absence, is owed to.       *)
(*                                                                         *)
(* A batch of any size, under any limit: what it holds and what it reports *)
(* (BatchAccounted); and the policy of its caller and of its commands      *)
(* (PolicyOfOpenBlocks), for every set of programs, keys, scopes and       *)
(* registrations.  The library's induction principles take an operator,    *)
(* which the provers cannot instantiate.  Induct is the principle for a    *)
(* set of numbers, from the well-foundedness of < ; with it the loops of   *)
(* Collect and FlattenSeq are shown to be defined and to compute what they *)
(* should.                                                                 *)
(***************************************************************************)
EXTENDS CommandRun, ConcurrentRun, TLAPS, FiniteSetTheorems, SequenceTheorems,
        WellFoundedInduction

-----------------------------------------------------------------------------
(* The command. *)

\* The awaits of the streamed and of the direct run after the exit wait.
StreamedAwaits == {"writer", "gather", "finalize", "settle_group",
                   "recon_writer", "recon_readers"}
DirectAwaits == {"direct_writer", "clean_writer", "clean_group"}

\* The awaits before the exit wait has come to its end.
ExitAwaits == {"race", "wait", "stop_exit"}

\* The awaits of a run that has not failed, and of one that has.
Unfailed == {"spawn", "start", "race", "wait", "writer", "gather",
               "finalize", "direct_writer"}
CommandFailing == {"stop_exit", "settle_group", "recon_writer", "recon_readers",
              "clean_writer", "clean_group"}

Placed ==
    /\ pc \in {"spawn", "start"} => ~started
    /\ ~started => pc \in {"spawn", "start", "done"}
    /\ pc = "start" => child = "running"
    /\ pc \in StreamedAwaits => mode = "streamed"
    /\ pc \in DirectAwaits => mode = "direct"
    /\ source = "none" => writer = "none"
    /\ started /\ pc \notin ExitAwaits => exitw \in ExitDone
    /\ pc \in {"writer", "gather", "finalize", "direct_writer"} =>
          exitw = "exited"

\* Only the stop of the exit wait ends a child that the run still waits for.
ExitInv ==
    /\ ~started <=> exitw = "none"
    /\ exitw \in {"waiting", "expiring", "cancelling"} =>
          child \in {"running", "exited"}
    /\ exitw = "exited" => child = "exited"
    /\ exitw \in ExitDone => child # "running"
    /\ exitw \in {"expiring", "timeout"} => deadline \in {"passed", "elapsed"}
    /\ pc \in {"race", "wait"} /\ exitw \in {"cancelling", "cancelled"} =>
          cancels < MaxCancels

\* Only an obstinate producer keeps its writer.
WriterReleased == writer = "writing" => obstinate
ReadersDone == \A s \in Streams : reader[s] # "reading"

Settled ==
    /\ ~started => ReadersDone /\ ~sinks /\ beat # "on" /\ writer = "none"
    /\ mode = "direct" => ReadersDone /\ ~sinks
    /\ pc \in {"gather", "finalize", "recon_readers", "clean_group",
               "idle_final", "done"} => WriterReleased
    /\ pc = "finalize" => \A s \in Streams : reader[s] = "eof"
    /\ pc \in {"idle_final", "done"} => ReadersDone /\ ~sinks
    /\ pc = "done" => beat # "on"

\* The writer did not fail before the run asked for it.
WriterTrusted == writer \in WriterFailures \cup {"writing"} => asked

Blamed ==
    /\ pc \in Unfailed => err = "none"
    /\ pc \in CommandFailing => err # "none"
    /\ pc \in {"gather", "finalize"} => WriterTrusted
    /\ pc \in {"idle_final", "done"} /\ err = "none" =>
          /\ exitw = "exited"
          /\ WriterTrusted
          /\ mode = "streamed" => \A s \in Streams : reader[s] = "eof"
    /\ err = "expired" =>
          deadline \in {"passed", "elapsed"} \/ writer = "timedout"
    /\ interrupted \/ err = "cancelled" => cancels < MaxCancels
    /\ err = "error" => \/ ~started
                        \/ writer \in WriterFailures
                        \/ \E s \in Streams : reader[s] = "failed"

CommandIInv == CommandType /\ Placed /\ ExitInv /\ Settled /\ Blamed

\* Every step keeps the types.
LEMMA TypeStep == CommandType /\ [CommandNext]_commandVars => CommandType'
<1> SUFFICES ASSUME CommandType, [CommandNext]_commandVars PROVE CommandType'
  OBVIOUS
<1> USE CommandAssumption DEF CommandType, Awaits, ShieldedAwaits,
     Errors, ExitDone,
    WriterFailures, WriterDone, Streams
<1>1. ASSUME Spawn PROVE CommandType'
  BY <1>1 DEF Spawn, fixed, waiting, tasks
<1>2. ASSUME SpawnFails PROVE CommandType'
  BY <1>2 DEF SpawnFails, fixed, waiting, tasks
<1>3. ASSUME StartHookFails PROVE CommandType'
  BY <1>3 DEF StartHookFails, fixed, processes, waiting,
       tasks
<1>4. ASSUME Start PROVE CommandType'
  BY <1>4 DEF Start, fixed, processes, waiting
<1>5. ASSUME ExitSeen PROVE CommandType'
  BY <1>5 DEF ExitSeen, fixed, control, processes,
       waiting, tasks
<1>6. ASSUME ExitExpires PROVE CommandType'
  BY <1>6 DEF ExitExpires, fixed, control, processes,
       waiting, tasks
<1>7. ASSUME ExitStopped PROVE CommandType'
  <2>1. /\ child' \in {"none", "running", "exited", "killed"}
        /\ desc' \in {"none", "quiet", "holding"}
    BY <1>7 DEF ExitStopped, Stop
  <2>2. /\ exitw' \in {"timeout", "cancelled"}
        /\ expiryReported' \in BOOLEAN
    BY <1>7 DEF ExitStopped
  <2>3. UNCHANGED << fixed, deadline, control, started, tasks >>
    BY <1>7 DEF ExitStopped
  <2> QED
    BY <2>1, <2>2, <2>3 DEF fixed, control, tasks
<1>8. ASSUME WriterFirst PROVE CommandType'
  BY <1>8 DEF WriterFirst, AsExpiry, CancelledExit, fixed,
       processes, tasks
<1>9. ASSUME ExitFirst PROVE CommandType'
  <2>1. /\ pc' \in Awaits /\ err' \in Errors \cup {"none"}
        /\ beat' \in {"off", "armed", "on", "stopped"}
    BY <1>9 DEF ExitFirst, StopIdle, OnWaitFailure
  <2> QED
    BY <1>9, <2>1 DEF ExitFirst, fixed, processes, waiting
<1>10. ASSUME ExitWaitStopped PROVE CommandType'
  <2>1. err' \in Errors \cup {"none"}
    BY <1>10 DEF ExitWaitStopped, Raised
  <2>2. pc' \in Awaits
    BY <1>10 DEF ExitWaitStopped, OnWaitFailure
  <2>3. /\ interrupted' \in BOOLEAN
        /\ UNCHANGED << fixed, deadline, cancels, started, processes, waiting,
                        tasks >>
    BY <1>10 DEF ExitWaitStopped
  <2> QED
    BY <2>1, <2>2, <2>3 DEF fixed, processes, waiting, tasks
<1>11. ASSUME WriterSettles PROVE CommandType'
  <2>1. /\ writer' \in WriterDone \cup {"none", "writing"}
        /\ asked' \in BOOLEAN
    BY <1>11 DEF WriterSettles, CancelWriter
  <2>2. pc' \in Awaits /\ err' \in Errors \cup {"none"}
    BY <1>11 DEF WriterSettles, Fail
  <2>3. UNCHANGED << fixed, deadline, interrupted, cancels, started, processes,
                     waiting, reader, sinks, beat >>
    BY <1>11 DEF WriterSettles
  <2> QED
    BY <2>1, <2>2, <2>3 DEF fixed, processes, waiting
<1>12. ASSUME CollectionExpires PROVE CommandType'
  BY <1>12 DEF CollectionExpires, CutReaders, Fail, fixed,
       processes, waiting
<1>13. ASSUME Gather PROVE CommandType'
  BY <1>13 DEF Gather, Fail, fixed, processes, waiting,
       tasks
<1>14. ASSUME Finalize PROVE CommandType'
  <2>1. err' \in Errors \cup {"none"}
    BY <1>14 DEF Finalize, Raised
  <2>2. pc' \in Awaits /\ sinks' \in BOOLEAN
    BY <1>14 DEF Finalize
  <2>3. /\ interrupted' \in BOOLEAN
        /\ UNCHANGED << fixed, deadline, cancels, started, processes, waiting,
                        writer, asked, reader, beat >>
    BY <1>14 DEF Finalize
  <2> QED
    BY <2>1, <2>2, <2>3 DEF fixed, processes, waiting
<1>15. ASSUME GroupSettled PROVE CommandType'
  BY <1>15 DEF GroupSettled, Stop, SettleGroup, fixed,
       processes, waiting,
       tasks
<1>16. ASSUME ReconcileWriter PROVE CommandType'
  BY <1>16 DEF ReconcileWriter, CancelWriter, StopIdle, fixed,
       processes,
       waiting
<1>17. ASSUME ReconcileReaders PROVE CommandType'
  <2>1. err' \in Errors \cup {"none"}
    BY <1>17 DEF ReconcileReaders, Raised
  <2>2. /\ pc' \in Awaits /\ sinks' \in BOOLEAN
        /\ reader' \in [Streams -> {"none", "reading", "eof", "failed", "cut"}]
    BY <1>17 DEF ReconcileReaders, CutReaders
  <2>3. /\ interrupted' \in BOOLEAN
        /\ UNCHANGED << fixed, deadline, cancels, started, processes, waiting,
                        writer, asked, beat >>
    BY <1>17 DEF ReconcileReaders
  <2> QED
    BY <2>1, <2>2, <2>3 DEF fixed, processes, waiting
<1>18. ASSUME DirectWriterSettles PROVE CommandType'
  <2>1. /\ writer' \in WriterDone \cup {"none", "writing"}
        /\ asked' \in BOOLEAN
    BY <1>18 DEF DirectWriterSettles, CancelWriter
  <2>2. pc' \in Awaits /\ err' \in Errors \cup {"none"}
    BY <1>18 DEF DirectWriterSettles, DirectFail, AsExpiry
  <2>3. /\ interrupted' \in BOOLEAN
        /\ UNCHANGED << fixed, deadline, cancels, started, processes, waiting,
                        reader, sinks, beat >>
    BY <1>18 DEF DirectWriterSettles
  <2> QED
    BY <2>1, <2>2, <2>3 DEF fixed, processes, waiting
<1>19. ASSUME DirectWriterExpires PROVE CommandType'
  BY <1>19 DEF DirectWriterExpires, DirectFail, fixed,
       processes, tasks
<1>20. ASSUME CleanWriter PROVE CommandType'
  BY <1>20 DEF CleanWriter, CancelWriter, fixed, processes,
       waiting
<1>21. ASSUME CleanGroup PROVE CommandType'
  <2>1. err' \in Errors \cup {"none"}
    BY <1>21 DEF CleanGroup, Raised
  <2>2. /\ pc' \in Awaits
        /\ child' \in {"none", "running", "exited", "killed"}
        /\ desc' \in {"none", "quiet", "holding"}
    BY <1>21 DEF CleanGroup, SettleGroup, Stop, processes
  <2>3. /\ interrupted' \in BOOLEAN
        /\ UNCHANGED << fixed, deadline, cancels, started, waiting, tasks >>
    BY <1>21 DEF CleanGroup
  <2> QED
    BY <2>1, <2>2, <2>3 DEF fixed, waiting, tasks
<1>22. ASSUME IdleFinal PROVE CommandType'
  <2>1. err' \in Errors \cup {"none"}
    BY <1>22 DEF IdleFinal, Raised
  <2>2. pc' \in Awaits /\ beat' \in {"off", "armed", "on", "stopped"}
    BY <1>22 DEF IdleFinal, StopIdle
  <2>3. /\ interrupted' \in BOOLEAN
        /\ UNCHANGED << fixed, deadline, cancels, started, processes, waiting,
                        writer, asked, reader, sinks >>
    BY <1>22 DEF IdleFinal
  <2> QED
    BY <2>1, <2>2, <2>3 DEF fixed, processes, waiting
<1>23. ASSUME TimePasses PROVE CommandType'
  BY <1>23 DEF TimePasses, fixed, control, processes,
       waiting, tasks
<1>24. ASSUME ChildExits PROVE CommandType'
  BY <1>24 DEF ChildExits, fixed, control, waiting,
       tasks
<1>25. ASSUME ChildForks PROVE CommandType'
  BY <1>25 DEF ChildForks, fixed, control, waiting,
       tasks
<1>26. ASSUME DescendantExits PROVE CommandType'
  BY <1>26 DEF DescendantExits, fixed, control, waiting,
       tasks
<1>27. ASSUME WriterFinishes PROVE CommandType'
  BY <1>27 DEF WriterFinishes, fixed, control, processes,
       waiting
<1>28. ASSUME WriterFails PROVE CommandType'
  BY <1>28 DEF WriterFails, fixed, control, processes,
       waiting
<1>29. ASSUME CancelRace PROVE CommandType'
  BY <1>29 DEF CancelRace, OnWaitFailure, CancelledExit,
       SpendCancel, fixed,
       processes, tasks
<1>30. ASSUME CancelWait PROVE CommandType'
  BY <1>30 DEF CancelWait, OnWaitFailure, SpendCancel, fixed,
       processes, tasks
<1>31. ASSUME CancelCollection PROVE CommandType'
  BY <1>31 DEF CancelCollection, CutReaders, Fail, SpendCancel,
       fixed,
       processes, waiting
<1>32. ASSUME CancelDirectWriter PROVE CommandType'
  <2>1. /\ pc' \in Awaits /\ err' \in Errors \cup {"none"}
        /\ interrupted' \in BOOLEAN
    BY <1>32 DEF CancelDirectWriter, DirectFail
  <2>2. cancels' \in 0..MaxCancels
    BY <1>32 DEF CancelDirectWriter, SpendCancel
  <2>3. UNCHANGED << fixed, deadline, started, processes, waiting, tasks >>
    BY <1>32 DEF CancelDirectWriter
  <2> QED
    BY <2>1, <2>2, <2>3 DEF fixed, processes, waiting, tasks
<1>33. ASSUME CancelShielded PROVE CommandType'
  BY <1>33 DEF CancelShielded, SpendCancel, fixed, processes,
       waiting, tasks
<1>34. ASSUME NEW s \in Streams, ReaderEnds(s) PROVE CommandType'
  BY <1>34 DEF ReaderEnds, fixed, control, processes,
       waiting
<1>35. ASSUME NEW s \in Streams, ReaderFails(s) PROVE CommandType'
  BY <1>35 DEF ReaderFails, fixed, control, processes,
       waiting
<1>36. ASSUME UNCHANGED commandVars PROVE CommandType'
  BY <1>36 DEF commandVars, fixed, control, processes,
       waiting, tasks
<1> QED
  BY <1>1, <1>2, <1>3, <1>4, <1>5, <1>6, <1>7, <1>8, <1>9, <1>10, <1>11,
       <1>12, <1>13, <1>14, <1>15, <1>16, <1>17, <1>18, <1>19, <1>20, <1>21,
       <1>22, <1>23, <1>24, <1>25, <1>26, <1>27, <1>28, <1>29, <1>30, <1>31,
       <1>32, <1>33, <1>34, <1>35, <1>36
  DEF CommandNext, RunSteps, ExitWait, Environment, Cancellations

\* Every step leads to an await its mode, its source and the exit wait allow.
LEMMA PlacedStep == CommandIInv /\ [CommandNext]_commandVars => Placed'
<1> SUFFICES ASSUME CommandIInv, [CommandNext]_commandVars PROVE Placed'
  OBVIOUS
<1> USE DEF CommandIInv, CommandType, Placed, ExitInv, StreamedAwaits, DirectAwaits,
    ExitAwaits, ExitDone
<1>1. ASSUME Spawn PROVE Placed'
  BY <1>1 DEF Spawn, fixed, waiting, tasks
<1>2. ASSUME SpawnFails PROVE Placed'
  BY <1>2 DEF SpawnFails, fixed, waiting, tasks
<1>3. ASSUME StartHookFails PROVE Placed'
  BY <1>3 DEF StartHookFails, fixed, processes, waiting,
       tasks
<1>4. ASSUME Start PROVE Placed'
  BY <1>4 DEF Start, fixed, processes, waiting
<1>5. ASSUME ExitSeen PROVE Placed'
  BY <1>5 DEF ExitSeen, fixed, control, processes,
       waiting, tasks
<1>6. ASSUME ExitExpires PROVE Placed'
  BY <1>6 DEF ExitExpires, fixed, control, processes,
       waiting, tasks
<1>7. ASSUME ExitStopped PROVE Placed'
  BY <1>7 DEF ExitStopped, Stop, fixed, control, tasks
<1>8. ASSUME WriterFirst PROVE Placed'
  BY <1>8 DEF WriterFirst, AsExpiry, CancelledExit, fixed,
       processes, tasks
<1>9. ASSUME ExitFirst PROVE Placed'
  BY <1>9 DEF ExitFirst, StopIdle, OnWaitFailure, fixed,
       processes, waiting
<1>10. ASSUME ExitWaitStopped PROVE Placed'
  BY <1>10 DEF ExitWaitStopped, Raised, OnWaitFailure, fixed,
       processes,
       waiting, tasks
<1>11. ASSUME WriterSettles PROVE Placed'
  BY <1>11 DEF WriterSettles, CancelWriter, Fail, fixed,
       processes, waiting
<1>12. ASSUME CollectionExpires PROVE Placed'
  BY <1>12 DEF CollectionExpires, CutReaders, Fail, fixed,
       processes, waiting
<1>13. ASSUME Gather PROVE Placed'
  BY <1>13 DEF Gather, Fail, fixed, processes, waiting,
       tasks
<1>14. ASSUME Finalize PROVE Placed'
  BY <1>14 DEF Finalize, Raised, fixed, processes,
       waiting
<1>15. ASSUME GroupSettled PROVE Placed'
  BY <1>15 DEF GroupSettled, Stop, SettleGroup, fixed,
       processes, waiting,
       tasks
<1>16. ASSUME ReconcileWriter PROVE Placed'
  BY <1>16 DEF ReconcileWriter, CancelWriter, StopIdle, fixed,
       processes,
       waiting
<1>17. ASSUME ReconcileReaders PROVE Placed'
  BY <1>17 DEF ReconcileReaders, CutReaders, Raised, fixed,
       processes, waiting
<1>18. ASSUME DirectWriterSettles PROVE Placed'
  BY <1>18 DEF DirectWriterSettles, CancelWriter, AsExpiry,
       DirectFail, fixed,
       processes, waiting
<1>19. ASSUME DirectWriterExpires PROVE Placed'
  BY <1>19 DEF DirectWriterExpires, DirectFail, fixed,
       processes, tasks
<1>20. ASSUME CleanWriter PROVE Placed'
  BY <1>20 DEF CleanWriter, CancelWriter, fixed, processes,
       waiting
<1>21. ASSUME CleanGroup PROVE Placed'
  BY <1>21 DEF CleanGroup, Stop, SettleGroup, Raised,
       fixed, processes,
       waiting, tasks
<1>22. ASSUME IdleFinal PROVE Placed'
  BY <1>22 DEF IdleFinal, StopIdle, Raised, fixed,
       processes, waiting
<1>23. ASSUME TimePasses PROVE Placed'
  BY <1>23 DEF TimePasses, fixed, control, processes,
       waiting, tasks
<1>24. ASSUME ChildExits PROVE Placed'
  BY <1>24 DEF ChildExits, fixed, control, waiting,
       tasks
<1>25. ASSUME ChildForks PROVE Placed'
  BY <1>25 DEF ChildForks, fixed, control, waiting,
       tasks
<1>26. ASSUME DescendantExits PROVE Placed'
  BY <1>26 DEF DescendantExits, fixed, control, waiting,
       tasks
<1>27. ASSUME WriterFinishes PROVE Placed'
  BY <1>27 DEF WriterFinishes, fixed, control, processes,
       waiting
<1>28. ASSUME WriterFails PROVE Placed'
  BY <1>28 DEF WriterFails, fixed, control, processes,
       waiting
<1>29. ASSUME CancelRace PROVE Placed'
  BY <1>29 DEF CancelRace, OnWaitFailure, CancelledExit,
       SpendCancel, fixed,
       processes, tasks
<1>30. ASSUME CancelWait PROVE Placed'
  BY <1>30 DEF CancelWait, OnWaitFailure, SpendCancel, fixed,
       processes, tasks
<1>31. ASSUME CancelCollection PROVE Placed'
  BY <1>31 DEF CancelCollection, CutReaders, Fail, SpendCancel,
       fixed,
       processes, waiting
<1>32. ASSUME CancelDirectWriter PROVE Placed'
  BY <1>32 DEF CancelDirectWriter, DirectFail, SpendCancel,
       fixed, processes,
       waiting, tasks
<1>33. ASSUME CancelShielded PROVE Placed'
  BY <1>33 DEF CancelShielded, SpendCancel, fixed, processes,
       waiting, tasks
<1>34. ASSUME NEW s \in Streams, ReaderEnds(s) PROVE Placed'
  BY <1>34 DEF ReaderEnds, fixed, control, processes,
       waiting
<1>35. ASSUME NEW s \in Streams, ReaderFails(s) PROVE Placed'
  BY <1>35 DEF ReaderFails, fixed, control, processes,
       waiting
<1>36. ASSUME UNCHANGED commandVars PROVE Placed'
  BY <1>36 DEF commandVars, fixed, control, processes,
       waiting, tasks
<1> QED
  BY <1>1, <1>2, <1>3, <1>4, <1>5, <1>6, <1>7, <1>8, <1>9, <1>10, <1>11,
       <1>12, <1>13, <1>14, <1>15, <1>16, <1>17, <1>18, <1>19, <1>20, <1>21,
       <1>22, <1>23, <1>24, <1>25, <1>26, <1>27, <1>28, <1>29, <1>30, <1>31,
       <1>32, <1>33, <1>34, <1>35, <1>36
  DEF CommandNext, RunSteps, ExitWait, Environment, Cancellations

\* Every step keeps what the exit wait tells about the child, the deadline and
\* the caller.
LEMMA CommandExitStep == CommandIInv /\ [CommandNext]_commandVars => ExitInv'
<1> SUFFICES ASSUME CommandIInv, [CommandNext]_commandVars PROVE ExitInv'
  OBVIOUS
<1> USE CommandAssumption DEF CommandIInv, CommandType, Placed, ExitInv, StreamedAwaits,
    DirectAwaits, ExitAwaits, ExitDone
<1>1. ASSUME Spawn PROVE ExitInv'
  BY <1>1 DEF Spawn, fixed, waiting, tasks
<1>2. ASSUME SpawnFails PROVE ExitInv'
  BY <1>2 DEF SpawnFails, fixed, waiting, tasks
<1>3. ASSUME StartHookFails PROVE ExitInv'
  BY <1>3 DEF StartHookFails, fixed, processes, waiting,
       tasks
<1>4. ASSUME Start PROVE ExitInv'
  BY <1>4 DEF Start, fixed, processes, waiting
<1>5. ASSUME ExitSeen PROVE ExitInv'
  BY <1>5 DEF ExitSeen, fixed, control, processes,
       waiting, tasks
<1>6. ASSUME ExitExpires PROVE ExitInv'
  BY <1>6 DEF ExitExpires, fixed, control, processes,
       waiting, tasks
<1>7. ASSUME ExitStopped PROVE ExitInv'
  BY <1>7 DEF ExitStopped, Stop, fixed, control, tasks
<1>8. ASSUME WriterFirst PROVE ExitInv'
  BY <1>8 DEF WriterFirst, AsExpiry, CancelledExit, fixed,
       processes, tasks
<1>9. ASSUME ExitFirst PROVE ExitInv'
  BY <1>9 DEF ExitFirst, StopIdle, OnWaitFailure, fixed,
       processes, waiting
<1>10. ASSUME ExitWaitStopped PROVE ExitInv'
  BY <1>10 DEF ExitWaitStopped, Raised, OnWaitFailure, fixed,
       processes,
       waiting, tasks
<1>11. ASSUME WriterSettles PROVE ExitInv'
  BY <1>11 DEF WriterSettles, CancelWriter, Fail, fixed,
       processes, waiting
<1>12. ASSUME CollectionExpires PROVE ExitInv'
  BY <1>12 DEF CollectionExpires, CutReaders, Fail, fixed,
       processes, waiting
<1>13. ASSUME Gather PROVE ExitInv'
  BY <1>13 DEF Gather, Fail, fixed, processes, waiting,
       tasks
<1>14. ASSUME Finalize PROVE ExitInv'
  BY <1>14 DEF Finalize, Raised, fixed, processes,
       waiting
<1>15. ASSUME GroupSettled PROVE ExitInv'
  BY <1>15 DEF GroupSettled, Stop, SettleGroup, fixed,
       processes, waiting,
       tasks
<1>16. ASSUME ReconcileWriter PROVE ExitInv'
  BY <1>16 DEF ReconcileWriter, CancelWriter, StopIdle, fixed,
       processes,
       waiting
<1>17. ASSUME ReconcileReaders PROVE ExitInv'
  BY <1>17 DEF ReconcileReaders, CutReaders, Raised, fixed,
       processes, waiting
<1>18. ASSUME DirectWriterSettles PROVE ExitInv'
  BY <1>18 DEF DirectWriterSettles, CancelWriter, AsExpiry,
       DirectFail, fixed,
       processes, waiting
<1>19. ASSUME DirectWriterExpires PROVE ExitInv'
  BY <1>19 DEF DirectWriterExpires, DirectFail, fixed,
       processes, tasks
<1>20. ASSUME CleanWriter PROVE ExitInv'
  BY <1>20 DEF CleanWriter, CancelWriter, fixed, processes,
       waiting
<1>21. ASSUME CleanGroup PROVE ExitInv'
  BY <1>21 DEF CleanGroup, Stop, SettleGroup, Raised,
       fixed, processes,
       waiting, tasks
<1>22. ASSUME IdleFinal PROVE ExitInv'
  BY <1>22 DEF IdleFinal, StopIdle, Raised, fixed,
       processes, waiting
<1>23. ASSUME TimePasses PROVE ExitInv'
  BY <1>23 DEF TimePasses, fixed, control, processes,
       waiting, tasks
<1>24. ASSUME ChildExits PROVE ExitInv'
  BY <1>24 DEF ChildExits, fixed, control, waiting,
       tasks
<1>25. ASSUME ChildForks PROVE ExitInv'
  BY <1>25 DEF ChildForks, fixed, control, waiting,
       tasks
<1>26. ASSUME DescendantExits PROVE ExitInv'
  BY <1>26 DEF DescendantExits, fixed, control, waiting,
       tasks
<1>27. ASSUME WriterFinishes PROVE ExitInv'
  BY <1>27 DEF WriterFinishes, fixed, control, processes,
       waiting
<1>28. ASSUME WriterFails PROVE ExitInv'
  BY <1>28 DEF WriterFails, fixed, control, processes,
       waiting
<1>29. ASSUME CancelRace PROVE ExitInv'
  BY <1>29 DEF CancelRace, OnWaitFailure, CancelledExit,
       SpendCancel, fixed,
       processes, tasks
<1>30. ASSUME CancelWait PROVE ExitInv'
  BY <1>30 DEF CancelWait, OnWaitFailure, SpendCancel, fixed,
       processes, tasks
<1>31. ASSUME CancelCollection PROVE ExitInv'
  BY <1>31 DEF CancelCollection, CutReaders, Fail, SpendCancel,
       fixed,
       processes, waiting
<1>32. ASSUME CancelDirectWriter PROVE ExitInv'
  BY <1>32 DEF CancelDirectWriter, DirectFail, SpendCancel,
       fixed, processes,
       waiting, tasks
<1>33. ASSUME CancelShielded PROVE ExitInv'
  BY <1>33 DEF CancelShielded, SpendCancel, fixed, processes,
       waiting, tasks
<1>34. ASSUME NEW s \in Streams, ReaderEnds(s) PROVE ExitInv'
  BY <1>34 DEF ReaderEnds, fixed, control, processes,
       waiting
<1>35. ASSUME NEW s \in Streams, ReaderFails(s) PROVE ExitInv'
  BY <1>35 DEF ReaderFails, fixed, control, processes,
       waiting
<1>36. ASSUME UNCHANGED commandVars PROVE ExitInv'
  BY <1>36 DEF commandVars, fixed, control, processes,
       waiting, tasks
<1> QED
  BY <1>1, <1>2, <1>3, <1>4, <1>5, <1>6, <1>7, <1>8, <1>9, <1>10, <1>11,
       <1>12, <1>13, <1>14, <1>15, <1>16, <1>17, <1>18, <1>19, <1>20, <1>21,
       <1>22, <1>23, <1>24, <1>25, <1>26, <1>27, <1>28, <1>29, <1>30, <1>31,
       <1>32, <1>33, <1>34, <1>35, <1>36
  DEF CommandNext, RunSteps, ExitWait, Environment, Cancellations

\* Every step keeps what is done with at an await.
LEMMA SettledStep == CommandIInv /\ [CommandNext]_commandVars => Settled'
<1> SUFFICES ASSUME CommandIInv, [CommandNext]_commandVars PROVE Settled'
  OBVIOUS
<1> USE DEF CommandIInv, CommandType, Placed, Settled, WriterReleased, ReadersDone,
    StreamedAwaits, DirectAwaits, ShieldedAwaits, ExitDone
<1>1. ASSUME Spawn PROVE Settled'
  BY <1>1 DEF Spawn, fixed, waiting, tasks
<1>2. ASSUME SpawnFails PROVE Settled'
  BY <1>2 DEF SpawnFails, fixed, waiting, tasks
<1>3. ASSUME StartHookFails PROVE Settled'
  BY <1>3 DEF StartHookFails, fixed, processes, waiting,
       tasks
<1>4. ASSUME Start PROVE Settled'
  BY <1>4 DEF Start, fixed, processes, waiting
<1>5. ASSUME ExitSeen PROVE Settled'
  BY <1>5 DEF ExitSeen, fixed, control, processes,
       waiting, tasks
<1>6. ASSUME ExitExpires PROVE Settled'
  BY <1>6 DEF ExitExpires, fixed, control, processes,
       waiting, tasks
<1>7. ASSUME ExitStopped PROVE Settled'
  BY <1>7 DEF ExitStopped, Stop, fixed, control, tasks
<1>8. ASSUME WriterFirst PROVE Settled'
  BY <1>8 DEF WriterFirst, AsExpiry, CancelledExit, fixed,
       processes, tasks
<1>9. ASSUME ExitFirst PROVE Settled'
  BY <1>9 DEF ExitFirst, StopIdle, OnWaitFailure, fixed,
       processes, waiting
<1>10. ASSUME ExitWaitStopped PROVE Settled'
  BY <1>10 DEF ExitWaitStopped, Raised, OnWaitFailure, fixed,
       processes,
       waiting, tasks
<1>11. ASSUME WriterSettles PROVE Settled'
  BY <1>11 DEF WriterSettles, CancelWriter, Fail, fixed,
       processes, waiting
<1>12. ASSUME CollectionExpires PROVE Settled'
  BY <1>12 DEF CollectionExpires, CutReaders, Fail, fixed,
       processes, waiting
<1>13. ASSUME Gather PROVE Settled'
  BY <1>13 DEF Gather, Fail, fixed, processes, waiting,
       tasks
<1>14. ASSUME Finalize PROVE Settled'
  BY <1>14 DEF Finalize, Raised, fixed, processes,
       waiting
<1>15. ASSUME GroupSettled PROVE Settled'
  BY <1>15 DEF GroupSettled, Stop, SettleGroup, fixed,
       processes, waiting,
       tasks
<1>16. ASSUME ReconcileWriter PROVE Settled'
  BY <1>16 DEF ReconcileWriter, CancelWriter, StopIdle, fixed,
       processes,
       waiting
<1>17. ASSUME ReconcileReaders PROVE Settled'
  BY <1>17 DEF ReconcileReaders, CutReaders, Raised, fixed,
       processes, waiting
<1>18. ASSUME DirectWriterSettles PROVE Settled'
  BY <1>18 DEF DirectWriterSettles, CancelWriter, AsExpiry,
       DirectFail, fixed,
       processes, waiting
<1>19. ASSUME DirectWriterExpires PROVE Settled'
  BY <1>19 DEF DirectWriterExpires, DirectFail, fixed,
       processes, tasks
<1>20. ASSUME CleanWriter PROVE Settled'
  BY <1>20 DEF CleanWriter, CancelWriter, fixed, processes,
       waiting
<1>21. ASSUME CleanGroup PROVE Settled'
  BY <1>21 DEF CleanGroup, Stop, SettleGroup, Raised,
       fixed, processes,
       waiting, tasks
<1>22. ASSUME IdleFinal PROVE Settled'
  BY <1>22 DEF IdleFinal, StopIdle, Raised, fixed,
       processes, waiting
<1>23. ASSUME TimePasses PROVE Settled'
  BY <1>23 DEF TimePasses, fixed, control, processes,
       waiting, tasks
<1>24. ASSUME ChildExits PROVE Settled'
  BY <1>24 DEF ChildExits, fixed, control, waiting,
       tasks
<1>25. ASSUME ChildForks PROVE Settled'
  BY <1>25 DEF ChildForks, fixed, control, waiting,
       tasks
<1>26. ASSUME DescendantExits PROVE Settled'
  BY <1>26 DEF DescendantExits, fixed, control, waiting,
       tasks
<1>27. ASSUME WriterFinishes PROVE Settled'
  BY <1>27 DEF WriterFinishes, fixed, control, processes,
       waiting
<1>28. ASSUME WriterFails PROVE Settled'
  BY <1>28 DEF WriterFails, fixed, control, processes,
       waiting
<1>29. ASSUME CancelRace PROVE Settled'
  BY <1>29 DEF CancelRace, OnWaitFailure, CancelledExit,
       SpendCancel, fixed,
       processes, tasks
<1>30. ASSUME CancelWait PROVE Settled'
  BY <1>30 DEF CancelWait, OnWaitFailure, SpendCancel, fixed,
       processes, tasks
<1>31. ASSUME CancelCollection PROVE Settled'
  BY <1>31 DEF CancelCollection, CutReaders, Fail, SpendCancel,
       fixed,
       processes, waiting
<1>32. ASSUME CancelDirectWriter PROVE Settled'
  BY <1>32 DEF CancelDirectWriter, DirectFail, SpendCancel,
       fixed, processes,
       waiting, tasks
<1>33. ASSUME CancelShielded PROVE Settled'
  BY <1>33 DEF CancelShielded, SpendCancel, fixed, processes,
       waiting, tasks
<1>34. ASSUME NEW s \in Streams, ReaderEnds(s) PROVE Settled'
  BY <1>34 DEF ReaderEnds, fixed, control, processes,
       waiting
<1>35. ASSUME NEW s \in Streams, ReaderFails(s) PROVE Settled'
  BY <1>35 DEF ReaderFails, fixed, control, processes,
       waiting
<1>36. ASSUME UNCHANGED commandVars PROVE Settled'
  BY <1>36 DEF commandVars, fixed, control, processes,
       waiting, tasks
<1> QED
  BY <1>1, <1>2, <1>3, <1>4, <1>5, <1>6, <1>7, <1>8, <1>9, <1>10, <1>11,
       <1>12, <1>13, <1>14, <1>15, <1>16, <1>17, <1>18, <1>19, <1>20, <1>21,
       <1>22, <1>23, <1>24, <1>25, <1>26, <1>27, <1>28, <1>29, <1>30, <1>31,
       <1>32, <1>33, <1>34, <1>35, <1>36
  DEF CommandNext, RunSteps, ExitWait, Environment, Cancellations

\* Every step keeps what an error, or its absence, is owed to.
LEMMA BlamedStep == CommandIInv /\ [CommandNext]_commandVars => Blamed'
<1> SUFFICES ASSUME CommandIInv, [CommandNext]_commandVars PROVE Blamed'
  OBVIOUS
<1> USE CommandAssumption DEF CommandIInv, CommandType, Placed, ExitInv, Settled, Blamed,
    WriterTrusted, ExitDone, WriterFailures, WriterDone, Unfailed,
    CommandFailing,
    DirectAwaits, ShieldedAwaits
<1>1. ASSUME Spawn PROVE Blamed'
  BY <1>1 DEF Spawn, fixed, waiting, tasks
<1>2. ASSUME SpawnFails PROVE Blamed'
  BY <1>2 DEF SpawnFails, fixed, waiting, tasks
<1>3. ASSUME StartHookFails PROVE Blamed'
  BY <1>3 DEF StartHookFails, fixed, processes, waiting,
       tasks
<1>4. ASSUME Start PROVE Blamed'
  BY <1>4 DEF Start, fixed, processes, waiting
<1>5. ASSUME ExitSeen PROVE Blamed'
  BY <1>5 DEF ExitSeen, fixed, control, processes,
       waiting, tasks
<1>6. ASSUME ExitExpires PROVE Blamed'
  BY <1>6 DEF ExitExpires, fixed, control, processes,
       waiting, tasks
<1>7. ASSUME ExitStopped PROVE Blamed'
  BY <1>7 DEF ExitStopped, Stop, fixed, control, tasks
<1>8. ASSUME WriterFirst PROVE Blamed'
  BY <1>8 DEF WriterFirst, AsExpiry, CancelledExit, fixed,
       processes, tasks
<1>9. ASSUME ExitFirst PROVE Blamed'
  BY <1>9 DEF ExitFirst, StopIdle, OnWaitFailure, fixed,
       processes, waiting
<1>10. ASSUME ExitWaitStopped PROVE Blamed'
  BY <1>10 DEF ExitWaitStopped, Raised, OnWaitFailure, fixed,
       processes,
       waiting, tasks
<1>11. ASSUME WriterSettles PROVE Blamed'
  BY <1>11 DEF WriterSettles, CancelWriter, Fail, fixed,
       processes, waiting
<1>12. ASSUME CollectionExpires PROVE Blamed'
  BY <1>12 DEF CollectionExpires, CutReaders, Fail, fixed,
       processes, waiting
<1>13. ASSUME Gather PROVE Blamed'
  BY <1>13 DEF Gather, Fail, fixed, processes, waiting,
       tasks
<1>14. ASSUME Finalize PROVE Blamed'
  BY <1>14 DEF Finalize, Raised, fixed, processes,
       waiting
<1>15. ASSUME GroupSettled PROVE Blamed'
  BY <1>15 DEF GroupSettled, Stop, SettleGroup, fixed,
       processes, waiting,
       tasks
<1>16. ASSUME ReconcileWriter PROVE Blamed'
  BY <1>16 DEF ReconcileWriter, CancelWriter, StopIdle, fixed,
       processes,
       waiting
<1>17. ASSUME ReconcileReaders PROVE Blamed'
  BY <1>17 DEF ReconcileReaders, CutReaders, Raised, fixed,
       processes, waiting
<1>18. ASSUME DirectWriterSettles PROVE Blamed'
  BY <1>18 DEF DirectWriterSettles, CancelWriter, AsExpiry,
       DirectFail, fixed,
       processes, waiting
<1>19. ASSUME DirectWriterExpires PROVE Blamed'
  BY <1>19 DEF DirectWriterExpires, DirectFail, fixed,
       processes, tasks
<1>20. ASSUME CleanWriter PROVE Blamed'
  BY <1>20 DEF CleanWriter, CancelWriter, fixed, processes,
       waiting
<1>21. ASSUME CleanGroup PROVE Blamed'
  BY <1>21 DEF CleanGroup, Stop, SettleGroup, Raised,
       fixed, processes,
       waiting, tasks
<1>22. ASSUME IdleFinal PROVE Blamed'
  BY <1>22 DEF IdleFinal, StopIdle, Raised, fixed,
       processes, waiting
<1>23. ASSUME TimePasses PROVE Blamed'
  BY <1>23 DEF TimePasses, fixed, control, processes,
       waiting, tasks
<1>24. ASSUME ChildExits PROVE Blamed'
  BY <1>24 DEF ChildExits, fixed, control, waiting,
       tasks
<1>25. ASSUME ChildForks PROVE Blamed'
  BY <1>25 DEF ChildForks, fixed, control, waiting,
       tasks
<1>26. ASSUME DescendantExits PROVE Blamed'
  BY <1>26 DEF DescendantExits, fixed, control, waiting,
       tasks
<1>27. ASSUME WriterFinishes PROVE Blamed'
  BY <1>27 DEF WriterFinishes, fixed, control, processes,
       waiting
<1>28. ASSUME WriterFails PROVE Blamed'
  BY <1>28 DEF WriterFails, fixed, control, processes,
       waiting
<1>29. ASSUME CancelRace PROVE Blamed'
  BY <1>29 DEF CancelRace, OnWaitFailure, CancelledExit,
       SpendCancel, fixed,
       processes, tasks
<1>30. ASSUME CancelWait PROVE Blamed'
  BY <1>30 DEF CancelWait, OnWaitFailure, SpendCancel, fixed,
       processes, tasks
<1>31. ASSUME CancelCollection PROVE Blamed'
  BY <1>31 DEF CancelCollection, CutReaders, Fail, SpendCancel,
       fixed,
       processes, waiting
<1>32. ASSUME CancelDirectWriter PROVE Blamed'
  BY <1>32 DEF CancelDirectWriter, DirectFail, SpendCancel,
       fixed, processes,
       waiting, tasks
<1>33. ASSUME CancelShielded PROVE Blamed'
  BY <1>33 DEF CancelShielded, SpendCancel, fixed, processes,
       waiting, tasks
<1>34. ASSUME NEW s \in Streams, ReaderEnds(s) PROVE Blamed'
  BY <1>34 DEF ReaderEnds, fixed, control, processes,
       waiting
<1>35. ASSUME NEW s \in Streams, ReaderFails(s) PROVE Blamed'
  BY <1>35 DEF ReaderFails, fixed, control, processes,
       waiting
<1>36. ASSUME UNCHANGED commandVars PROVE Blamed'
  BY <1>36 DEF commandVars, fixed, control, processes,
       waiting, tasks
<1> QED
  BY <1>1, <1>2, <1>3, <1>4, <1>5, <1>6, <1>7, <1>8, <1>9, <1>10, <1>11,
       <1>12, <1>13, <1>14, <1>15, <1>16, <1>17, <1>18, <1>19, <1>20, <1>21,
       <1>22, <1>23, <1>24, <1>25, <1>26, <1>27, <1>28, <1>29, <1>30, <1>31,
       <1>32, <1>33, <1>34, <1>35, <1>36
  DEF CommandNext, RunSteps, ExitWait, Environment, Cancellations

-----------------------------------------------------------------------------
LEMMA InitIInv == CommandInit => CommandIInv
<1> SUFFICES ASSUME CommandInit PROVE CommandIInv
  OBVIOUS
<1> USE CommandAssumption DEF CommandInit
<1>1. CommandType
  <2>1. pc \in Awaits /\ cancels \in 0..MaxCancels
    BY DEF Awaits
  <2>2. reader \in [Streams -> {"none", "reading", "eof", "failed", "cut"}]
    OBVIOUS
  <2>3. /\ err \in Errors \cup {"none"}
        /\ exitw \in ExitDone \cup {"none", "waiting", "expiring", "cancelling"}
        /\ writer \in WriterDone \cup {"none", "writing"}
    OBVIOUS
  <2> QED
    BY <2>1, <2>2, <2>3, Zenon DEF CommandType
<1>2. Placed
  BY DEF Placed, StreamedAwaits, DirectAwaits
<1>3. ExitInv
  BY DEF ExitInv, ExitDone
<1>4. Settled
  BY DEF Settled, ReadersDone
<1>5. Blamed
  BY DEF Blamed, CommandFailing
<1> QED
  BY <1>1, <1>2, <1>3, <1>4, <1>5 DEF CommandIInv

\* What holds at every await of a run, for any number of cancellations.
THEOREM CommandInvariance == CommandSpec => []CommandIInv
<1>1. CommandIInv /\ [CommandNext]_commandVars => CommandIInv'
  BY TypeStep, PlacedStep, CommandExitStep, SettledStep, BlamedStep DEF CommandIInv
<1> QED
  BY InitIInv, <1>1, PTL DEF CommandSpec

\* Type correctness of a command's run.
THEOREM CommandTypeCorrect == CommandSpec => []CommandType
<1>1. CommandIInv => CommandType
  BY DEF CommandIInv
<1> QED
  BY CommandInvariance, <1>1, PTL

\* However often the caller cancels and whatever the child, the writer, the
\* readers and the deadline do, a run that got past its start event ends with
\* the child reaped, its readers and its heartbeat stopped, its sinks released
\* and its writer gone, unless the producer swallowed the cancellation.
THEOREM RunLeavesNothing == CommandSpec => []NothingLeftBehind
<1>1. CommandIInv => NothingLeftBehind
  BY DEF CommandIInv, Placed, ExitInv, Settled, ReadersDone, WriterReleased, ExitAwaits,
         NothingLeftBehind
<1> QED
  BY CommandInvariance, <1>1, PTL

\* However often the caller cancels, the result or the error a run ends with
\* is owed to what really happened.
THEOREM OutcomeIsTruthful == CommandSpec => []OutcomeTruthful
<1>1. CommandIInv => OutcomeTruthful
  BY DEF CommandIInv, CommandType, Errors, ExitInv, Blamed, WriterTrusted,
       OutcomeTruthful
<1> QED
  BY CommandInvariance, <1>1, PTL

-----------------------------------------------------------------------------
(* The batch. *)

-----------------------------------------------------------------------------
LEMMA NatMin ==
    ASSUME NEW T, T \subseteq Nat, T # {}
    PROVE  \E n \in T : \A m \in T : n <= m
<1> DEFINE R == {ss \in Nat \X Nat : ss[1] < ss[2]}
<1>1. OpToRel(<, Nat) = R
  BY DEF OpToRel
<1>2. IsWellFoundedOn(R, Nat)
  BY <1>1, NatLessThanWellFounded
<1>3. PICK n \in T : \A m \in T : <<m, n>> \notin R
  <2> HIDE DEF R
  <2> QED
    BY <1>2, WFMin
<1>4. ASSUME NEW m \in T PROVE n <= m
  <2>1. n \in Nat /\ m \in Nat
    OBVIOUS
  <2>2. <<m, n>> \in Nat \X Nat /\ <<m, n>>[1] = m /\ <<m, n>>[2] = n
    BY <2>1
  <2>3. ~ (m < n)
    BY <1>3, <2>2
  <2> QED
    BY <2>1, <2>3
<1> QED
  BY <1>4

\* A set with 0 and every successor of a member has every number.
LEMMA Induct ==
    ASSUME NEW G, 0 \in G, \A n \in Nat : n \in G => n + 1 \in G
    PROVE  \A n \in Nat : n \in G
<1> SUFFICES ASSUME NEW bad \in Nat, bad \notin G
             PROVE  FALSE
  OBVIOUS
<1> DEFINE T == {n \in Nat : n \notin G}
<1>1. PICK n \in T : \A m \in T : n <= m
  <2>1. T \subseteq Nat /\ T # {}
    OBVIOUS
  <2> HIDE DEF T
  <2> QED
    BY <2>1, NatMin
<1>2. n \in Nat /\ n # 0 /\ n \notin G
  OBVIOUS
<1>3. n - 1 \in Nat /\ n - 1 + 1 = n
  BY <1>2
<1>4. n - 1 \in G
  BY <1>1, <1>3
<1> QED
  BY <1>2, <1>3, <1>4

\* A set of numbers with an upper bound has a greatest member.
LEMMA NatMax ==
    ASSUME NEW b \in Nat, NEW T, T \subseteq 0..b, T # {}
    PROVE  \E n \in T : \A m \in T : m <= n
<1> DEFINE D == {d \in 0..b : b - d \in T}
<1>1. PICK d \in D : \A e \in D : d <= e
  <2>1. PICK n \in T : TRUE
    OBVIOUS
  <2>2. b - n \in D
    BY <2>1
  <2>3. D \subseteq Nat
    OBVIOUS
  <2> HIDE DEF D
  <2> QED
    BY <2>2, <2>3, NatMin
<1>2. ASSUME NEW m \in T PROVE m <= b - d
  <2>1. b - m \in D
    OBVIOUS
  <2>2. d <= b - m
    BY <1>1, <2>1
  <2> QED
    BY <2>2
<1> QED
  BY <1>1, <1>2

-----------------------------------------------------------------------------
\* The result of one pass over the first i commands, when those of `have` count.
Empty == [kind |-> "result", submission |-> <<>>, results |-> <<>>, failures |-> <<>>]

More(r, i) ==
    [kind |-> "result",
     submission |-> Append(r.submission, i),
     results |-> Append(r.results, st[i]),
     failures |-> IF st[i] = "failed" THEN Append(r.failures, Len(r.results) + 1)
                  ELSE r.failures]

Pass(L, n, have) ==
    L = [i \in 0..n |-> IF i = 0 THEN Empty
                        ELSE IF i \notin have THEN L[i - 1] ELSE More(L[i - 1], i)]

\* The loop of Collect is defined.
LEMMA PassExists ==
    ASSUME NEW have
    PROVE  \A n \in Nat : \E L : Pass(L, n, have)
<1> DEFINE G == {n \in Nat : \E L : Pass(L, n, have)}
<1>1. 0 \in G
  <2>1. Pass([i \in 0..0 |-> Empty], 0, have)
    BY DEF Pass
  <2> QED
    BY <2>1
<1>2. ASSUME NEW n \in Nat, n \in G PROVE n + 1 \in G
  <2>1. PICK L : Pass(L, n, have)
    BY <1>2
  <2> DEFINE K == [i \in 0..(n + 1) |->
                     IF i = n + 1
                     THEN IF i \notin have THEN L[n] ELSE More(L[n], i)
                     ELSE L[i]]
  <2>2. ASSUME NEW i \in 0..(n + 1)
        PROVE  K[i] = IF i = 0 THEN Empty
                      ELSE IF i \notin have THEN K[i - 1] ELSE More(K[i - 1], i)
    <3>1. CASE i = n + 1
      <4>1. K[i] = (IF i \notin have THEN L[n] ELSE More(L[n], i)) /\ K[i - 1] = L[n]
            /\ i # 0 /\ i - 1 = n
        BY <3>1
      <4> HIDE DEF K
      <4> QED
        BY <4>1
    <3>2. CASE i \in 1..n
      <4>1. K[i] = L[i] /\ K[i - 1] = L[i - 1] /\ i # 0 /\ i \in 0..n
        BY <3>2
      <4> HIDE DEF K
      <4> QED
        BY <2>1, <4>1 DEF Pass
    <3>3. CASE i = 0
      <4>1. K[i] = L[i] /\ i \in 0..n
        BY <3>3
      <4> HIDE DEF K
      <4> QED
        BY <2>1, <3>3, <4>1 DEF Pass
    <3> QED
      BY <3>1, <3>2, <3>3
  <2>3. Pass(K, n + 1, have)
    BY <2>2 DEF Pass
  <2> QED
    BY <2>3
<1> HIDE DEF G
<1>3. \A n \in Nat : n \in G
  BY <1>1, <1>2, Induct
<1> QED
  BY <1>3 DEF G

LEMMA CollectPass ==
    ASSUME NEW have
    PROVE  \E L : Pass(L, N, have) /\ Collect(have) = L[N]
<1> DEFINE L == CHOOSE L : Pass(L, N, have)
<1>1. Pass(L, N, have)
  BY PassExists, BatchAssumption
<1>2. Collect(have) = L[N]
  BY DEF Collect, Pass, Empty, More
<1> QED
  BY <1>1, <1>2

\* What the pass has collected after i commands.
Listed(r, i, have) ==
    /\ r.kind = "result"
    /\ r.submission \in Seq(1..i) /\ r.failures \in Seq(1..Len(r.submission))
    /\ r.results \in Seq({st[c] : c \in Commands})
    /\ Len(r.results) = Len(r.submission)
    /\ \A c \in 1..i : (\E p \in 1..Len(r.submission) : r.submission[p] = c) <=> c \in have
    /\ \A p, q \in 1..Len(r.submission) : p < q => r.submission[p] < r.submission[q]
    /\ \A p, q \in 1..Len(r.failures) : p < q => r.failures[p] < r.failures[q]
    /\ \A p \in 1..Len(r.submission) :
          (\E k \in 1..Len(r.failures) : r.failures[k] = p) <=> st[r.submission[p]] = "failed"

LEMMA ListedSkip ==
    ASSUME NEW have, NEW r, NEW i \in Nat, Listed(r, i, have), i + 1 \notin have
    PROVE  Listed(r, i + 1, have)
<1>1. r.submission \in Seq(1..(i + 1))
  <2>1. 1..i \subseteq 1..(i + 1)
    OBVIOUS
  <2> QED
    BY <2>1, SeqMonotonic DEF Listed
<1>2. ASSUME NEW c \in 1..(i + 1)
      PROVE  (\E p \in 1..Len(r.submission) : r.submission[p] = c) <=> c \in have
  <2>1. CASE c \in 1..i
    BY <2>1 DEF Listed
  <2>2. CASE c = i + 1
    <3>1. \A p \in 1..Len(r.submission) : r.submission[p] \in 1..i
      BY ElementOfSeq DEF Listed
    <3> QED
      BY <2>2, <3>1
  <2> QED
    BY <2>1, <2>2
<1> QED
  BY <1>1, <1>2 DEF Listed

Ascends(s) == \A p, q \in 1..Len(s) : p < q => s[p] < s[q]

Longer(t, s, b) ==
    /\ t \in Seq(1..(b + 1)) /\ Len(s) \in Nat /\ Len(t) = Len(s) + 1
    /\ t[Len(s) + 1] = b + 1 /\ \A p \in 1..Len(s) : t[p] = s[p]
    /\ Ascends(t)
    /\ \A c \in 1..(b + 1) : (\E p \in 1..Len(t) : t[p] = c)
                               <=> (c = b + 1 \/ \E p \in 1..Len(s) : s[p] = c)

\* An ascending sequence of numbers up to b, with b + 1 appended.
LEMMA Appended ==
    ASSUME NEW b \in Nat, NEW s \in Seq(1..b), Ascends(s), NEW t, t = Append(s, b + 1)
    PROVE  Longer(t, s, b)
<1>1. s \in Seq(1..(b + 1)) /\ b + 1 \in 1..(b + 1)
  <2>1. 1..b \subseteq 1..(b + 1)
    OBVIOUS
  <2> QED
    BY <2>1, SeqMonotonic
<1> DEFINE n == Len(s)
<1>2. /\ t \in Seq(1..(b + 1)) /\ Len(t) = n + 1 /\ t[n + 1] = b + 1
      /\ \A p \in 1..n : t[p] = s[p]
  BY <1>1, AppendProperties
<1>3. n \in Nat /\ \A p \in 1..n : s[p] \in 1..b
  BY LenProperties, ElementOfSeq
<1>4. \A p, q \in 1..n : p < q => s[p] < s[q]
  BY DEF Ascends
<1> HIDE DEF n
<1>5. ASSUME NEW p \in 1..(n + 1), NEW q \in 1..(n + 1), p < q PROVE t[p] < t[q]
  <2>1. p \in 1..n /\ t[p] = s[p] /\ s[p] \in 1..b
    BY <1>2, <1>3, <1>5
  <2>2. CASE q = n + 1
    BY <1>2, <2>1, <2>2
  <2>3. CASE q \in 1..n
    BY <1>2, <1>4, <1>5, <2>1, <2>3
  <2>4. q = n + 1 \/ q \in 1..n
    BY <1>3
  <2> QED
    BY <2>2, <2>3, <2>4
<1>6. ASSUME NEW c \in 1..(b + 1)
      PROVE  (\E p \in 1..(n + 1) : t[p] = c) <=> (c = b + 1 \/ \E p \in 1..n : s[p] = c)
  <2>1. \A p \in 1..(n + 1) : p = n + 1 \/ p \in 1..n
    BY <1>3
  <2>2. n + 1 \in 1..(n + 1) /\ \A p \in 1..n : p \in 1..(n + 1)
    BY <1>3
  <2> QED
    BY <1>2, <2>1, <2>2
<1> QED
  BY <1>2, <1>3, <1>5, <1>6 DEF n, Ascends, Longer

LEMMA ListedMore ==
    ASSUME NEW have, NEW r, NEW i \in Nat, i < N, Listed(r, i, have), i + 1 \in have,
           NEW m, m = More(r, i + 1)
    PROVE  Listed(m, i + 1, have)
<1>1. /\ m.kind = "result" /\ m.submission = Append(r.submission, i + 1)
      /\ m.results = Append(r.results, st[i + 1])
      /\ m.failures = IF st[i + 1] = "failed" THEN Append(r.failures, Len(r.results) + 1)
                      ELSE r.failures
  BY DEF More
<1>2. PICK sub, fs, re, sub2, fs2, re2 :
         /\ sub = r.submission /\ fs = r.failures /\ re = r.results
         /\ sub2 = m.submission /\ fs2 = m.failures /\ re2 = m.results
  OBVIOUS
<1>3. /\ sub \in Seq(1..i) /\ Ascends(sub) /\ fs \in Seq(1..Len(sub)) /\ Ascends(fs)
      /\ re \in Seq({st[c] : c \in Commands}) /\ Len(re) = Len(sub)
      /\ \A c \in 1..i : (\E p \in 1..Len(sub) : sub[p] = c) <=> c \in have
      /\ \A p \in 1..Len(sub) : (\E k \in 1..Len(fs) : fs[k] = p) <=> st[sub[p]] = "failed"
  BY <1>2 DEF Listed, Ascends
<1>4. /\ sub2 = Append(sub, i + 1) /\ re2 = Append(re, st[i + 1])
      /\ fs2 = IF st[i + 1] = "failed" THEN Append(fs, Len(sub) + 1) ELSE fs
  BY <1>1, <1>2, <1>3
<1> DEFINE n == Len(sub)
<1>5. /\ sub2 \in Seq(1..(i + 1)) /\ n \in Nat /\ Len(sub2) = n + 1
      /\ sub2[n + 1] = i + 1 /\ \A p \in 1..n : sub2[p] = sub[p]
      /\ Ascends(sub2)
      /\ \A c \in 1..(i + 1) : (\E p \in 1..Len(sub2) : sub2[p] = c)
                                 <=> (c = i + 1 \/ \E p \in 1..n : sub[p] = c)
  <2>1. Longer(sub2, sub, i)
    BY <1>3, <1>4, Appended
  <2> QED
    BY <2>1 DEF Longer
<1> HIDE DEF n
<1>6. re2 \in Seq({st[c] : c \in Commands}) /\ Len(re2) = n + 1
  <2>1. st[i + 1] \in {st[c] : c \in Commands}
    BY BatchAssumption DEF Commands
  <2> QED
    BY <1>3, <1>4, <2>1, AppendProperties DEF n
<1>7. ASSUME NEW c \in 1..(i + 1)
      PROVE  (\E p \in 1..Len(sub2) : sub2[p] = c) <=> c \in have
  <2>1. CASE c = i + 1
    BY <1>5, <2>1
  <2>2. CASE c \in 1..i /\ c # i + 1
    <3>1. (\E p \in 1..n : sub[p] = c) <=> c \in have
      BY <1>3, <2>2 DEF n
    <3> QED
      BY <1>5, <2>2, <3>1
  <2> QED
    BY <2>1, <2>2
<1>8. \A p \in 1..n : (\E k \in 1..Len(fs) : fs[k] = p) <=> st[sub2[p]] = "failed"
  BY <1>3, <1>5 DEF n
<1>9. \A k \in 1..Len(fs) : fs[k] \in 1..n
  BY <1>3, ElementOfSeq DEF n
<1>10. n + 1 \notin 1..n /\ \A p \in 1..(n + 1) : p = n + 1 \/ (p \in 1..n /\ p # n + 1)
  BY <1>5
<1>11. /\ fs2 \in Seq(1..(n + 1)) /\ Ascends(fs2)
       /\ \A p \in 1..(n + 1) : (\E k \in 1..Len(fs2) : fs2[k] = p) <=> st[sub2[p]] = "failed"
  <2>1. CASE st[i + 1] # "failed"
    <3>1. fs2 = fs
      BY <1>4, <2>1
    <3>2. fs \in Seq(1..(n + 1))
      <4>1. 1..n \subseteq 1..(n + 1)
        BY <1>5
      <4> QED
        BY <1>3, <4>1, SeqMonotonic DEF n
    <3>3. ~ (\E k \in 1..Len(fs) : fs[k] = n + 1) /\ st[sub2[n + 1]] # "failed"
      BY <1>5, <1>9, <1>10, <2>1
    <3>4. \A p \in 1..(n + 1) : (\E k \in 1..Len(fs) : fs[k] = p) <=> st[sub2[p]] = "failed"
      BY <1>8, <1>10, <3>3
    <3> QED
      BY <1>3, <3>1, <3>2, <3>4
  <2>2. CASE st[i + 1] = "failed"
    <3>1. fs2 = Append(fs, n + 1) /\ fs \in Seq(1..n) /\ Ascends(fs)
      BY <1>3, <1>4, <2>2 DEF n
    <3>2. /\ fs2 \in Seq(1..(n + 1)) /\ Ascends(fs2)
          /\ \A p \in 1..(n + 1) : (\E k \in 1..Len(fs2) : fs2[k] = p)
                                     <=> (p = n + 1 \/ \E k \in 1..Len(fs) : fs[k] = p)
      <4>1. Longer(fs2, fs, n)
        BY <1>5, <3>1, Appended
      <4> QED
        BY <4>1 DEF Longer
    <3>3. st[sub2[n + 1]] = "failed"
      BY <1>5, <2>2
    <3> QED
      BY <1>8, <1>10, <3>2, <3>3
  <2> QED
    BY <2>1, <2>2
<1> QED
  BY <1>1, <1>2, <1>5, <1>6, <1>7, <1>11, ZenonT(60) DEF Listed, Ascends

\* The result of Collect lists the commands it should, in order.
LEMMA CollectLists ==
    ASSUME NEW have
    PROVE  Listed(Collect(have), N, have)
<1>1. PICK L : Pass(L, N, have) /\ Collect(have) = L[N]
  BY CollectPass
<1>2. N \in Nat
  BY BatchAssumption
<1> DEFINE G == {n \in Nat : n <= N => Listed(L[n], n, have)}
<1>3. 0 \in G
  <2>1. L[0] = Empty
    BY <1>1, <1>2 DEF Pass
  <2>2. Listed(Empty, 0, have)
    <3>1. <<>> \in Seq(1..0) /\ <<>> \in Seq({st[c] : c \in Commands}) /\ Len(<<>>) = 0
      OBVIOUS
    <3> QED
      BY <3>1 DEF Listed, Empty
  <2> QED
    BY <2>1, <2>2
<1>4. ASSUME NEW n \in Nat, n \in G PROVE n + 1 \in G
  <2> SUFFICES ASSUME n + 1 <= N PROVE Listed(L[n + 1], n + 1, have)
    OBVIOUS
  <2>1. Listed(L[n], n, have) /\ n < N
    BY <1>2, <1>4
  <2>2. L[n + 1] = IF n + 1 \notin have THEN L[n] ELSE More(L[n], n + 1)
    BY <1>1, <1>2 DEF Pass
  <2> QED
    BY <2>1, <2>2, ListedSkip, ListedMore
<1> HIDE DEF G
<1>5. N \in G
  BY <1>2, <1>3, <1>4, Induct
<1> QED
  BY <1>1, <1>2, <1>5 DEF G

-----------------------------------------------------------------------------
(* What the batch holds and what it says, as an inductive invariant. *)

Holders == {c \in Commands : st[c] \in Holding}

BatchTypes ==
    /\ failFast \in BOOLEAN /\ limit \in Nat /\ call \in {"idle", "batch", "done"}
    /\ st \in [Commands -> Ended \cup Holding \cup Waiting \cup {"none"}]
    /\ waiters \in Seq(Commands) /\ free \in Nat /\ reported \subseteq Commands
    /\ aborting \in BOOLEAN /\ cancelled \in BOOLEAN

\* The semaphore's queue: every entry is a queued command, and no command is in it twice.
Queue ==
    /\ \A i \in 1..Len(waiters) : st[waiters[i]] = "queued"
    /\ \A i, j \in 1..Len(waiters) : i < j => waiters[i] # waiters[j]

Slots == limit > 0 => /\ Cardinality(Holders) + free = limit
                      /\ waiters # <<>> => free = 0

\* A batch that cancels has nobody left to start; only such a batch has cancelled
\* commands; and it has a cause, which collect-all mode has only from outside.
Aborted ==
    /\ aborting => /\ waiters = <<>>
                   /\ \A c \in Commands : st[c] \notin {"new", "queued", "granted", "running"}
                   /\ cancelled \/ (failFast /\ \E c \in Commands : st[c] \in {"failed", "raised"})
    /\ \A c \in Commands : st[c] \in {"tearing", "cancelled"} => aborting

\* What the caller awaits: no command before the batch, only ended ones after it.
Awaited ==
    /\ call = "idle" => ~ aborting /\ \A c \in Commands : st[c] = "none"
    /\ call = "batch" => \A c \in Commands : st[c] # "none"
    /\ call = "done" => \A c \in Commands : st[c] \in Ended \cup {"none"}
    /\ call # "done" => outcome = None
    /\ \A c \in reported : st[c] \in Ended

BatchInv == BatchTypes /\ Queue /\ Slots /\ Aborted /\ Awaited

LEMMA FiniteCommands ==
    ASSUME NEW S, S \subseteq Commands
    PROVE  IsFiniteSet(S) /\ Cardinality(S) \in Nat
<1>1. IsFiniteSet(Commands)
  BY BatchAssumption, FS_Interval DEF Commands
<1> QED
  BY <1>1, FS_Subset, FS_CardinalityType

Without(w, h) ==
    /\ h \in Commands /\ st[h] = "queued" /\ w \in Seq(Commands)
    /\ \A i \in 1..Len(w) : st[w[i]] = "queued" /\ w[i] # h
    /\ \A i, j \in 1..Len(w) : i < j => w[i] # w[j]

\* The queue's first leaves it.
LEMMA Dequeued ==
    ASSUME BatchTypes, Queue, waiters # <<>>,
           NEW h, h = Head(waiters), NEW w, w = Tail(waiters)
    PROVE  Without(w, h)
<1>1. /\ h \in Commands /\ w \in Seq(Commands) /\ Len(w) = Len(waiters) - 1
      /\ \A i \in 1..Len(w) : w[i] = waiters[i + 1]
  BY HeadTailProperties DEF BatchTypes
<1>2. Len(waiters) \in Nat /\ Len(waiters) # 0 /\ h = waiters[1]
  BY EmptySeq DEF BatchTypes
<1> DEFINE n == Len(waiters)
<1>3. /\ \A i \in 1..n : st[waiters[i]] = "queued"
      /\ \A i, j \in 1..n : i < j => waiters[i] # waiters[j]
  BY DEF Queue
<1> HIDE DEF n
<1>4. 1 \in 1..n /\ \A i \in 1..(n - 1) : i + 1 \in 1..n /\ 1 < i + 1
  BY <1>2 DEF n
<1>5. \A i \in 1..Len(w) : i \in 1..(n - 1)
  BY <1>1 DEF n
<1>6. ASSUME NEW i \in 1..Len(w) PROVE st[w[i]] = "queued" /\ w[i] # h
  <2>1. i + 1 \in 1..n /\ 1 < i + 1 /\ 1 \in 1..n
    BY <1>4, <1>5
  <2>2. w[i] = waiters[i + 1]
    BY <1>1
  <2> QED
    BY <1>2, <1>3, <2>1, <2>2
<1>7. ASSUME NEW i \in 1..Len(w), NEW j \in 1..Len(w), i < j PROVE w[i] # w[j]
  <2>1. i + 1 \in 1..n /\ j + 1 \in 1..n /\ i + 1 < j + 1
    <3>1. i \in 1..(n - 1) /\ j \in 1..(n - 1)
      BY <1>5
    <3> QED
      BY <1>2, <1>7, <3>1 DEF n
  <2> QED
    BY <1>1, <1>3, <2>1
<1>8. h \in Commands /\ st[h] = "queued"
  BY <1>1, <1>2, <1>3, <1>4
<1> QED
  BY <1>1, <1>6, <1>7, <1>8 DEF Without

JoinedBy(w, c) ==
    /\ w \in Seq(Commands) /\ w # <<>>
    /\ \A i \in 1..Len(w) : w[i] = c \/ (st[w[i]] = "queued" /\ w[i] # c)
    /\ \A i, j \in 1..Len(w) : i < j => w[i] # w[j]

\* One joins the queue.
LEMMA Enqueued ==
    ASSUME BatchTypes, Queue, NEW c \in Commands, st[c] # "queued",
           NEW w, w = Append(waiters, c)
    PROVE  JoinedBy(w, c)
<1> DEFINE n == Len(waiters)
<1>1. /\ w \in Seq(Commands) /\ w # <<>> /\ Len(w) = n + 1 /\ w[n + 1] = c
      /\ \A i \in 1..n : w[i] = waiters[i]
  BY AppendProperties DEF BatchTypes
<1>2. n \in Nat
  BY LenProperties DEF BatchTypes
<1>3. /\ \A i \in 1..n : st[waiters[i]] = "queued"
      /\ \A i, j \in 1..n : i < j => waiters[i] # waiters[j]
  BY DEF Queue
<1> HIDE DEF n
<1>4. \A i \in 1..(n + 1) : i = n + 1 \/ i \in 1..n
  BY <1>2
<1>5. \A i, j \in 1..(n + 1) : i < j => i \in 1..n
  BY <1>2
<1> QED
  BY <1>1, <1>3, <1>4, <1>5 DEF JoinedBy

\* One command starts to hold a place, gives it up, or passes it on.
LEMMA HoldersChange ==
    ASSUME NEW c \in Commands, NEW h \in Commands
    PROVE  /\ Cardinality(Holders) \in Nat
           /\ Cardinality(Holders \cup {c}) = IF c \in Holders THEN Cardinality(Holders) ELSE Cardinality(Holders) + 1
           /\ Cardinality(Holders \ {c}) = IF c \in Holders THEN Cardinality(Holders) - 1 ELSE Cardinality(Holders)
           /\ c \in Holders /\ h \notin Holders =>
                 Cardinality((Holders \ {c}) \cup {h}) = Cardinality(Holders)
           /\ c \in Holders => Cardinality(Holders) >= 1
<1>1. Holders \subseteq Commands
  BY DEF Holders
<1> DEFINE H == Holders
<1>2. IsFiniteSet(H) /\ Cardinality(H) \in Nat
  BY <1>1, FiniteCommands
<1>3. Cardinality(H \cup {c}) = IF c \in H THEN Cardinality(H) ELSE Cardinality(H) + 1
  BY <1>2, FS_AddElement
<1>4. /\ IsFiniteSet(H \ {c})
      /\ Cardinality(H \ {c}) = IF c \in H THEN Cardinality(H) - 1 ELSE Cardinality(H)
  BY <1>2, FS_RemoveElement
<1>5. Cardinality(H \ {c}) \in Nat
  BY <1>4, FS_CardinalityType
<1>6. h \notin H => Cardinality((H \ {c}) \cup {h}) = Cardinality(H \ {c}) + 1
  BY <1>4, FS_AddElement
<1> HIDE DEF H
<1>7. /\ c \in H /\ h \notin H => Cardinality((H \ {c}) \cup {h}) = Cardinality(H)
      /\ c \in H => Cardinality(H) >= 1
  BY <1>2, <1>4, <1>5, <1>6
<1> QED
  BY <1>2, <1>3, <1>4, <1>7 DEF H

\* Cancelling every task: the places of those that only waited for them go back.
LEMMA CancelAllKeeps ==
    ASSUME BatchInv, CancelAll, call = "batch", UNCHANGED <<failFast, limit, call, outcome>>,
           reported' \subseteq Commands, \A c \in reported' : st[c] \in Ended,
           cancelled' \in BOOLEAN,
           cancelled' \/ (failFast /\ \E c \in Commands : st[c] \in {"failed", "raised"})
    PROVE  BatchInv'
<1> DEFINE G == {c \in Commands : limit > 0 /\ st[c] = "granted"}
<1>1. /\ st' = [c \in Commands |-> CASE st[c] \in {"new", "queued", "granted"} -> "cancelled"
                                     [] st[c] = "running" -> "tearing"
                                     [] OTHER -> st[c]]
      /\ waiters' = <<>> /\ aborting' = TRUE /\ free' = free + Cardinality(G)
  BY DEF CancelAll
<1>2. Cardinality(G) \in Nat
  BY FiniteCommands
<1>3. ASSUME NEW c \in Commands
      PROVE  /\ st[c] \in {"new", "queued", "granted"} => st'[c] = "cancelled"
             /\ st[c] = "running" => st'[c] = "tearing"
             /\ st[c] \notin {"new", "queued", "granted", "running"} => st'[c] = st[c]
             /\ st[c] \in Ended \cup Holding \cup Waiting \cup {"none"}
             /\ st[c] # "none"
  BY <1>1 DEF BatchInv, BatchTypes, Awaited
<1>4. ASSUME NEW c \in Commands
      PROVE  /\ st'[c] \in {"ok", "failed", "raised", "cancelled", "tearing"}
             /\ st[c] \in Ended => st'[c] = st[c]
             /\ st'[c] \in Holding <=> st[c] \in Holding /\ st[c] # "granted"
  BY <1>3 DEF Ended, Holding, Waiting
<1>5. BatchTypes'
  <2>1. st' \in [Commands -> Ended \cup Holding \cup Waiting \cup {"none"}]
    BY <1>1, <1>4 DEF Ended, Holding, Waiting
  <2>2. waiters' \in Seq(Commands)
    BY <1>1
  <2>3. free' \in Nat
    BY <1>1, <1>2 DEF BatchInv, BatchTypes
  <2> QED
    BY <1>1, <2>1, <2>2, <2>3 DEF BatchInv, BatchTypes
<1>6. Queue'
  BY <1>1 DEF Queue
<1>7. Slots'
  <2> SUFFICES ASSUME limit > 0 PROVE Cardinality(Holders') + free' = limit
    BY <1>1 DEF Slots
  <2>1. Holders' = Holders \ G /\ Holders \cap G = G
    BY <1>4 DEF Holders, Holding
  <2>2. IsFiniteSet(Holders) /\ Cardinality(Holders) \in Nat
    BY FiniteCommands DEF Holders
  <2> HIDE DEF G
  <2>3. Cardinality(Holders') = Cardinality(Holders) - Cardinality(G)
    <3>1. Cardinality(Holders \ G) = Cardinality(Holders) - Cardinality(Holders \cap G)
      BY <2>2, FS_Difference
    <3> QED
      BY <2>1, <3>1
  <2>4. Cardinality(Holders) + free = limit /\ free \in Nat
    BY DEF BatchInv, BatchTypes, Slots
  <2> QED
    BY <1>1, <1>2, <2>2, <2>3, <2>4
<1>8. Aborted'
  <2>1. (\E c \in Commands : st[c] \in {"failed", "raised"}) =>
           \E c \in Commands : st'[c] \in {"failed", "raised"}
    BY <1>4 DEF Ended
  <2> QED
    BY <1>1, <1>4, <2>1 DEF Aborted
<1>9. Awaited'
  BY <1>4 DEF BatchInv, Awaited
<1> QED
  BY <1>5, <1>6, <1>7, <1>8, <1>9 DEF BatchInv

\* What a step that is not the batch's own leaves alone.
LEMMA BatchFrame ==
    ASSUME BatchInv, UNCHANGED batchVars
    PROVE  BatchInv'
BY DEF BatchInv, BatchTypes, Queue, Slots, Holders, Aborted, Awaited, batchVars

\* A step that changes one command, and neither the queue nor what the caller sees.
LEMMA Moved ==
    ASSUME BatchInv, NEW c \in Commands, NEW s, st' = [st EXCEPT ![c] = s], st[c] # "none",
           s \in Ended \cup Holding, st[c] \notin Ended \cup {"queued"},
           s \in {"cancelled", "tearing"} => aborting,
           s \in {"running", "granted"} => st[c] \in {"new", "granted"},
           waiters' = waiters, free' \in Nat, Slots',
           UNCHANGED <<failFast, limit, call, reported, aborting, cancelled, outcome>>
    PROVE  BatchInv'
<1>1. st \in [Commands -> Ended \cup Holding \cup Waiting \cup {"none"}]
  BY DEF BatchInv, BatchTypes
<1>2. st'[c] = s /\ \A d \in Commands : d # c => st'[d] = st[d]
  BY <1>1
<1>3. BatchTypes'
  BY <1>1 DEF BatchInv, BatchTypes
<1>4. Queue'
  <2>1. ASSUME NEW i \in 1..Len(waiters) PROVE st'[waiters[i]] = "queued"
    <3>1. waiters[i] \in Commands /\ st[waiters[i]] = "queued"
      BY ElementOfSeq DEF BatchInv, BatchTypes, Queue
    <3> QED
      BY <1>2, <3>1
  <2> QED
    BY <2>1 DEF BatchInv, Queue
<1>5. Aborted'
  <2>1. aborting => s \notin {"new", "queued", "granted", "running"}
    BY DEF BatchInv, Aborted, Ended, Holding
  <2>2. (\E d \in Commands : st[d] \in {"failed", "raised"}) =>
           \E d \in Commands : st'[d] \in {"failed", "raised"}
    BY <1>2 DEF Ended
  <2> QED
    BY <1>2, <2>1, <2>2 DEF BatchInv, Aborted
<1>6. Awaited'
  <2>1. call = "batch"
    BY DEF BatchInv, BatchTypes, Awaited
  <2>2. s # "none"
    BY DEF Ended, Holding
  <2>3. \A d \in reported : d # c /\ d \in Commands
    BY DEF BatchInv, BatchTypes, Awaited
  <2> QED
    BY <1>2, <2>1, <2>2, <2>3 DEF BatchInv, Awaited
<1> QED
  BY <1>3, <1>4, <1>5, <1>6 DEF BatchInv

LEMMA BeginKeeps ==
    ASSUME BatchInv, NEW c \in Commands, Begin(c)
    PROVE  BatchInv'
<1>1. /\ st[c] = "new" /\ UNCHANGED <<failFast, limit, call, reported, aborting, cancelled, outcome>>
      /\ st \in [Commands -> Ended \cup Holding \cup Waiting \cup {"none"}]
      /\ limit \in Nat /\ free \in Nat
  BY DEF BatchInv, BatchTypes, Begin
<1>2. CASE limit = 0 \/ (free > 0 /\ waiters = <<>>)
  <2>1. /\ st' = [st EXCEPT ![c] = "running"] /\ waiters' = waiters
        /\ free' = IF limit = 0 THEN free ELSE free - 1
    BY <1>2 DEF Begin
  <2>2. free' \in Nat
    BY <1>1, <1>2, <2>1
  <2>3. Slots'
    <3> SUFFICES ASSUME limit > 0
                 PROVE  Cardinality(Holders') + free' = limit /\ (waiters # <<>> => free' = 0)
      BY <1>1, <2>1 DEF Slots
    <3>1. c \notin Holders /\ Holders' = Holders \cup {c}
      BY <1>1, <2>1 DEF Holders, Holding
    <3>2. Cardinality(Holders) \in Nat /\ Cardinality(Holders') = Cardinality(Holders) + 1
      BY <3>1, HoldersChange
    <3>3. Cardinality(Holders) + free = limit
      BY DEF BatchInv, Slots
    <3> QED
      BY <1>1, <1>2, <2>1, <3>2, <3>3
  <2> QED
    BY <1>1, <2>1, <2>2, <2>3, Moved DEF Ended, Holding
<1>3. CASE ~ (limit = 0 \/ (free > 0 /\ waiters = <<>>))
  <2>1. /\ st' = [st EXCEPT ![c] = "queued"]
        /\ waiters' = Append(waiters, c) /\ free' = free
    BY <1>3 DEF Begin
  <2>2. st'[c] = "queued" /\ \A d \in Commands : d # c => st'[d] = st[d]
    BY <1>1, <2>1
  <2>3. /\ waiters' \in Seq(Commands) /\ waiters' # <<>>
        /\ \A i \in 1..Len(waiters') : waiters'[i] = c \/ (st[waiters'[i]] = "queued" /\ waiters'[i] # c)
        /\ \A i, j \in 1..Len(waiters') : i < j => waiters'[i] # waiters'[j]
    <3>1. JoinedBy(waiters', c)
      BY <1>1, <2>1, Enqueued DEF BatchInv
    <3> QED
      BY <3>1 DEF JoinedBy
  <2>4. BatchTypes'
    BY <1>1, <2>1, <2>3 DEF BatchInv, BatchTypes, Waiting
  <2>5. Queue'
    <3>1. ASSUME NEW i \in 1..Len(waiters') PROVE st'[waiters'[i]] = "queued"
      <4>1. waiters'[i] \in Commands
        BY <2>3, ElementOfSeq
      <4> QED
        BY <2>2, <2>3, <4>1
    <3> QED
      BY <2>3, <3>1 DEF Queue
  <2>6. Slots'
    <3>1. Holders' = Holders
      BY <1>1, <2>2 DEF Holders, Holding
    <3>2. free = 0 \/ waiters # <<>>
      BY <1>1, <1>3
    <3> QED
      BY <1>1, <2>1, <3>1, <3>2 DEF BatchInv, Slots
  <2>7. Aborted'
    BY <1>1, <2>2 DEF BatchInv, Aborted
  <2>8. Awaited'
    <3>1. call = "batch"
      BY <1>1 DEF BatchInv, BatchTypes, Awaited, Ended
    <3>2. \A d \in reported : d # c /\ d \in Commands
      BY <1>1 DEF BatchInv, BatchTypes, Awaited, Ended
    <3> QED
      BY <1>1, <2>2, <3>1, <3>2 DEF BatchInv, Awaited
  <2> QED
    BY <2>4, <2>5, <2>6, <2>7, <2>8 DEF BatchInv
<1> QED
  BY <1>2, <1>3

LEMMA ResumeKeeps ==
    ASSUME BatchInv, NEW c \in Commands, Resume(c)
    PROVE  BatchInv'
<1>1. /\ st[c] = "granted" /\ st' = [st EXCEPT ![c] = "running"] /\ waiters' = waiters /\ free' = free
      /\ UNCHANGED <<failFast, limit, call, reported, aborting, cancelled, outcome>>
      /\ st \in [Commands -> Ended \cup Holding \cup Waiting \cup {"none"}] /\ free \in Nat
  BY DEF BatchInv, BatchTypes, Resume
<1>2. Holders' = Holders
  BY <1>1 DEF Holders, Holding
<1>3. Slots'
  BY <1>1, <1>2 DEF BatchInv, Slots
<1> QED
  BY <1>1, <1>3, Moved DEF Ended, Holding

LEMMA FinishKeeps ==
    ASSUME BatchInv, NEW c \in Commands, NEW s \in {"ok", "failed", "raised"}, Finish(c, s)
    PROVE  BatchInv'
<1>1. /\ st[c] = "running" /\ Leave(c, s)
      /\ UNCHANGED <<failFast, limit, call, reported, aborting, cancelled, outcome>>
      /\ st \in [Commands -> Ended \cup Holding \cup Waiting \cup {"none"}]
      /\ limit \in Nat /\ free \in Nat
  BY DEF BatchInv, BatchTypes, Finish
<1>2. CASE limit = 0
  <2>1. st' = [st EXCEPT ![c] = s] /\ free' = free /\ waiters' = waiters
    BY <1>1, <1>2 DEF Leave
  <2>2. Slots'
    BY <1>1, <1>2 DEF Slots
  <2> QED
    BY <1>1, <2>1, <2>2, Moved DEF Ended, Holding
<1>3. CASE limit # 0 /\ waiters = <<>>
  <2>1. st' = [st EXCEPT ![c] = s] /\ free' = free + 1 /\ waiters' = waiters
    BY <1>1, <1>3 DEF Leave
  <2>2. Slots'
    <3>1. c \in Holders /\ Holders' = Holders \ {c}
      BY <1>1, <2>1 DEF Holders, Holding
    <3>2. Cardinality(Holders) \in Nat /\ Cardinality(Holders') = Cardinality(Holders) - 1
      BY <3>1, HoldersChange
    <3>3. Cardinality(Holders) + free = limit
      BY <1>1, <1>3 DEF BatchInv, Slots
    <3> QED
      BY <1>1, <1>3, <2>1, <3>2, <3>3 DEF Slots
  <2>3. free' \in Nat
    BY <1>1, <2>1
  <2> QED
    BY <1>1, <2>1, <2>2, <2>3, Moved DEF Ended, Holding
<1>4. CASE limit # 0 /\ waiters # <<>>
  <2>1. PICK h, w : h = Head(waiters) /\ w = Tail(waiters)
    OBVIOUS
  <2>2. /\ st' = [st EXCEPT ![c] = s, ![h] = "granted"]
        /\ waiters' = w /\ free' = free
    BY <1>1, <1>4, <2>1 DEF Leave
  <2>3. /\ h \in Commands /\ st[h] = "queued" /\ w \in Seq(Commands)
        /\ \A i \in 1..Len(w) : st[w[i]] = "queued" /\ w[i] # h
        /\ \A i, j \in 1..Len(w) : i < j => w[i] # w[j]
    <3>1. Without(w, h)
      BY <1>4, <2>1, Dequeued DEF BatchInv
    <3> QED
      BY <3>1 DEF Without
  <2>4. /\ h # c /\ st'[c] = s /\ st'[h] = "granted"
        /\ \A d \in Commands : d # c /\ d # h => st'[d] = st[d]
    BY <1>1, <2>2, <2>3
  <2>5. BatchTypes'
    <3>1. st' \in [Commands -> Ended \cup Holding \cup Waiting \cup {"none"}]
      BY <1>1, <2>2, <2>3 DEF Ended, Holding
    <3> QED
      BY <1>1, <2>2, <2>3, <3>1 DEF BatchInv, BatchTypes
  <2>6. Queue'
    <3>1. ASSUME NEW i \in 1..Len(w) PROVE st'[w[i]] = "queued"
      <4>1. w[i] \in Commands
        BY <2>3, ElementOfSeq
      <4> QED
        BY <1>1, <2>3, <2>4, <4>1
    <3> QED
      BY <2>2, <2>3, <3>1 DEF Queue
  <2>7. Slots'
    <3>1. c \in Holders /\ h \notin Holders /\ Holders' = (Holders \ {c}) \cup {h}
      BY <1>1, <2>3, <2>4 DEF Holders, Holding
    <3>2. Cardinality(Holders') = Cardinality(Holders)
      BY <2>3, <3>1, HoldersChange
    <3>3. limit > 0 => Cardinality(Holders) + free = limit /\ free = 0
      BY <1>4 DEF BatchInv, Slots
    <3> QED
      BY <1>1, <2>2, <3>2, <3>3 DEF Slots
  <2>8. Aborted'
    <3>1. ~ aborting
      BY <1>4 DEF BatchInv, Aborted
    <3> QED
      BY <1>1, <2>4, <3>1 DEF BatchInv, Aborted
  <2>9. Awaited'
    <3>1. call = "batch"
      BY <1>1 DEF BatchInv, BatchTypes, Awaited, Ended
    <3>2. \A d \in reported : d # c /\ d # h /\ d \in Commands
      BY <1>1, <2>3 DEF BatchInv, BatchTypes, Awaited, Ended
    <3> QED
      BY <1>1, <2>4, <3>1, <3>2 DEF BatchInv, Awaited
  <2> QED
    BY <2>5, <2>6, <2>7, <2>8, <2>9 DEF BatchInv
<1> QED
  BY <1>2, <1>3, <1>4

LEMMA TornDownKeeps ==
    ASSUME BatchInv, NEW c \in Commands, TornDown(c)
    PROVE  BatchInv'
<1>1. /\ st[c] = "tearing" /\ st' = [st EXCEPT ![c] = "cancelled"] /\ waiters' = waiters
      /\ free' = IF limit = 0 THEN free ELSE free + 1
      /\ UNCHANGED <<failFast, limit, call, reported, aborting, cancelled, outcome>>
      /\ st \in [Commands -> Ended \cup Holding \cup Waiting \cup {"none"}]
      /\ limit \in Nat /\ free \in Nat
  BY DEF BatchInv, BatchTypes, TornDown
<1>2. aborting /\ waiters = <<>>
  BY <1>1 DEF BatchInv, Aborted
<1>3. Slots'
  <2> SUFFICES ASSUME limit > 0 PROVE Cardinality(Holders') + free' = limit
    BY <1>1, <1>2 DEF Slots
  <2>1. c \in Holders /\ Holders' = Holders \ {c}
    BY <1>1 DEF Holders, Holding
  <2>2. Cardinality(Holders) \in Nat /\ Cardinality(Holders') = Cardinality(Holders) - 1
    BY <2>1, HoldersChange
  <2>3. Cardinality(Holders) + free = limit
    BY DEF BatchInv, Slots
  <2> QED
    BY <1>1, <2>2, <2>3
<1>4. free' \in Nat
  BY <1>1
<1> QED
  BY <1>1, <1>2, <1>3, <1>4, Moved DEF Ended, Holding

LEMMA SubmitKeeps ==
    ASSUME BatchInv, Submit
    PROVE  BatchInv'
<1>1. /\ call = "idle" /\ UNCHANGED <<failFast, limit, waiters, free, reported, aborting, cancelled>>
      /\ \A c \in Commands : st[c] = "none"
      /\ \/ call' = "batch" /\ st' = [c \in Commands |-> "new"] /\ outcome' = outcome
         \/ call' = "done" /\ st' = st
  BY DEF Submit, BatchInv, Awaited
<1>2. waiters = <<>> /\ reported = {}
  <2>1. waiters = <<>>
    <3> SUFFICES ASSUME waiters # <<>> PROVE FALSE
      OBVIOUS
    <3>1. Head(waiters) \in Commands /\ st[Head(waiters)] = "queued"
      BY Dequeued DEF BatchInv, Without
    <3> QED
      BY <1>1, <3>1
  <2> QED
    BY <1>1, <2>1 DEF BatchInv, BatchTypes, Awaited, Ended
<1>3. ~ aborting
  BY <1>1 DEF BatchInv, Awaited
<1>4. BatchTypes'
  BY <1>1 DEF BatchInv, BatchTypes, Waiting
<1>5. Holders = {} /\ Holders' = {}
  BY <1>1 DEF Holders, Holding
<1>6. Slots'
  BY <1>1, <1>5 DEF BatchInv, Slots
<1> QED
  BY <1>1, <1>2, <1>3, <1>4, <1>6 DEF BatchInv, Queue, Aborted, Awaited, Ended

LEMMA TaskDoneKeeps ==
    ASSUME BatchInv, NEW c \in Commands, TaskDone(c)
    PROVE  BatchInv'
<1>1. /\ call = "batch" /\ st[c] \in Ended /\ reported' = reported \cup {c}
      /\ UNCHANGED <<failFast, limit, call, cancelled, outcome>>
      /\ reported \subseteq Commands /\ cancelled \in BOOLEAN
      /\ \A d \in reported : st[d] \in Ended
  BY DEF TaskDone, BatchInv, BatchTypes, Awaited
<1>2. reported' \subseteq Commands /\ \A d \in reported' : st[d] \in Ended
  BY <1>1
<1>3. CASE failFast /\ ~aborting /\ st[c] \in {"failed", "raised"}
  <2>1. CancelAll
    BY <1>3 DEF TaskDone
  <2>2. failFast /\ \E d \in Commands : st[d] \in {"failed", "raised"}
    BY <1>3
  <2> HIDE DEF CancelAll
  <2> QED
    BY <1>1, <1>2, <2>1, <2>2, CancelAllKeeps
<1>4. CASE ~ (failFast /\ ~aborting /\ st[c] \in {"failed", "raised"})
  <2>1. UNCHANGED <<st, waiters, free, aborting>>
    BY <1>4 DEF TaskDone
  <2> QED
    BY <1>1, <1>2, <2>1 DEF BatchInv, BatchTypes, Queue, Slots, Holders, Aborted, Awaited
<1> QED
  BY <1>3, <1>4

LEMMA CancelCallerKeeps ==
    ASSUME BatchInv, CancelCaller
    PROVE  BatchInv'
<1>1. /\ call = "batch" /\ cancelled' = TRUE
      /\ UNCHANGED <<failFast, limit, call, reported, outcome>>
      /\ reported \subseteq Commands /\ \A d \in reported : st[d] \in Ended
  BY DEF CancelCaller, BatchInv, BatchTypes, Awaited
<1>2. CASE failFast /\ aborting
  <2>1. UNCHANGED <<st, waiters, free, aborting>>
    BY <1>2 DEF CancelCaller
  <2> QED
    BY <1>1, <2>1 DEF BatchInv, BatchTypes, Queue, Slots, Holders, Aborted, Awaited
<1>3. CASE ~ (failFast /\ aborting)
  <2>1. CancelAll
    BY <1>3 DEF CancelCaller
  <2> QED
    BY <1>1, <2>1, CancelAllKeeps
<1> QED
  BY <1>2, <1>3

LEMMA ReturnKeeps ==
    ASSUME BatchInv, Return
    PROVE  BatchInv'
<1>1. /\ call' = "done" /\ reported = Commands
      /\ UNCHANGED <<failFast, limit, st, waiters, free, reported, aborting, cancelled>>
  BY DEF Return
<1> QED
  BY <1>1 DEF BatchInv, BatchTypes, Queue, Slots, Holders, Aborted, Awaited

\* The batch's own steps, and the ones it takes no part in.
LEMMA BatchSteps ==
    ASSUME [Next]_vars
    PROVE  \/ Submit \/ CancelCaller \/ Return \/ UNCHANGED batchVars
           \/ \E c \in Commands : \/ Begin(c) \/ Resume(c) \/ TornDown(c) \/ TaskDone(c)
                                  \/ \E s \in {"ok", "failed", "raised"} : Finish(c, s)
BY DEF Next, Hook, CallerEnters, CallerRegisters, CallerExits, CallerDetaches, vars

LEMMA BatchStep ==
    ASSUME BatchInv, [Next]_vars
    PROVE  BatchInv'
<1>1. CASE Submit
  BY <1>1, SubmitKeeps
<1>2. CASE CancelCaller
  BY <1>2, CancelCallerKeeps
<1>3. CASE Return
  BY <1>3, ReturnKeeps
<1>4. CASE UNCHANGED batchVars
  BY <1>4, BatchFrame
<1>5. ASSUME NEW c \in Commands,
             \/ Begin(c) \/ Resume(c) \/ TornDown(c) \/ TaskDone(c)
             \/ \E s \in {"ok", "failed", "raised"} : Finish(c, s)
      PROVE  BatchInv'
  BY <1>5, BeginKeeps, ResumeKeeps, TornDownKeeps, TaskDoneKeeps, FinishKeeps
<1> QED
  BY <1>1, <1>2, <1>3, <1>4, <1>5, BatchSteps

LEMMA BatchInit ==
    ASSUME Init
    PROVE  BatchInv
<1>1. limit \in Nat /\ failFast \in BOOLEAN
  BY BatchAssumption DEF Init, ScopeInit
<1>2. waiters = <<>> /\ Len(waiters) = 0 /\ waiters \in Seq(Commands)
  BY DEF Init
<1>3. Holders = {}
  BY DEF Init, Holders, Holding
<1>4. Cardinality(Holders) = 0
  BY <1>3, FS_EmptySet
<1>5. BatchTypes
  BY <1>1, <1>2 DEF Init, BatchTypes
<1>6. Queue /\ Slots
  BY <1>1, <1>2, <1>4 DEF Init, Queue, Slots
<1> QED
  BY <1>5, <1>6 DEF Init, BatchInv, Aborted, Awaited, Ended

-----------------------------------------------------------------------------
(* The result: the loop's list is never refused, and says what happened. *)

\* The list of the commands that ran to an exit status, and of the failed ones' places in it.
TrueList(sub, fs) ==
    /\ \A c \in Commands : (\E p \in DOMAIN sub : sub[p] = c) <=> st[c] \in {"ok", "failed"}
    /\ \A p, q \in DOMAIN sub : p < q => sub[p] < sub[q]
    /\ \A p \in DOMAIN sub : (\E i \in DOMAIN fs : fs[i] = p) <=> st[sub[p]] = "failed"
    /\ \A i \in DOMAIN fs : fs[i] \in DOMAIN sub
    /\ fs = <<>> => \A c \in Commands : st[c] # "failed"

\* What the result of a pass over `have` says, when `have` is what ran to an exit status.
LEMMA ResultTruthful ==
    ASSUME NEW have, \A c \in Commands : c \in have <=> st[c] \in {"ok", "failed"},
           NEW r, r = Collect(have)
    PROVE  /\ ConcurrentResult(r) = r /\ r.kind = "result"
           /\ TrueList(r.submission, r.failures)
<1>1. Listed(r, N, have)
  BY CollectLists
<1>2. PICK sub, fs, re : sub = r.submission /\ fs = r.failures /\ re = r.results
  OBVIOUS
<1>3. /\ r.kind = "result"
      /\ sub \in Seq(Commands) /\ fs \in Seq(1..Len(sub)) /\ re \in Seq({st[c] : c \in Commands})
      /\ Len(re) = Len(sub)
      /\ \A c \in Commands : (\E p \in 1..Len(sub) : sub[p] = c) <=> c \in have
      /\ \A p, q \in 1..Len(sub) : p < q => sub[p] < sub[q]
      /\ \A p, q \in 1..Len(fs) : p < q => fs[p] < fs[q]
      /\ \A p \in 1..Len(sub) : (\E k \in 1..Len(fs) : fs[k] = p) <=> st[sub[p]] = "failed"
  <2>1. Commands = 1..N
    BY DEF Commands
  <2> QED
    <3>1. r.kind = "result" /\ r.results \in Seq({st[c] : c \in Commands}) /\ Len(r.results) = Len(r.submission)
      BY <1>1 DEF Listed
    <3>2. /\ r.submission \in Seq(1..N) /\ r.failures \in Seq(1..Len(r.submission))
          /\ \A c \in 1..N : (\E p \in 1..Len(r.submission) : r.submission[p] = c) <=> c \in have
      BY <1>1 DEF Listed
    <3>3. /\ \A p, q \in 1..Len(r.submission) : p < q => r.submission[p] < r.submission[q]
          /\ \A p, q \in 1..Len(r.failures) : p < q => r.failures[p] < r.failures[q]
          /\ \A p \in 1..Len(r.submission) :
                (\E k \in 1..Len(r.failures) : r.failures[k] = p) <=> st[r.submission[p]] = "failed"
      BY <1>1 DEF Listed
    <3> QED
      BY <1>2, <2>1, <3>1, <3>2, <3>3
<1>4. DOMAIN sub = 1..Len(sub) /\ DOMAIN fs = 1..Len(fs) /\ DOMAIN re = 1..Len(sub)
  BY <1>3, LenProperties
<1>5. /\ \A k \in 1..Len(fs) : fs[k] \in 1..Len(sub)
      /\ \A p \in 1..Len(sub) : sub[p] \in Commands
  BY <1>3, ElementOfSeq
<1>6. FailureIndicesValid(r)
  BY <1>2, <1>3, <1>4, <1>5 DEF FailureIndicesValid, IndexSequence
<1>7. SubmissionIndicesValid(r)
  <2>1. \A p \in 1..Len(sub) : sub[p] \in Nat
    BY <1>5 DEF Commands
  <2> QED
    BY <1>2, <1>3, <1>4, <2>1 DEF SubmissionIndicesValid, IndexSequence
<1>8. fs = <<>> => \A c \in Commands : st[c] # "failed"
  <2> SUFFICES ASSUME fs = <<>>, NEW c \in Commands, st[c] = "failed" PROVE FALSE
    OBVIOUS
  <2>1. PICK p \in 1..Len(sub) : sub[p] = c
    BY <1>3
  <2>2. PICK k \in 1..Len(fs) : fs[k] = p
    BY <1>3, <2>1
  <2>3. Len(fs) = 0
    OBVIOUS
  <2> QED
    BY <2>2, <2>3
<1>9. ConcurrentResult(r) = r
  BY <1>6, <1>7 DEF ConcurrentResult
<1>10. \A c \in Commands : (\E p \in DOMAIN sub : sub[p] = c) <=> st[c] \in {"ok", "failed"}
  BY <1>3, <1>4
<1>11. TrueList(sub, fs)
  BY <1>3, <1>4, <1>5, <1>8, <1>10, ZenonT(60) DEF TrueList
<1> QED
  BY <1>2, <1>3, <1>9, <1>11

LEMMA ReturnTruthful ==
    ASSUME BatchInv, Return
    PROVE  BatchTruthful'
<1>1. /\ call = "batch" /\ reported = Commands /\ st' = st
      /\ outcome' = IF failFast THEN FailFastOutcome ELSE CollectAllOutcome
  BY DEF Return
<1>2. \A c \in Commands : st[c] \in Ended
  BY <1>1 DEF BatchInv, Awaited
<1>3. With("raised")' = With("raised")
  BY <1>1 DEF With
<1>4. failFast \in BOOLEAN /\ cancelled \in BOOLEAN
  BY DEF BatchInv, BatchTypes
<1>5. SUFFICES \/ outcome'.kind = "cancelled"
               \/ outcome'.kind = "error" /\ With("raised") # {}
               \/ /\ outcome'.kind = "result" /\ TrueList(outcome'.submission, outcome'.failures)
                  /\ (\A c \in Commands : st[c] # "failed") => \A c \in Commands : st[c] = "ok"
  BY <1>1, <1>3 DEF BatchTruthful, TrueList
<1>6. CASE ~ failFast
  <2>1. CASE cancelled
    BY <1>1, <1>6, <2>1 DEF CollectAllOutcome
  <2>2. CASE ~ cancelled /\ With("raised") # {}
    BY <1>1, <1>6, <2>2 DEF CollectAllOutcome
  <2>3. CASE ~ cancelled /\ With("raised") = {}
    <3>1. outcome' = ConcurrentResult(Collect(Commands))
      BY <1>1, <1>6, <2>3 DEF CollectAllOutcome
    <3>2. \A c \in Commands : st[c] \in {"ok", "failed"}
      BY <1>2, <1>6, <2>3 DEF With, BatchInv, Aborted, Ended
    <3>3. ConcurrentResult(Collect(Commands)) = Collect(Commands) /\ Collect(Commands).kind = "result"
          /\ TrueList(Collect(Commands).submission, Collect(Commands).failures)
      BY <3>2, ResultTruthful
    <3>4. (\A c \in Commands : st[c] # "failed") => \A c \in Commands : st[c] = "ok"
      BY <3>2
    <3> QED
      BY <3>1, <3>3, <3>4
  <2> QED
    BY <2>1, <2>2, <2>3
<1>7. CASE failFast
  <2>1. CASE With("raised") # {}
    BY <1>1, <1>7, <2>1 DEF FailFastOutcome
  <2>2. CASE With("raised") = {} /\ With("failed") = {} /\ cancelled
    BY <1>1, <1>7, <2>2 DEF FailFastOutcome
  <2>3. CASE With("raised") = {} /\ (With("failed") # {} \/ ~cancelled)
    <3> DEFINE have == With("ok") \cup With("failed")
    <3>1. outcome' = ConcurrentResult(Collect(have))
      BY <1>1, <1>7, <2>3 DEF FailFastOutcome
    <3>2. \A c \in Commands : c \in have <=> st[c] \in {"ok", "failed"}
      BY DEF With
    <3>3. (\A c \in Commands : st[c] # "failed") => \A c \in Commands : st[c] = "ok"
      BY <1>2, <2>3 DEF With, BatchInv, Aborted, Ended
    <3> HIDE DEF have
    <3>4. ConcurrentResult(Collect(have)) = Collect(have) /\ Collect(have).kind = "result"
          /\ TrueList(Collect(have).submission, Collect(have).failures)
      BY <3>2, ResultTruthful
    <3> QED
      BY <3>1, <3>3, <3>4
  <2> QED
    BY <1>4, <2>1, <2>2, <2>3
<1> QED
  BY <1>4, <1>6, <1>7

\* Once it has an outcome the batch is at rest; before, it claims nothing.
LEMMA TruthfulStep ==
    ASSUME BatchInv, BatchTruthful, [Next]_vars
    PROVE  BatchTruthful'
<1>1. CASE Return
  BY <1>1, ReturnTruthful
<1>2. CASE Submit
  <2>1. outcome'.kind \in {"none", "forbidden"}
    BY <1>2 DEF Submit, BatchInv, Awaited, None
  <2> QED
    BY <2>1 DEF BatchTruthful
<1>3. CASE outcome' = outcome /\ call' # "done"
  <2>1. outcome'.kind = "none"
    BY <1>3, BatchStep DEF BatchInv, Awaited, None
  <2> QED
    BY <2>1 DEF BatchTruthful
<1>4. CASE outcome' = outcome /\ st' = st
  BY <1>4 DEF BatchTruthful, With
<1>5. CASE CancelCaller
  <2>1. outcome' = outcome /\ call' = "batch"
    BY <1>5 DEF CancelCaller
  <2> QED
    BY <1>3, <2>1
<1>6. ASSUME NEW c \in Commands,
             \/ Begin(c) \/ Resume(c) \/ TornDown(c) \/ TaskDone(c)
             \/ \E s \in {"ok", "failed", "raised"} : Finish(c, s)
      PROVE  BatchTruthful'
  <2>1. outcome' = outcome /\ call' = call
    BY <1>6 DEF Begin, Resume, TornDown, TaskDone, Finish
  <2>2. call # "done"
    BY <1>6 DEF Begin, Resume, TornDown, TaskDone, Finish, BatchInv, Awaited, Ended
  <2> QED
    BY <1>3, <2>1, <2>2
<1>7. CASE UNCHANGED batchVars
  BY <1>4, <1>7 DEF batchVars
<1> QED
  BY <1>1, <1>2, <1>5, <1>6, <1>7, BatchSteps

\* The batch's inductive invariant holds in every reachable state, for every
\* number of commands, every limit and whatever its commands' hooks open.
THEOREM BatchInvariance == Spec => [](BatchInv /\ BatchTruthful)
<1>1. Init => BatchInv /\ BatchTruthful
  <2>1. Init => outcome.kind = "none"
    BY DEF Init, None
  <2> QED
    BY <2>1, BatchInit DEF BatchTruthful
<1>2. BatchInv /\ BatchTruthful /\ [Next]_vars => (BatchInv /\ BatchTruthful)'
  BY BatchStep, TruthfulStep
<1> QED
  BY <1>1, <1>2, PTL DEF Spec

\* No batch reports a success it did not have or a command it did not run, and
\* none loses a slot, exceeds its limit or leaves a command behind.
THEOREM BatchIsAccounted == Spec => []BatchAccounted
<1>1. BatchInv => SlotsAccounted
  BY DEF BatchInv, Slots, Holders, Awaited, SlotsAccounted
<1>2. BatchInv /\ BatchTruthful => BatchAccounted
  BY <1>1 DEF BatchAccounted
<1> QED
  BY <1>2, BatchInvariance, PTL

-----------------------------------------------------------------------------
(* Sequences that grow and shrink at their end, and their prefixes. *)

Sequence(s) == \E S : s \in Seq(S)

\* t is s with e after it.
Grown(t, s, e) ==
    /\ Len(s) \in Nat /\ DOMAIN s = 1..Len(s)
    /\ Len(t) = Len(s) + 1 /\ DOMAIN t = 1..(Len(s) + 1)
    /\ \A i \in 1..Len(s) : t[i] = s[i]
    /\ t[Len(s) + 1] = e

LEMMA Grow ==
    ASSUME NEW s, Sequence(s), NEW e, NEW t, t = Append(s, e)
    PROVE  Sequence(t) /\ Grown(t, s, e)
<1>1. PICK S : s \in Seq(S)
  BY DEF Sequence
<1>2. S \subseteq S \cup {e} /\ e \in S \cup {e}
  OBVIOUS
<1>3. s \in Seq(S \cup {e})
  BY <1>1, <1>2, SeqMonotonic
<1>4. /\ t \in Seq(S \cup {e}) /\ Len(t) = Len(s) + 1
      /\ \A i \in 1..Len(s) : t[i] = s[i]
      /\ t[Len(s) + 1] = e
  BY <1>2, <1>3, AppendProperties
<1>5. DOMAIN t = 1..Len(t) /\ Len(s) \in Nat /\ DOMAIN s = 1..Len(s)
  BY <1>3, <1>4, LenProperties
<1> QED
  BY <1>4, <1>5 DEF Sequence, Grown

LEMMA Shrink ==
    ASSUME NEW s, Sequence(s), s # <<>>, NEW t, t = Front(s)
    PROVE  Sequence(t) /\ Grown(s, t, Last(s))
<1>1. PICK S : s \in Seq(S)
  BY DEF Sequence
<1> DEFINE n == Len(s)
<1>2. n \in Nat /\ n # 0 /\ DOMAIN s = 1..n
  BY <1>1, LenProperties, EmptySeq
<1>3. t = SubSeq(s, 1, n - 1) /\ Last(s) = s[n]
  BY DEF Front, Last
<1>4. \A i \in 1..n : s[i] \in S
  BY <1>1, ElementOfSeq
<1> HIDE DEF n
<1>5. \A i \in 1..(n - 1) : s[i] \in S
  BY <1>2, <1>4
<1>6. 1 \in Int /\ n - 1 \in Int /\ n - 1 - 1 + 1 = n - 1
  BY <1>2
<1>7. /\ t \in Seq(S) /\ Len(t) = IF 1 <= n - 1 THEN n - 1 - 1 + 1 ELSE 0
      /\ \A i \in 1..(n - 1 - 1 + 1) : t[i] = s[1 + i - 1]
  BY <1>3, <1>5, <1>6, SubSeqProperties
<1>8. Len(t) = n - 1 /\ \A i \in 1..(n - 1) : t[i] = s[i]
  <2>1. Len(t) = n - 1
    BY <1>2, <1>7
  <2>2. ASSUME NEW i \in 1..(n - 1) PROVE t[i] = s[i]
    <3>1. 1 + i - 1 = i
      BY <1>2
    <3> QED
      BY <1>6, <1>7, <3>1
  <2> QED
    BY <2>1, <2>2
<1>9. DOMAIN t = 1..Len(t)
  BY <1>7, LenProperties
<1>10. n - 1 + 1 = n /\ n - 1 \in Nat
  BY <1>2
<1> QED
  BY <1>2, <1>3, <1>7, <1>8, <1>9, <1>10 DEF Sequence, Grown, n

LEMMA SamePrefix ==
    ASSUME NEW s, Sequence(s), NEW t, Sequence(t), NEW e, Grown(t, s, e), NEW k \in 0..Len(s)
    PROVE  SubSeq(t, 1, k) = SubSeq(s, 1, k) /\ SubSeq(t, 1, Len(s)) = s
<1>1. PICK S : s \in Seq(S)
  BY DEF Sequence
<1> DEFINE n == Len(s)
<1>2. n \in Nat /\ (\A i \in 1..n : s[i] \in S /\ t[i] = s[i]) /\ k \in 0..n
  BY <1>1, ElementOfSeq DEF Grown
<1> HIDE DEF n
<1>3. ASSUME NEW m \in 0..n PROVE SubSeq(t, 1, m) = SubSeq(s, 1, m)
  <2>1. m \in Int /\ 1 \in Int /\ (\A i \in 1..m : s[i] \in S /\ t[i] \in S /\ t[i] = s[i])
    BY <1>2
  <2>2. /\ SubSeq(s, 1, m) \in Seq(S) /\ Len(SubSeq(s, 1, m)) = IF 1 <= m THEN m - 1 + 1 ELSE 0
        /\ \A i \in 1..(m - 1 + 1) : SubSeq(s, 1, m)[i] = s[1 + i - 1]
    BY <2>1, SubSeqProperties
  <2>3. /\ SubSeq(t, 1, m) \in Seq(S) /\ Len(SubSeq(t, 1, m)) = IF 1 <= m THEN m - 1 + 1 ELSE 0
        /\ \A i \in 1..(m - 1 + 1) : SubSeq(t, 1, m)[i] = t[1 + i - 1]
    BY <2>1, SubSeqProperties
  <2>4. m - 1 + 1 = m /\ (IF 1 <= m THEN m ELSE 0) = m /\ \A i \in 1..m : 1 + i - 1 = i
    BY <1>2
  <2>5. PICK a, b : a = SubSeq(s, 1, m) /\ b = SubSeq(t, 1, m)
    OBVIOUS
  <2>6. /\ a \in Seq(S) /\ b \in Seq(S) /\ Len(a) = m /\ Len(b) = m
        /\ \A i \in 1..m : a[i] = b[i]
    BY <2>1, <2>2, <2>3, <2>4, <2>5
  <2>7. a = b
    BY <2>6, SeqEqual
  <2> QED
    BY <2>5, <2>7
<1>4. SubSeq(s, 1, n) = s
  BY <1>1, SubSeqFull DEF n
<1>5. n \in 0..n
  BY <1>2
<1>6. SubSeq(t, 1, n) = SubSeq(s, 1, n) /\ SubSeq(t, 1, k) = SubSeq(s, 1, k)
  BY <1>2, <1>3, <1>5
<1> QED
  BY <1>4, <1>6 DEF n

-----------------------------------------------------------------------------
(* FlattenSeq, as the last of the partial concatenations. *)

Hooks == Seq(STRING)

Sums(F, s, n) == /\ F[0] = <<>>
                 /\ \A i \in 1..n : F[i] = F[i - 1] \o s[i]

LEMMA SumsExist ==
    ASSUME NEW s, NEW n \in Nat, \A i \in 1..n : s[i] \in Hooks
    PROVE  \E F \in [0..n -> Hooks] : Sums(F, s, n)
<1> DEFINE G == {m \in Nat : m <= n => \E F \in [0..m -> Hooks] : Sums(F, s, m)}
<1>1. 0 \in G
  <2>1. PICK F : F = [i \in 0..0 |-> <<>>]
    OBVIOUS
  <2>2. <<>> \in Hooks
    BY DEF Hooks
  <2>3. F \in [0..0 -> Hooks] /\ F[0] = <<>>
    BY <2>1, <2>2
  <2>4. Sums(F, s, 0)
    BY <2>3 DEF Sums
  <2> QED
    BY <2>3, <2>4
<1>2. ASSUME NEW m \in Nat, m \in G PROVE m + 1 \in G
  <2> SUFFICES ASSUME m + 1 <= n PROVE \E F \in [0..(m + 1) -> Hooks] : Sums(F, s, m + 1)
    OBVIOUS
  <2>1. PICK F \in [0..m -> Hooks] : Sums(F, s, m)
    BY <1>2
  <2>2. m \in 0..m /\ m + 1 \in 1..n
    OBVIOUS
  <2>3. F[m] \o s[m + 1] \in Hooks
    <3>1. F[m] \in Hooks /\ s[m + 1] \in Hooks
      BY <2>1, <2>2
    <3> QED
      BY <3>1, ConcatProperties DEF Hooks
  <2>4. PICK K : K = [i \in 0..(m + 1) |-> IF i = m + 1 THEN F[m] \o s[m + 1] ELSE F[i]]
    OBVIOUS
  <2>5. /\ K \in [0..(m + 1) -> Hooks] /\ \A i \in 0..m : K[i] = F[i]
        /\ K[m + 1] = F[m] \o s[m + 1]
    BY <2>1, <2>3, <2>4
  <2>6. ASSUME NEW i \in 1..(m + 1) PROVE K[i] = K[i - 1] \o s[i]
    <3>1. CASE i = m + 1
      <4>1. i - 1 = m
        BY <3>1
      <4> QED
        BY <2>2, <2>5, <3>1, <4>1
    <3>2. CASE i \in 1..m
      <4>1. i \in 0..m /\ i - 1 \in 0..m
        BY <3>2
      <4> QED
        BY <2>1, <2>5, <3>2, <4>1 DEF Sums
    <3>3. i = m + 1 \/ i \in 1..m
      OBVIOUS
    <3> QED
      BY <3>1, <3>2, <3>3
  <2>7. K[0] = <<>>
    BY <2>1, <2>5 DEF Sums
  <2>8. Sums(K, s, m + 1)
    BY <2>6, <2>7 DEF Sums
  <2> QED
    BY <2>5, <2>8
<1> HIDE DEF G
<1>3. n \in G
  BY <1>1, <1>2, Induct
<1> QED
  BY <1>3 DEF G

LEMMA FlattenSums ==
    ASSUME NEW s, NEW n \in Nat, Len(s) = n, n = 0 => s = <<>>, \A i \in 1..n : s[i] \in Hooks,
           NEW F \in [0..n -> Hooks], Sums(F, s, n)
    PROVE  FlattenSeq(s) = F[n]
<1>1. CASE n = 0
  BY <1>1 DEF FlattenSeq, Sums
<1>2. CASE n # 0
  <2> DEFINE Fix(f) == f = [i \in 1..n |-> IF i = 1 THEN s[i] ELSE f[i - 1] \o s[i]]
             C == CHOOSE f : Fix(f)
  <2>0. \A i \in 1..n : F[i] = F[i - 1] \o s[i]
    BY DEF Sums
  <2>1. FlattenSeq(s) = C[n]
    BY <1>2 DEF FlattenSeq
  <2>2. PICK K : K = [i \in 1..n |-> F[i]]
    OBVIOUS
  <2>3. ASSUME NEW i \in 1..n PROVE K[i] = IF i = 1 THEN s[i] ELSE K[i - 1] \o s[i]
    <3>1. F[i] = F[i - 1] \o s[i] /\ K[i] = F[i]
      BY <2>2 DEF Sums
    <3>2. CASE i = 1
      <4>1. F[i - 1] = <<>>
        BY <3>2 DEF Sums
      <4>2. <<>> \o s[i] = s[i]
        BY ConcatEmptySeq DEF Hooks
      <4> QED
        BY <3>1, <3>2, <4>1, <4>2
    <3>3. CASE i # 1
      <4>1. K[i - 1] = F[i - 1]
        BY <2>2, <3>3
      <4> QED
        BY <3>1, <3>3, <4>1
    <3> QED
      BY <3>2, <3>3
  <2>4. Fix(K)
    BY <2>2, <2>3
  <2>5. Fix(C)
    BY <2>4
  <2>6. PICK c : c = C
    BY SMTT(30)
  <2>7. \A i \in 1..n : c[i] = IF i = 1 THEN s[i] ELSE c[i - 1] \o s[i]
    BY <2>5, <2>6, ZenonT(60)
  <2> HIDE DEF C, Fix
  <2> DEFINE G == {m \in Nat : m \in 1..n => c[m] = F[m]}
  <2>8. 0 \in G
    OBVIOUS
  <2>9. ASSUME NEW m \in Nat, m \in G PROVE m + 1 \in G
    <3> SUFFICES ASSUME m + 1 \in 1..n PROVE c[m + 1] = F[m + 1]
      OBVIOUS
    <3>1. F[m + 1] = F[m] \o s[m + 1]
      <4>1. PICK j \in 1..n : j = m + 1
        OBVIOUS
      <4>2. F[j] = F[j - 1] \o s[j]
        BY <2>0
      <4>3. j - 1 = m
        BY <4>1
      <4> QED
        BY <4>1, <4>2, <4>3
    <3>2. CASE m = 0
      <4>1. c[m + 1] = s[m + 1] /\ F[m] = <<>>
        BY <2>7, <3>2 DEF Sums
      <4>2. <<>> \o s[m + 1] = s[m + 1]
        BY ConcatEmptySeq DEF Hooks
      <4> QED
        BY <3>1, <4>1, <4>2
    <3>3. CASE m # 0
      <4>1. m \in 1..n /\ m + 1 # 1 /\ m + 1 - 1 = m
        BY <3>3
      <4>2. c[m] = F[m]
        BY <2>9, <4>1
      <4>3. c[m + 1] = c[m] \o s[m + 1]
        <5>1. c[m + 1] = IF m + 1 = 1 THEN s[m + 1] ELSE c[m + 1 - 1] \o s[m + 1]
          BY <2>7
        <5> QED
          BY <4>1, <5>1
      <4> QED
        BY <3>1, <4>2, <4>3
    <3> QED
      BY <3>2, <3>3
  <2> HIDE DEF G
  <2>10. n \in G
    BY <2>8, <2>9, Induct
  <2>11. c[n] = F[n]
    BY <1>2, <2>10 DEF G
  <2> QED
    BY <2>1, <2>6, <2>11
<1> QED
  BY <1>1, <1>2

\* A sequence of hook lists.
HookLists(s, n) == Len(s) = n /\ (n = 0 => s = <<>>) /\ \A i \in 1..n : s[i] \in Hooks

LEMMA FlattenAppended ==
    ASSUME NEW n \in Nat, NEW s, HookLists(s, n), NEW t, HookLists(t, n + 1),
           \A i \in 1..n : t[i] = s[i]
    PROVE  FlattenSeq(s) \in Hooks /\ FlattenSeq(t) = FlattenSeq(s) \o t[n + 1]
<1>1. PICK F \in [0..n -> Hooks] : Sums(F, s, n)
  BY SumsExist DEF HookLists
<1>2. FlattenSeq(s) = F[n] /\ F[n] \in Hooks
  <2>1. n \in 0..n
    OBVIOUS
  <2> QED
    BY <1>1, <2>1, FlattenSums DEF HookLists
<1>3. t[n + 1] \in Hooks /\ n + 1 \in Nat
  BY DEF HookLists
<1>4. F[n] \o t[n + 1] \in Hooks
  BY <1>2, <1>3, ConcatProperties DEF Hooks
<1>5. PICK K : K = [i \in 0..(n + 1) |-> IF i = n + 1 THEN F[n] \o t[n + 1] ELSE F[i]]
  OBVIOUS
<1>6. /\ K \in [0..(n + 1) -> Hooks] /\ \A i \in 0..n : K[i] = F[i]
      /\ K[n + 1] = F[n] \o t[n + 1]
  BY <1>1, <1>4, <1>5
<1>7. ASSUME NEW i \in 1..(n + 1) PROVE K[i] = K[i - 1] \o t[i]
  <2>1. CASE i = n + 1
    <3>1. i - 1 = n /\ n \in 0..n
      BY <2>1
    <3> QED
      BY <1>6, <2>1, <3>1
  <2>2. CASE i \in 1..n
    <3>1. i \in 0..n /\ i - 1 \in 0..n
      BY <2>2
    <3>2. F[i] = F[i - 1] \o s[i] /\ t[i] = s[i]
      BY <1>1, <2>2 DEF Sums
    <3> QED
      BY <1>6, <3>1, <3>2
  <2>3. i = n + 1 \/ i \in 1..n
    OBVIOUS
  <2> QED
    BY <2>1, <2>2, <2>3
<1>8. Sums(K, t, n + 1)
  <2>1. K[0] = <<>>
    BY <1>1, <1>6 DEF Sums
  <2> QED
    BY <1>7, <2>1 DEF Sums
<1>9. FlattenSeq(t) = K[n + 1]
  BY <1>3, <1>6, <1>8, FlattenSums, ZenonT(60) DEF HookLists
<1> QED
  BY <1>2, <1>6, <1>9

\* Lists of hooks can be joined in either grouping.
LEMMA HooksAssociative ==
    \A f, g, h \in Hooks : f \o (g \o h) = (f \o g) \o h
<1>1. ASSUME NEW S, NEW f \in Seq(S), NEW g \in Seq(S), NEW h \in Seq(S)
      PROVE  f \o (g \o h) = (f \o g) \o h
  BY ConcatAssociative, SMTT(30)
<1> QED
  BY <1>1, SMTT(30) DEF Hooks

LEMMA FlattenPrepended ==
    ASSUME NEW n \in Nat, NEW s, HookLists(s, n), NEW t, HookLists(t, n + 1),
           \A i \in 1..n : t[i + 1] = s[i]
    PROVE  FlattenSeq(s) \in Hooks /\ FlattenSeq(t) = t[1] \o FlattenSeq(s)
<1>1. PICK F \in [0..n -> Hooks] : Sums(F, s, n)
  BY SumsExist DEF HookLists
<1>2. FlattenSeq(s) = F[n] /\ F[n] \in Hooks
  <2>1. n \in 0..n
    OBVIOUS
  <2> QED
    BY <1>1, <2>1, FlattenSums DEF HookLists
<1>3. PICK x : x = t[1]
  OBVIOUS
<1>4. x \in Hooks /\ n + 1 \in Nat
  BY <1>3 DEF HookLists
<1>5. \A i \in 0..n : F[i] \in Hooks /\ x \o F[i] \in Hooks
  BY <1>1, <1>4, ConcatProperties DEF Hooks
<1>6. PICK K : K = [i \in 0..(n + 1) |-> IF i = 0 THEN <<>> ELSE x \o F[i - 1]]
  OBVIOUS
<1>7. K[0] = <<>> /\ \A i \in 1..(n + 1) : i - 1 \in 0..n /\ K[i] = x \o F[i - 1]
  BY <1>6
<1>8. K \in [0..(n + 1) -> Hooks]
  <2>1. <<>> \in Hooks
    BY DEF Hooks
  <2>2. \A i \in 0..(n + 1) : i = 0 \/ i \in 1..(n + 1)
    OBVIOUS
  <2> QED
    BY <1>5, <1>6, <1>7, <2>1, <2>2
<1>9. ASSUME NEW i \in 1..(n + 1) PROVE K[i] = K[i - 1] \o t[i]
  <2>1. CASE i = 1
    <3>1. K[i] = x \o <<>> /\ K[i - 1] = <<>>
      <4>1. i - 1 = 0 /\ F[0] = <<>>
        BY <1>1, <2>1 DEF Sums
      <4> QED
        BY <1>7, <4>1
    <3>2. x \o <<>> = x /\ <<>> \o x = x
      BY <1>4, ConcatEmptySeq DEF Hooks
    <3> QED
      BY <1>3, <2>1, <3>1, <3>2
  <2>2. CASE i # 1
    <3>1. PICK j \in 1..n : j = i - 1
      BY <2>2
    <3>2. /\ j \in 1..(n + 1) /\ j \in 0..n /\ j - 1 \in 0..n
          /\ j + 1 = i /\ i - 1 = j
      BY <3>1
    <3>3. K[i] = x \o F[j] /\ K[j] = x \o F[j - 1]
      BY <1>7, <3>2
    <3>4. F[j] = F[j - 1] \o s[j] /\ t[i] = s[j]
      BY <1>1, <3>2 DEF Sums
    <3>5. F[j - 1] \in Hooks /\ s[j] \in Hooks
      BY <1>5, <3>2 DEF HookLists
    <3>6. x \o (F[j - 1] \o s[j]) = (x \o F[j - 1]) \o s[j]
      BY <1>4, <3>5, HooksAssociative
    <3> QED
      BY <3>2, <3>3, <3>4, <3>6
  <2> QED
    BY <2>1, <2>2
<1>10. Sums(K, t, n + 1)
  BY <1>7, <1>9 DEF Sums
<1>11. FlattenSeq(t) = K[n + 1]
  BY <1>4, <1>8, <1>10, FlattenSums DEF HookLists
<1>12. K[n + 1] = x \o F[n]
  <2>1. n + 1 \in 1..(n + 1) /\ n + 1 - 1 = n
    OBVIOUS
  <2>2. PICK j \in 1..(n + 1) : j = n + 1
    BY <2>1
  <2>3. K[j] = x \o F[j - 1] /\ j - 1 = n
    BY <1>7, <2>2
  <2> QED
    BY <2>2, <2>3
<1> QED
  BY <1>2, <1>3, <1>11, <1>12

\* What a block adds to the hooks of the blocks around it.
LEMMA HooksGrown ==
    ASSUME NEW s, NEW t, NEW e, Grown(t, s, e), Len(s) = 0 => s = <<>>,
           \A i \in 1..Len(t) : t[i].config \in ScopeConfig
    PROVE  /\ BeforeIn(s) \in Hooks /\ BeforeIn(t) = BeforeIn(s) \o e.config.before
           /\ ObserveIn(s) \in Hooks /\ ObserveIn(t) = ObserveIn(s) \o e.config.observe
           /\ AfterIn(s) \in Hooks /\ AfterIn(t) = e.config.after \o AfterIn(s)
<1>1. PICK n \in Nat :
         /\ n = Len(s) /\ DOMAIN s = 1..n /\ DOMAIN t = 1..(n + 1)
         /\ \A i \in 1..n : t[i] = s[i]
         /\ t[n + 1] = e
         /\ \A i \in 1..(n + 1) : t[i].config \in ScopeConfig
  BY DEF Grown
<1>2. \A i \in 1..(n + 1) : /\ t[i].config.before \in Hooks /\ t[i].config.observe \in Hooks
                            /\ t[i].config.after \in Hooks
  BY <1>1 DEF ScopeConfig, Hooks
<1>3. n + 1 \in 1..(n + 1) /\ (\A i \in 1..n : i \in 1..(n + 1)) /\ n + 1 # 0
  OBVIOUS
<1>4. BeforeIn(s) \in Hooks /\ BeforeIn(t) = BeforeIn(s) \o e.config.before
  <2>1. PICK a, b : a = [i \in DOMAIN s |-> s[i].config.before] /\ b = [i \in DOMAIN t |-> t[i].config.before]
    OBVIOUS
  <2>2. HookLists(a, n) /\ HookLists(b, n + 1) /\ (\A i \in 1..n : b[i] = a[i]) /\ b[n + 1] = e.config.before
    <3>1. Len(a) = n /\ Len(b) = n + 1 /\ (n = 0 => a = <<>>)
      BY <1>1, <2>1
    <3> QED
      BY <1>1, <1>2, <1>3, <2>1, <3>1 DEF HookLists
  <2>3. FlattenSeq(a) \in Hooks /\ FlattenSeq(b) = FlattenSeq(a) \o b[n + 1]
    BY <2>2, FlattenAppended
  <2> QED
    BY <2>1, <2>2, <2>3 DEF BeforeIn
<1>5. ObserveIn(s) \in Hooks /\ ObserveIn(t) = ObserveIn(s) \o e.config.observe
  <2>1. PICK a, b : a = [i \in DOMAIN s |-> s[i].config.observe] /\ b = [i \in DOMAIN t |-> t[i].config.observe]
    OBVIOUS
  <2>2. HookLists(a, n) /\ HookLists(b, n + 1) /\ (\A i \in 1..n : b[i] = a[i]) /\ b[n + 1] = e.config.observe
    <3>1. Len(a) = n /\ Len(b) = n + 1 /\ (n = 0 => a = <<>>)
      BY <1>1, <2>1
    <3> QED
      BY <1>1, <1>2, <1>3, <2>1, <3>1 DEF HookLists
  <2>3. FlattenSeq(a) \in Hooks /\ FlattenSeq(b) = FlattenSeq(a) \o b[n + 1]
    BY <2>2, FlattenAppended
  <2> QED
    BY <2>1, <2>2, <2>3 DEF ObserveIn
<1>6. AfterIn(s) \in Hooks /\ AfterIn(t) = e.config.after \o AfterIn(s)
  <2>1. PICK a, b : a = [i \in DOMAIN s |-> s[i].config.after] /\ b = [i \in DOMAIN t |-> t[i].config.after]
    OBVIOUS
  <2>2. /\ Len(a) = n /\ Len(b) = n + 1 /\ (\A i \in 1..n : a[i] = t[i].config.after)
        /\ \A i \in 1..(n + 1) : b[i] = t[i].config.after
    BY <1>1, <2>1
  <2>3. PICK ra, rb : ra = Reverse(a) /\ rb = Reverse(b)
    OBVIOUS
  <2>4. ra = [i \in 1..n |-> a[n - i + 1]] /\ rb = [i \in 1..(n + 1) |-> b[n + 1 - i + 1]]
    BY <2>2, <2>3 DEF Reverse
  <2>5. Len(ra) = n /\ Len(rb) = n + 1 /\ (n = 0 => ra = <<>>)
    BY <2>4
  <2>6. ASSUME NEW i \in 1..n
        PROVE  ra[i] = t[n - i + 1].config.after /\ rb[i + 1] = ra[i] /\ n - i + 1 \in 1..(n + 1)
    <3>1. n - i + 1 \in 1..n /\ i + 1 \in 1..(n + 1) /\ n + 1 - (i + 1) + 1 = n - i + 1
          /\ n - i + 1 \in 1..(n + 1)
      OBVIOUS
    <3>2. ra[i] = a[n - i + 1] /\ rb[i + 1] = b[n - i + 1]
      BY <2>4, <3>1
    <3> QED
      BY <2>2, <3>1, <3>2
  <2>7. rb[1] = e.config.after
    <3>1. 1 \in 1..(n + 1) /\ n + 1 - 1 + 1 = n + 1
      OBVIOUS
    <3> QED
      BY <1>1, <1>3, <2>2, <2>4, <3>1
  <2>8. ASSUME NEW i \in 1..(n + 1) PROVE rb[i] \in Hooks
    <3>1. CASE i = 1
      BY <1>1, <1>2, <1>3, <2>7, <3>1
    <3>2. CASE i # 1
      <4>1. PICK j \in 1..n : i = j + 1
        <5>1. i - 1 \in 1..n /\ i = i - 1 + 1
          BY <3>2
        <5> QED
          BY <5>1
      <4> QED
        BY <1>2, <2>6, <4>1
    <3> QED
      BY <3>1, <3>2
  <2>9. HookLists(ra, n) /\ HookLists(rb, n + 1)
    BY <1>2, <1>3, <2>5, <2>6, <2>8 DEF HookLists
  <2>10. FlattenSeq(ra) \in Hooks /\ FlattenSeq(rb) = rb[1] \o FlattenSeq(ra)
    BY <2>6, <2>9, FlattenPrepended
  <2> QED
    BY <2>1, <2>3, <2>7, <2>10 DEF AfterIn
<1> QED
  BY <1>4, <1>5, <1>6, SMTT(30)

-----------------------------------------------------------------------------
(* What a block adds to what the blocks around it say. *)

Top(D) == CHOOSE i \in D : \A j \in D : j <= i

LEMMA TopGrown ==
    ASSUME NEW n \in Nat, NEW D, D \subseteq 1..n, NEW E, E \subseteq 1..(n + 1)
    PROVE  /\ n + 1 \in E => E # {} /\ Top(E) = n + 1
           /\ E = D /\ D # {} => Top(E) = Top(D) /\ Top(D) \in D
<1>1. ASSUME n + 1 \in E PROVE Top(E) = n + 1
  <2>1. \A j \in E : j <= n + 1
    OBVIOUS
  <2>2. Top(E) \in E /\ \A j \in E : j <= Top(E)
    BY <1>1, <2>1 DEF Top
  <2>3. Top(E) \in 1..(n + 1) /\ n + 1 <= Top(E)
    BY <1>1, <2>2
  <2> QED
    BY <2>3
<1>2. ASSUME D # {} PROVE Top(D) \in D
  <2>1. D \subseteq 0..n
    OBVIOUS
  <2>2. \E i \in D : \A j \in D : j <= i
    BY <1>2, <2>1, NatMax
  <2> QED
    BY <2>2 DEF Top
<1> QED
  BY <1>1, <1>2

LEMMA TimeoutGrown ==
    ASSUME NEW s, NEW t, NEW e, Grown(t, s, e)
    PROVE  TimeoutIn(t) = IF e.config.timeout = 0 THEN TimeoutIn(s) ELSE e.config.timeout
<1> DEFINE D(q) == {i \in DOMAIN q : q[i].config.timeout # 0}
<1>1. \A q : TimeoutIn(q) = IF D(q) = {} THEN 0 ELSE q[Top(D(q))].config.timeout
  BY DEF TimeoutIn, Innermost, Top
<1>2. PICK n \in Nat : /\ n = Len(s) /\ DOMAIN s = 1..n /\ DOMAIN t = 1..(n + 1)
                       /\ (\A i \in 1..n : t[i] = s[i]) /\ t[n + 1] = e
  BY DEF Grown
<1>3. D(s) \subseteq 1..n /\ D(t) \subseteq 1..(n + 1)
  BY <1>2
<1>4. CASE e.config.timeout = 0
  <2>1. D(t) = D(s)
    <3>1. \A i \in 1..(n + 1) : i \in D(t) => i \in D(s)
      <4>1. \A i \in 1..(n + 1) : i = n + 1 \/ i \in 1..n
        OBVIOUS
      <4> QED
        BY <1>2, <1>4, <4>1
    <3>2. \A i \in 1..n : i \in D(s) => i \in D(t)
      BY <1>2
    <3> QED
      BY <1>3, <3>1, <3>2
  <2> HIDE DEF D
  <2>2. D(s) # {} => Top(D(t)) = Top(D(s)) /\ Top(D(s)) \in 1..n
    BY <1>3, <2>1, TopGrown
  <2> QED
    BY <1>1, <1>2, <1>4, <2>1, <2>2
<1>5. CASE e.config.timeout # 0
  <2>1. n + 1 \in D(t)
    BY <1>2, <1>5
  <2> HIDE DEF D
  <2>2. D(t) # {} /\ Top(D(t)) = n + 1
    BY <1>3, <2>1, TopGrown
  <2> QED
    BY <1>1, <1>2, <1>5, <2>2
<1> QED
  BY <1>4, <1>5

LEMMA CatalogueGrown ==
    ASSUME NEW s, NEW t, NEW e, Grown(t, s, e)
    PROVE  CatalogueIn(t) = IF e.config.catalogue = "none" THEN CatalogueIn(s) ELSE e.config.catalogue
<1> DEFINE D(q) == {i \in DOMAIN q : q[i].config.catalogue # "none"}
<1>1. \A q : CatalogueIn(q) = IF D(q) = {} THEN "none" ELSE q[Top(D(q))].config.catalogue
  BY DEF CatalogueIn, Innermost, Top
<1>2. PICK n \in Nat : /\ n = Len(s) /\ DOMAIN s = 1..n /\ DOMAIN t = 1..(n + 1)
                       /\ (\A i \in 1..n : t[i] = s[i]) /\ t[n + 1] = e
  BY DEF Grown
<1>3. D(s) \subseteq 1..n /\ D(t) \subseteq 1..(n + 1)
  BY <1>2
<1>4. CASE e.config.catalogue = "none"
  <2>1. D(t) = D(s)
    <3>1. \A i \in 1..(n + 1) : i \in D(t) => i \in D(s)
      <4>1. \A i \in 1..(n + 1) : i = n + 1 \/ i \in 1..n
        OBVIOUS
      <4> QED
        BY <1>2, <1>4, <4>1
    <3>2. \A i \in 1..n : i \in D(s) => i \in D(t)
      BY <1>2
    <3> QED
      BY <1>3, <3>1, <3>2
  <2> HIDE DEF D
  <2>2. D(s) # {} => Top(D(t)) = Top(D(s)) /\ Top(D(s)) \in 1..n
    BY <1>3, <2>1, TopGrown
  <2> QED
    BY <1>1, <1>2, <1>4, <2>1, <2>2
<1>5. CASE e.config.catalogue # "none"
  <2>1. n + 1 \in D(t)
    BY <1>2, <1>5
  <2> HIDE DEF D
  <2>2. D(t) # {} /\ Top(D(t)) = n + 1
    BY <1>3, <2>1, TopGrown
  <2> QED
    BY <1>1, <1>2, <1>5, <2>2
<1> QED
  BY <1>4, <1>5

LEMMA ExecutableGrown ==
    ASSUME NEW s, NEW t, NEW e, Grown(t, s, e), NEW p
    PROVE  ExecutableIn(t, p) = IF p \in DOMAIN e.config.bind THEN e.config.bind[p] ELSE ExecutableIn(s, p)
<1> DEFINE D(q) == {i \in DOMAIN q : p \in DOMAIN q[i].config.bind}
<1>1. \A q : ExecutableIn(q, p) = IF D(q) = {} THEN p ELSE q[Top(D(q))].config.bind[p]
  BY DEF ExecutableIn, Innermost, Top
<1>2. PICK n \in Nat : /\ n = Len(s) /\ DOMAIN s = 1..n /\ DOMAIN t = 1..(n + 1)
                       /\ (\A i \in 1..n : t[i] = s[i]) /\ t[n + 1] = e
  BY DEF Grown
<1>3. D(s) \subseteq 1..n /\ D(t) \subseteq 1..(n + 1)
  BY <1>2
<1>4. CASE p \notin DOMAIN e.config.bind
  <2>1. D(t) = D(s)
    <3>1. \A i \in 1..(n + 1) : i \in D(t) => i \in D(s)
      <4>1. \A i \in 1..(n + 1) : i = n + 1 \/ i \in 1..n
        OBVIOUS
      <4> QED
        BY <1>2, <1>4, <4>1
    <3>2. \A i \in 1..n : i \in D(s) => i \in D(t)
      BY <1>2
    <3> QED
      BY <1>3, <3>1, <3>2
  <2> HIDE DEF D
  <2>2. D(s) # {} => Top(D(t)) = Top(D(s)) /\ Top(D(s)) \in 1..n
    BY <1>3, <2>1, TopGrown
  <2> QED
    BY <1>1, <1>2, <1>4, <2>1, <2>2
<1>5. CASE p \in DOMAIN e.config.bind
  <2>1. n + 1 \in D(t)
    BY <1>2, <1>5
  <2> HIDE DEF D
  <2>2. D(t) # {} /\ Top(D(t)) = n + 1
    BY <1>3, <2>1, TopGrown
  <2> QED
    BY <1>1, <1>2, <1>5, <2>2
<1> QED
  BY <1>4, <1>5

Shown(v) == IF v = "unset" THEN "absent" ELSE v

LEMMA EnvironmentGrown ==
    ASSUME NEW s, NEW t, NEW e, Grown(t, s, e), NEW k
    PROVE  EnvironmentIn(t, k) = IF k \in DOMAIN e.config.set THEN Shown(e.config.set[k])
                                 ELSE IF e.config.replace THEN "absent"
                                 ELSE EnvironmentIn(s, k)
<1> DEFINE R(q) == {i \in DOMAIN q : q[i].config.replace}
           D(q) == {i \in DOMAIN q : k \in DOMAIN q[i].config.set /\ \A j \in R(q) : j <= i}
<1>1. \A q : EnvironmentIn(q, k) = IF D(q) # {} THEN Shown(q[Top(D(q))].config.set[k])
                                   ELSE IF R(q) # {} THEN "absent" ELSE "inherited"
  BY DEF EnvironmentIn, Top, Shown
<1>2. PICK n \in Nat : /\ n = Len(s) /\ DOMAIN s = 1..n /\ DOMAIN t = 1..(n + 1)
                       /\ (\A i \in 1..n : t[i] = s[i]) /\ t[n + 1] = e
  BY DEF Grown
<1>3. /\ R(s) \subseteq 1..n /\ R(t) \subseteq 1..(n + 1)
      /\ D(s) \subseteq 1..n /\ D(t) \subseteq 1..(n + 1)
  BY <1>2
<1>4. \A i \in 1..(n + 1) : i = n + 1 \/ (i \in 1..n /\ i # n + 1)
  OBVIOUS
<1>5. n + 1 \in 1..(n + 1) /\ \A i \in 1..n : i \in 1..(n + 1)
  OBVIOUS
<1>6. /\ \A i \in 1..n : i \in R(t) <=> i \in R(s)
      /\ n + 1 \in R(t) <=> e.config.replace
  BY <1>2, <1>5
<1>7. CASE k \in DOMAIN e.config.set
  <2>1. \A j \in 1..(n + 1) : j <= n + 1
    OBVIOUS
  <2>2. n + 1 \in D(t)
    BY <1>2, <1>3, <1>5, <1>7, <2>1
  <2> HIDE DEF D, R
  <2>3. D(t) # {} /\ Top(D(t)) = n + 1
    BY <1>3, <2>2, TopGrown
  <2> QED
    BY <1>1, <1>2, <1>7, <2>3
<1>8. CASE k \notin DOMAIN e.config.set /\ e.config.replace
  <2>1. n + 1 \in R(t)
    BY <1>6, <1>8
  <2>2. \A i \in 1..n : ~ (n + 1 <= i)
    OBVIOUS
  <2>3. \A i \in 1..(n + 1) : i \notin D(t)
    BY <1>2, <1>4, <1>8, <2>1, <2>2
  <2>4. D(t) = {}
    BY <1>3, <2>3
  <2> HIDE DEF D, R
  <2> QED
    BY <1>1, <1>8, <2>1, <2>4
<1>9. CASE k \notin DOMAIN e.config.set /\ ~ e.config.replace
  <2>1. R(t) = R(s)
    <3> HIDE DEF R, D
    <3> QED
      BY <1>3, <1>4, <1>5, <1>6, <1>9
  <2>2. \A i \in 1..n : i \in D(t) <=> i \in D(s)
    <3> HIDE DEF R
    <3> QED
      BY <1>2, <1>5, <2>1
  <2>3. n + 1 \notin D(t)
    BY <1>2, <1>9
  <2> HIDE DEF R, D
  <2>4. D(t) = D(s)
    BY <1>3, <1>4, <1>5, <2>2, <2>3
  <2>5. D(s) # {} => Top(D(t)) = Top(D(s)) /\ Top(D(s)) \in 1..n
    BY <1>3, <2>4, TopGrown
  <2> QED
    BY <1>1, <1>2, <1>9, <2>1, <2>4, <2>5
<1> QED
  BY <1>7, <1>8, <1>9

ListsIt(b) == IF b.kind = "allow" THEN b.progs # {} ELSE b.listed
Listing(open) == {i \in DOMAIN open : ListsIt(open[i].config)}

LEMMA ListingGrown ==
    ASSUME NEW s, NEW t, NEW e, Grown(t, s, e)
    PROVE  Listing(t) # {} <=> Listing(s) # {} \/ ListsIt(e.config)
<1>1. PICK n \in Nat : /\ n = Len(s) /\ DOMAIN s = 1..n /\ DOMAIN t = 1..(n + 1)
                       /\ (\A i \in 1..n : t[i] = s[i]) /\ t[n + 1] = e
  BY DEF Grown
<1>2. /\ \A i \in 1..(n + 1) : i = n + 1 \/ i \in 1..n
      /\ n + 1 \in 1..(n + 1) /\ \A i \in 1..n : i \in 1..(n + 1)
  OBVIOUS
<1> QED
  BY <1>1, <1>2 DEF Listing

\* The last of the blocks decides, grants more, or takes away.
LEMMA PermittedGrown ==
    ASSUME NEW s, NEW t, NEW e, Grown(t, s, e), NEW p
    PROVE  PermittedIn(t, p) <=>
              IF ~ ListsIt(e.config) THEN PermittedIn(s, p)
              ELSE IF Listing(s) = {} THEN p \in e.config.progs
              ELSE IF e.config.kind = "allow" THEN PermittedIn(s, p) \/ p \in e.config.progs
              ELSE PermittedIn(s, p) /\ p \in e.config.progs
<1> DEFINE Grants(q, i) ==
             /\ p \in q[i].config.progs
             /\ q[i].config.kind = "allow" \/ \A j \in Listing(q) : i <= j
             /\ \A j \in Listing(q) : j > i /\ q[j].config.kind # "allow" => p \in q[j].config.progs
<1>1. \A q : PermittedIn(q, p) <=> Listing(q) = {} \/ \E i \in Listing(q) : Grants(q, i)
  BY DEF PermittedIn, Listing, ListsIt
<1>2. PICK n \in Nat : /\ n = Len(s) /\ DOMAIN s = 1..n /\ DOMAIN t = 1..(n + 1)
                       /\ (\A i \in 1..n : t[i] = s[i]) /\ t[n + 1] = e
  BY DEF Grown
<1>3. /\ \A i \in 1..(n + 1) : i = n + 1 \/ i \in 1..n
      /\ n + 1 \in 1..(n + 1) /\ \A i \in 1..n : i \in 1..(n + 1) /\ i < n + 1 /\ i <= n + 1 /\ ~ (n + 1 <= i)
  OBVIOUS
<1>4. /\ Listing(s) \subseteq 1..n /\ Listing(t) \subseteq 1..(n + 1)
      /\ \A i \in 1..n : i \in Listing(t) <=> i \in Listing(s)
      /\ n + 1 \in Listing(t) <=> ListsIt(e.config)
  BY <1>2, <1>3 DEF Listing
<1>5. CASE ~ ListsIt(e.config)
  <2>1. Listing(t) = Listing(s)
    BY <1>3, <1>4, <1>5
  <2>2. \A i \in Listing(s) : Grants(t, i) <=> Grants(s, i)
    BY <1>2, <1>4, <2>1
  <2> HIDE DEF Grants
  <2> QED
    BY <1>1, <1>5, <2>1, <2>2
<1>6. CASE ListsIt(e.config)
  <2>1. Listing(t) # {} /\ n + 1 \in Listing(t) /\ Listing(s) \subseteq Listing(t)
        /\ \A i \in Listing(t) : i = n + 1 \/ i \in Listing(s)
    BY <1>3, <1>4, <1>6
  <2>2. Grants(t, n + 1) <=> /\ p \in e.config.progs
                             /\ e.config.kind = "allow" \/ Listing(s) = {}
    <3>1. \A j \in Listing(t) : ~ (j > n + 1)
      BY <1>4
    <3>2. (\A j \in Listing(t) : n + 1 <= j) <=> Listing(s) = {}
      BY <1>3, <1>4, <2>1
    <3> QED
      BY <1>2, <3>1, <3>2
  <2>3. ASSUME NEW i \in Listing(s)
        PROVE  Grants(t, i) <=> Grants(s, i) /\ (e.config.kind # "allow" => p \in e.config.progs)
    <3>1. i \in 1..n /\ t[i] = s[i] /\ i <= n + 1 /\ n + 1 > i
      BY <1>2, <1>3, <1>4
    <3>2. (\A j \in Listing(t) : i <= j) <=> (\A j \in Listing(s) : i <= j)
      BY <2>1, <3>1
    <3>3. (\A j \in Listing(t) : j > i /\ t[j].config.kind # "allow" => p \in t[j].config.progs)
            <=> /\ \A j \in Listing(s) : j > i /\ s[j].config.kind # "allow" => p \in s[j].config.progs
                /\ e.config.kind # "allow" => p \in e.config.progs
      BY <1>2, <1>4, <2>1, <3>1
    <3> QED
      BY <3>1, <3>2, <3>3
  <2> HIDE DEF Grants
  <2>4. PermittedIn(t, p) <=> Grants(t, n + 1) \/ \E i \in Listing(s) : Grants(t, i)
    BY <1>1, <2>1
  <2>5. CASE Listing(s) = {}
    BY <1>6, <2>2, <2>4, <2>5
  <2>6. CASE Listing(s) # {}
    <3>1. PermittedIn(s, p) <=> \E i \in Listing(s) : Grants(s, i)
      BY <1>1, <2>6
    <3> QED
      BY <1>6, <2>2, <2>3, <2>4, <2>6, <3>1
  <2> QED
    BY <2>5, <2>6
<1> QED
  BY <1>5, <1>6

-----------------------------------------------------------------------------
(* A context that says what the open blocks say. *)

ContextFields == {"allow", "restricted", "set", "replace", "before", "after", "observe", "bind",
                  "timeout", "catalogue"}

Agrees(c, open) ==
    /\ DOMAIN c = ContextFields
    /\ c.before \in Hooks /\ c.after \in Hooks /\ c.observe \in Hooks
    /\ c.restricted <=> Listing(open) # {}
    /\ ~ c.restricted => c.allow = {}
    /\ \A p \in Programs : /\ CheckAllowed(c, p) <=> PermittedIn(open, p)
                           /\ ExecutableBinding(c, p) = ExecutableIn(open, p)
    /\ \A k \in Keys : Rendered(c, k) = EnvironmentIn(open, k)
    /\ c.before = BeforeIn(open) /\ c.after = AfterIn(open) /\ c.observe = ObserveIn(open)
    /\ c.timeout = TimeoutIn(open) /\ c.catalogue = CatalogueIn(open)

\* How a configuration b turns the context c into d.
Effect(d, c, b) ==
    /\ DOMAIN d = ContextFields
    /\ d.restricted <=> c.restricted \/ ListsIt(b)
    /\ d.allow = IF ~ ListsIt(b) THEN c.allow
                 ELSE IF b.kind = "allow" THEN c.allow \cup b.progs
                 ELSE IF ~ c.restricted THEN b.progs
                 ELSE c.allow \cap b.progs
    /\ \A p \in Programs : ExecutableBinding(d, p) = IF p \in DOMAIN b.bind THEN b.bind[p]
                                                     ELSE ExecutableBinding(c, p)
    /\ \A k \in Keys : Rendered(d, k) = IF k \in DOMAIN b.set THEN Shown(b.set[k])
                                        ELSE IF b.replace THEN "absent" ELSE Rendered(c, k)
    /\ d.before = c.before \o b.before /\ d.after = b.after \o c.after
    /\ d.observe = c.observe \o b.observe
    /\ d.timeout = IF b.timeout = 0 THEN c.timeout ELSE b.timeout
    /\ d.catalogue = IF b.catalogue = "none" THEN c.catalogue ELSE b.catalogue

LEMMA AgreesGrown ==
    ASSUME NEW s, NEW t, NEW e, Grown(t, s, e), Len(s) = 0 => s = <<>>,
           \A i \in 1..Len(t) : t[i].config \in ScopeConfig,
           NEW c, Agrees(c, s), NEW d, Effect(d, c, e.config)
    PROVE  Agrees(d, t)
<1> DEFINE b == e.config
<1>1. d.restricted <=> Listing(t) # {}
  BY ListingGrown DEF Agrees, Effect
<1>2. ~ d.restricted => d.allow = {}
  BY DEF Agrees, Effect
<1>3. ASSUME NEW p \in Programs PROVE CheckAllowed(d, p) <=> PermittedIn(t, p)
  <2>1. CheckAllowed(c, p) <=> PermittedIn(s, p)
    BY DEF Agrees
  <2>2. CheckAllowed(c, p) <=> ~ c.restricted \/ p \in c.allow
    BY DEF Agrees, CheckAllowed
  <2>3. CheckAllowed(d, p) <=> ~ d.restricted \/ p \in d.allow
    BY <1>2 DEF CheckAllowed
  <2>4. PermittedIn(t, p) <=>
              IF ~ ListsIt(b) THEN PermittedIn(s, p)
              ELSE IF Listing(s) = {} THEN p \in b.progs
              ELSE IF b.kind = "allow" THEN PermittedIn(s, p) \/ p \in b.progs
              ELSE PermittedIn(s, p) /\ p \in b.progs
    BY PermittedGrown
  <2>5. /\ c.restricted <=> Listing(s) # {}
        /\ ~ c.restricted => c.allow = {}
        /\ d.restricted <=> c.restricted \/ ListsIt(b)
        /\ d.allow = IF ~ ListsIt(b) THEN c.allow
                     ELSE IF b.kind = "allow" THEN c.allow \cup b.progs
                     ELSE IF ~ c.restricted THEN b.progs
                     ELSE c.allow \cap b.progs
    BY DEF Agrees, Effect
  <2> HIDE DEF b
  <2>6. CASE ~ ListsIt(b)
    BY <2>1, <2>2, <2>3, <2>4, <2>5, <2>6
  <2>7. CASE ListsIt(b) /\ Listing(s) = {}
    BY <2>1, <2>2, <2>3, <2>4, <2>5, <2>7
  <2>8. CASE ListsIt(b) /\ Listing(s) # {}
    BY <2>1, <2>2, <2>3, <2>4, <2>5, <2>8
  <2> QED
    BY <2>6, <2>7, <2>8
<1>4. ASSUME NEW p \in Programs PROVE ExecutableBinding(d, p) = ExecutableIn(t, p)
  <2>1. ExecutableIn(t, p) = IF p \in DOMAIN b.bind THEN b.bind[p] ELSE ExecutableIn(s, p)
    BY ExecutableGrown
  <2> QED
    BY <2>1 DEF Agrees, Effect
<1>5. ASSUME NEW k \in Keys PROVE Rendered(d, k) = EnvironmentIn(t, k)
  <2>1. EnvironmentIn(t, k) = IF k \in DOMAIN b.set THEN Shown(b.set[k])
                              ELSE IF b.replace THEN "absent" ELSE EnvironmentIn(s, k)
    BY EnvironmentGrown
  <2> QED
    BY <2>1 DEF Agrees, Effect
<1>6. d.before = BeforeIn(t) /\ d.after = AfterIn(t) /\ d.observe = ObserveIn(t)
  <2>1. /\ BeforeIn(t) = BeforeIn(s) \o b.before /\ ObserveIn(t) = ObserveIn(s) \o b.observe
        /\ AfterIn(t) = b.after \o AfterIn(s)
    BY HooksGrown
  <2>2. /\ c.before = BeforeIn(s) /\ c.after = AfterIn(s) /\ c.observe = ObserveIn(s)
        /\ d.before = c.before \o b.before /\ d.after = b.after \o c.after
        /\ d.observe = c.observe \o b.observe
    BY DEF Agrees, Effect
  <2> QED
    BY <2>1, <2>2
<1>7. d.timeout = TimeoutIn(t) /\ d.catalogue = CatalogueIn(t)
  BY TimeoutGrown, CatalogueGrown DEF Agrees, Effect
<1>8. DOMAIN d = ContextFields
  BY DEF Effect
<1> HIDE DEF b
<1>9. d.before \in Hooks /\ d.after \in Hooks /\ d.observe \in Hooks
  <2>1. b.before \in Hooks /\ b.after \in Hooks /\ b.observe \in Hooks
    <3>1. b \in ScopeConfig
      BY DEF Grown, b
    <3> QED
      BY <3>1 DEF ScopeConfig, Hooks
  <2>2. /\ c.before \in Hooks /\ c.after \in Hooks /\ c.observe \in Hooks
        /\ d.before = c.before \o b.before /\ d.after = b.after \o c.after
        /\ d.observe = c.observe \o b.observe
    BY DEF Agrees, Effect, b
  <2> QED
    BY <2>1, <2>2, ConcatProperties DEF Hooks
<1> QED
  BY <1>1, <1>2, <1>3, <1>4, <1>5, <1>6, <1>7, <1>8, <1>9 DEF Agrees

-----------------------------------------------------------------------------
(* What entering a scope or attaching a handle does to the context. *)

Renders(d, c, b, k) == Rendered(d, k) = IF k \in DOMAIN b.set THEN Shown(b.set[k])
                                        ELSE IF b.replace THEN "absent" ELSE Rendered(c, k)

LEMMA EnvResolved ==
    ASSUME NEW c, NEW d, NEW b, NEW k, d.set = ResolveEnv(c, b).set,
           d.replace = ResolveEnv(c, b).replace
    PROVE  Renders(d, c, b, k)
<1>1. /\ d.set = IF b.replace THEN b.set ELSE MergeOverlays(c.set, b.set)
      /\ d.replace = (b.replace \/ c.replace)
  BY DEF ResolveEnv
<1>2. PICK m : m = MergeOverlays(c.set, b.set)
  OBVIOUS
<1>3. /\ k \in DOMAIN m <=> k \in DOMAIN c.set \/ k \in DOMAIN b.set
      /\ k \in DOMAIN b.set => m[k] = b.set[k]
      /\ k \notin DOMAIN b.set /\ k \in DOMAIN c.set => m[k] = c.set[k]
  BY <1>2 DEF MergeOverlays
<1>4. CASE b.replace
  BY <1>1, <1>4 DEF Renders, Rendered, Shown
<1>5. CASE ~ b.replace
  BY <1>1, <1>2, <1>3, <1>5 DEF Renders, Rendered, Shown
<1> QED
  BY <1>4, <1>5

LEMMA BindingMerged ==
    ASSUME NEW c, NEW d, NEW b, NEW p, d.bind = MergeOverlays(c.bind, b.bind)
    PROVE  ExecutableBinding(d, p) = IF p \in DOMAIN b.bind THEN b.bind[p]
                                     ELSE ExecutableBinding(c, p)
<1>1. PICK m : m = MergeOverlays(c.bind, b.bind)
  OBVIOUS
<1>2. /\ p \in DOMAIN m <=> p \in DOMAIN c.bind \/ p \in DOMAIN b.bind
      /\ p \in DOMAIN b.bind => m[p] = b.bind[p]
      /\ p \notin DOMAIN b.bind /\ p \in DOMAIN c.bind => m[p] = c.bind[p]
  BY <1>1 DEF MergeOverlays
<1> QED
  BY <1>1, <1>2 DEF ExecutableBinding

\* What a registration or a scope may find around it.
Context(c) == /\ DOMAIN c = ContextFields
              /\ c.before \in Hooks /\ c.after \in Hooks /\ c.observe \in Hooks
              /\ ~ c.restricted => c.allow = {}

LEMMA NarrowEffect ==
    ASSUME NEW c, Context(c), NEW b, b \in ScopeConfig, b.kind = "scope"
    PROVE  Effect(Narrow(c, b), c, b)
<1>1. PICK d : d = Narrow(c, b)
  OBVIOUS
<1>2. /\ DOMAIN d = ContextFields
      /\ d.allow = NarrowAllowlist(c, b) /\ d.restricted = (c.restricted \/ b.listed)
      /\ d.before = c.before \o b.before /\ d.after = b.after \o c.after
      /\ d.observe = c.observe \o b.observe /\ d.bind = MergeOverlays(c.bind, b.bind)
      /\ d.timeout = NarrowedTimeout(c, b) /\ d.catalogue = NarrowedCatalogue(c, b)
      /\ d.set = ResolveEnv(c, b).set /\ d.replace = ResolveEnv(c, b).replace
  BY <1>1 DEF Narrow, NarrowedIsRestricted, ContextFields
<1>3. ListsIt(b) <=> b.listed
  BY DEF ListsIt
<1>4. NarrowAllowlist(c, b) = IF ~ b.listed THEN c.allow
                              ELSE IF ~ c.restricted THEN b.progs ELSE c.allow \cap b.progs
  BY DEF NarrowAllowlist, Context
<1>5. \A p \in Programs : ExecutableBinding(d, p) = IF p \in DOMAIN b.bind THEN b.bind[p]
                                                   ELSE ExecutableBinding(c, p)
  BY <1>2, BindingMerged
<1>6. \A k \in Keys : Renders(d, c, b, k)
  BY <1>2, EnvResolved
<1>7. /\ d.timeout = IF b.timeout = 0 THEN c.timeout ELSE b.timeout
      /\ d.catalogue = IF b.catalogue = "none" THEN c.catalogue ELSE b.catalogue
  BY <1>2 DEF NarrowedTimeout, NarrowedCatalogue
<1>8. /\ d.restricted <=> c.restricted \/ ListsIt(b)
      /\ d.allow = IF ~ ListsIt(b) THEN c.allow
                   ELSE IF b.kind = "allow" THEN c.allow \cup b.progs
                   ELSE IF ~ c.restricted THEN b.progs
                   ELSE c.allow \cap b.progs
  BY <1>2, <1>3, <1>4
<1> QED
  BY <1>1, <1>2, <1>5, <1>6, <1>7, <1>8 DEF Effect, Renders

IsHandle(h) == /\ h \in ScopeConfig /\ h.kind \in Registrations
               /\ \A f \in DOMAIN Plain \ (Carries[h.kind] \cup {"kind"}) : h[f] = Plain[f]

LEMMA HandleEffect ==
    ASSUME NEW c, Context(c), NEW h, IsHandle(h)
    PROVE  Effect(Last(Installed(c, h)), c, h)
<1>1. PICK d : d = Last(Installed(c, h))
  OBVIOUS
<1>2. /\ h.timeout = 0 /\ h.catalogue = "none" /\ h.listed = FALSE
      /\ h.kind # "env" => h.set = <<>> /\ h.replace = FALSE
      /\ h.kind # "bind" => h.bind = <<>>
      /\ h.kind \notin {"before", "logging"} => h.before = <<>>
      /\ h.kind \notin {"after", "logging"} => h.after = <<>>
      /\ h.kind # "observe" => h.observe = <<>>
  BY DEF IsHandle, Plain, Carries, Registrations
<1>3. DOMAIN <<>> = {}
  OBVIOUS
<1>4. /\ c.before \o <<>> = c.before /\ c.observe \o <<>> = c.observe /\ <<>> \o c.after = c.after
  BY ConcatEmptySeq DEF Context, Hooks
<1>5. DOMAIN c = ContextFields
  BY DEF Context
<1>6. \A a, e : Last(<<a>>) = a /\ Last(<<a, e>>) = e
  BY DEF Last
<1>7. h.kind \in Registrations
  BY DEF IsHandle
<1>8. CASE h.kind = "allow"
  <2>1. d = WithAllowlist(c, c.allow \cup h.progs)
    BY <1>1, <1>6, <1>8 DEF Installed
  <2>2. /\ DOMAIN d = ContextFields
        /\ d.allow = c.allow \cup h.progs
        /\ d.restricted <=> c.restricted \/ c.allow # {} \/ c.allow \cup h.progs # {}
        /\ d.set = c.set /\ d.replace = c.replace /\ d.bind = c.bind
        /\ d.before = c.before /\ d.after = c.after /\ d.observe = c.observe
        /\ d.timeout = c.timeout /\ d.catalogue = c.catalogue
    BY <1>5, <2>1 DEF WithAllowlist, ContextFields
  <2>3. /\ d.restricted <=> c.restricted \/ ListsIt(h)
        /\ d.allow = IF ~ ListsIt(h) THEN c.allow ELSE c.allow \cup h.progs
    BY <1>8, <2>2 DEF Context, ListsIt
  <2> QED
    BY <1>1, <1>2, <1>3, <1>4, <1>8, <2>2, <2>3 DEF Effect, ExecutableBinding, Rendered
<1>9. ~ (h.kind = "allow") => ~ ListsIt(h)
  BY <1>2 DEF ListsIt
<1>10. CASE h.kind = "env"
  <2>1. d = WithEnvOverlay(c, h)
    BY <1>1, <1>6, <1>10 DEF Installed
  <2>2. /\ DOMAIN d = ContextFields
        /\ d.allow = c.allow /\ d.restricted = c.restricted
        /\ d.set = ResolveEnv(c, h).set /\ d.replace = ResolveEnv(c, h).replace /\ d.bind = c.bind
        /\ d.before = c.before /\ d.after = c.after /\ d.observe = c.observe
        /\ d.timeout = c.timeout /\ d.catalogue = c.catalogue
    BY <1>5, <2>1 DEF WithEnvOverlay, ContextFields
  <2>3. \A k \in Keys : Renders(d, c, h, k)
    BY <2>2, EnvResolved
  <2> QED
    BY <1>1, <1>2, <1>3, <1>4, <1>9, <1>10, <2>2, <2>3 DEF Effect, ExecutableBinding, Renders
<1>11. CASE h.kind = "bind"
  <2>1. d = WithExecutableBinding(c, h)
    BY <1>1, <1>6, <1>11 DEF Installed
  <2>2. /\ DOMAIN d = ContextFields
        /\ d.allow = c.allow /\ d.restricted = c.restricted
        /\ d.set = c.set /\ d.replace = c.replace /\ d.bind = MergeOverlays(c.bind, h.bind)
        /\ d.before = c.before /\ d.after = c.after /\ d.observe = c.observe
        /\ d.timeout = c.timeout /\ d.catalogue = c.catalogue
    BY <1>5, <2>1 DEF WithExecutableBinding, ContextFields
  <2>3. \A p \in Programs : ExecutableBinding(d, p) = IF p \in DOMAIN h.bind THEN h.bind[p]
                                                     ELSE ExecutableBinding(c, p)
    BY <2>2, BindingMerged
  <2> QED
    BY <1>1, <1>2, <1>3, <1>4, <1>9, <1>11, <2>2, <2>3 DEF Effect, Rendered
<1>12. CASE h.kind \in {"before", "after", "observe", "logging"}
  <2>1. d = IF h.kind = "before" THEN WithBeforeHook(c, h)
            ELSE IF h.kind = "after" THEN WithAfterHook(c, h)
            ELSE IF h.kind = "observe" THEN WithObserveHook(c, h)
            ELSE WithAfterHook(WithBeforeHook(c, h), h)
    BY <1>1, <1>6, <1>12 DEF Installed
  <2>2. /\ DOMAIN d = ContextFields
        /\ d.allow = c.allow /\ d.restricted = c.restricted
        /\ d.set = c.set /\ d.replace = c.replace /\ d.bind = c.bind
        /\ d.timeout = c.timeout /\ d.catalogue = c.catalogue
    BY <1>5, <2>1 DEF WithBeforeHook, WithAfterHook, WithObserveHook, ContextFields
  <2>3. /\ d.before = c.before \o h.before /\ d.after = h.after \o c.after
        /\ d.observe = c.observe \o h.observe
    BY <1>2, <1>4, <1>5, <1>12, <2>1
    DEF WithBeforeHook, WithAfterHook, WithObserveHook, ContextFields
  <2> QED
    BY <1>1, <1>2, <1>3, <1>9, <1>12, <2>2, <2>3 DEF Effect, ExecutableBinding, Rendered
<1> QED
  BY <1>7, <1>8, <1>10, <1>11, <1>12 DEF Registrations

-----------------------------------------------------------------------------
(* The blocks a task is inside of, and the values that their tokens keep. *)

First(b) == Head(b.tokens)

Sound(c, bl) ==
    /\ Sequence(bl)
    /\ \A i \in 1..Len(bl) : /\ bl[i].config \in ScopeConfig
                             /\ Agrees(First(bl[i]).old, SubSeq(bl, 1, i - 1))
    /\ Agrees(c, bl)

LEMMA Lengths ==
    ASSUME NEW s, Sequence(s)
    PROVE  Len(s) \in Nat /\ DOMAIN s = 1..Len(s) /\ (Len(s) = 0 <=> s = <<>>) /\ Last(s) = s[Len(s)]
<1>1. PICK S : s \in Seq(S)
  BY DEF Sequence
<1> QED
  BY <1>1, LenProperties, EmptySeq DEF Last

LEMMA SoundPush ==
    ASSUME NEW c, NEW bl, Sound(c, bl), NEW e, e.config \in ScopeConfig, First(e).old = c,
           NEW d, Effect(d, c, e.config), NEW t, t = Append(bl, e)
    PROVE  Sound(d, t)
<1>1. Sequence(bl) /\ Agrees(c, bl)
  BY DEF Sound
<1>2. Sequence(t) /\ Grown(t, bl, e)
  BY <1>1, Grow
<1>3. PICK n \in Nat : n = Len(bl) /\ Len(t) = n + 1 /\ t[n + 1] = e /\ \A i \in 1..n : t[i] = bl[i]
  BY <1>2 DEF Grown
<1>4. ASSUME NEW i \in 1..(n + 1)
      PROVE  t[i].config \in ScopeConfig /\ Agrees(First(t[i]).old, SubSeq(t, 1, i - 1))
  <2>1. PICK j \in 0..n : j = i - 1
    OBVIOUS
  <2>2. SubSeq(t, 1, j) = SubSeq(bl, 1, j) /\ SubSeq(t, 1, n) = bl
    BY <1>1, <1>2, <1>3, SamePrefix
  <2>3. CASE i = n + 1
    <3>1. j = n /\ t[i] = e
      BY <1>3, <2>1, <2>3
    <3> QED
      BY <1>1, <2>1, <2>2, <3>1
  <2>4. CASE i \in 1..n
    BY <1>3, <2>1, <2>2, <2>4 DEF Sound
  <2>5. i = n + 1 \/ i \in 1..n
    OBVIOUS
  <2> QED
    BY <2>3, <2>4, <2>5
<1>5. Agrees(d, t)
  <2>1. (Len(bl) = 0 => bl = <<>>) /\ \A i \in 1..Len(t) : t[i].config \in ScopeConfig
    BY <1>1, <1>3, <1>4, Lengths
  <2> QED
    BY <1>1, <1>2, <2>1, AgreesGrown
<1> QED
  BY <1>2, <1>3, <1>4, <1>5 DEF Sound

LEMMA SoundPop ==
    ASSUME NEW c, NEW bl, Sound(c, bl), bl # <<>>, NEW t, t = Front(bl)
    PROVE  Sound(First(Last(bl)).old, t)
<1>1. Sequence(bl)
  BY DEF Sound
<1>2. Sequence(t) /\ Grown(bl, t, Last(bl))
  BY <1>1, Shrink, SMTT(30)
<1>3. PICK n \in Nat : n = Len(t) /\ Len(bl) = n + 1 /\ bl[n + 1] = Last(bl)
                       /\ \A i \in 1..n : bl[i] = t[i]
  BY <1>2 DEF Grown
<1>4. ASSUME NEW i \in 1..(n + 1) PROVE SubSeq(bl, 1, i - 1) = SubSeq(t, 1, i - 1) /\ SubSeq(bl, 1, n) = t
  <2>1. PICK j \in 0..n : j = i - 1
    OBVIOUS
  <2> QED
    BY <1>1, <1>2, <1>3, <2>1, SamePrefix
<1>5. n + 1 \in 1..(n + 1) /\ n + 1 - 1 = n /\ \A i \in 1..n : i \in 1..(n + 1)
  OBVIOUS
<1>6. Agrees(First(Last(bl)).old, t)
  <2>1. Agrees(First(bl[n + 1]).old, SubSeq(bl, 1, n + 1 - 1))
    BY <1>3, <1>5 DEF Sound
  <2> QED
    BY <1>3, <1>4, <1>5, <2>1
<1>7. ASSUME NEW i \in 1..n
      PROVE  t[i].config \in ScopeConfig /\ Agrees(First(t[i]).old, SubSeq(t, 1, i - 1))
  <2>1. i \in 1..(n + 1) /\ bl[i] = t[i] /\ SubSeq(bl, 1, i - 1) = SubSeq(t, 1, i - 1)
    BY <1>3, <1>4, <1>5
  <2>2. bl[i].config \in ScopeConfig /\ Agrees(First(bl[i]).old, SubSeq(bl, 1, i - 1))
    BY <1>3, <2>1 DEF Sound
  <2> QED
    BY <2>1, <2>2
<1> QED
  BY <1>2, <1>3, <1>6, <1>7 DEF Sound

\* A task's own blocks are the innermost ones, and the caller has no others.
Owned(a, bl) ==
    /\ \A i, j \in 1..Len(bl) : i < j /\ Owner(bl[i]) = a => Owner(bl[j]) = a
    /\ a = Caller => \A i \in 1..Len(bl) : Owner(bl[i]) = Caller

LEMMA OwnedPush ==
    ASSUME NEW a, NEW s, NEW t, NEW e, Grown(t, s, e), Owned(a, s), Owner(e) = a
    PROVE  Owned(a, t)
<1>1. PICK n \in Nat : n = Len(s) /\ Len(t) = n + 1 /\ t[n + 1] = e /\ \A i \in 1..n : t[i] = s[i]
  BY DEF Grown
<1>2. \A i \in 1..(n + 1) : i = n + 1 \/ i \in 1..n
  OBVIOUS
<1>3. \A i \in 1..n : i < n + 1 /\ ~ (n + 1 < i)
  OBVIOUS
<1>4. ASSUME NEW i \in 1..(n + 1), NEW j \in 1..(n + 1), i < j, Owner(t[i]) = a
      PROVE  Owner(t[j]) = a
  <2>1. CASE j = n + 1
    BY <1>1, <2>1
  <2>2. CASE j \in 1..n
    <3>1. i \in 1..n
      BY <1>4, <2>2
    <3> QED
      BY <1>1, <1>4, <2>2, <3>1 DEF Owned
  <2> QED
    BY <1>2, <2>1, <2>2
<1>5. ASSUME a = Caller, NEW i \in 1..(n + 1) PROVE Owner(t[i]) = Caller
  BY <1>1, <1>2, <1>5 DEF Owned
<1> QED
  BY <1>1, <1>4, <1>5 DEF Owned

LEMMA OwnedPop ==
    ASSUME NEW a, NEW s, NEW t, NEW e, Grown(t, s, e), Owned(a, t)
    PROVE  Owned(a, s)
<1>1. PICK n \in Nat : n = Len(s) /\ Len(t) = n + 1 /\ \A i \in 1..n : t[i] = s[i]
  BY DEF Grown
<1>2. \A i \in 1..n : i \in 1..(n + 1)
  OBVIOUS
<1> QED
  BY <1>1, <1>2, SMTT(30) DEF Owned

\* The entries of scoped() are its open blocks, in their order.
Matches(f, en, bl) ==
    /\ f \in [1..Len(en) -> 1..Len(bl)]
    /\ \A j \in 1..Len(en) : bl[f[j]].config.kind = "scope" /\ en[j].token = First(bl[f[j]])
    /\ \A j, l \in 1..Len(en) : j < l => f[j] < f[l]
    /\ \A i \in 1..Len(bl) : bl[i].config.kind = "scope" => \E j \in 1..Len(en) : f[j] = i

Matched(en, bl) == \E f : Matches(f, en, bl)

LEMMA MatchedPushScope ==
    ASSUME NEW en, NEW en2, NEW x, Grown(en2, en, x), NEW bl, NEW bl2, NEW e, Grown(bl2, bl, e),
           e.config.kind = "scope", x.token = First(e), Matched(en, bl)
    PROVE  Matched(en2, bl2)
<1>1. PICK n \in Nat : n = Len(en) /\ Len(en2) = n + 1 /\ en2[n + 1] = x /\ \A j \in 1..n : en2[j] = en[j]
  BY ZenonT(60) DEF Grown
<1>2. PICK m \in Nat : m = Len(bl) /\ Len(bl2) = m + 1 /\ bl2[m + 1] = e /\ \A i \in 1..m : bl2[i] = bl[i]
  BY DEF Grown
<1>3. PICK f : Matches(f, en, bl)
  BY DEF Matched
<1>4. f \in [1..n -> 1..m]
  BY <1>1, <1>2, <1>3 DEF Matches
<1>5. PICK g : g = [j \in 1..(n + 1) |-> IF j = n + 1 THEN m + 1 ELSE f[j]]
  OBVIOUS
<1>6. /\ \A j \in 1..(n + 1) : j = n + 1 \/ j \in 1..n
      /\ \A i \in 1..(m + 1) : i = m + 1 \/ i \in 1..m
      /\ n + 1 \in 1..(n + 1) /\ \A j \in 1..n : j \in 1..(n + 1) /\ j # n + 1 /\ ~ (n + 1 < j)
      /\ m + 1 \in 1..(m + 1) /\ \A i \in 1..m : i \in 1..(m + 1) /\ i < m + 1
      /\ ~ (n + 1 < n + 1)
  OBVIOUS
<1>7. g[n + 1] = m + 1 /\ \A j \in 1..n : g[j] = f[j] /\ f[j] \in 1..m
  BY <1>4, <1>5, <1>6
<1>8. g \in [1..(n + 1) -> 1..(m + 1)]
  BY <1>4, <1>5, <1>6
<1>9. ASSUME NEW j \in 1..(n + 1)
      PROVE  bl2[g[j]].config.kind = "scope" /\ en2[j].token = First(bl2[g[j]])
  BY <1>1, <1>2, <1>3, <1>6, <1>7 DEF Matches
<1>10. ASSUME NEW j \in 1..(n + 1), NEW l \in 1..(n + 1), j < l PROVE g[j] < g[l]
  <2>1. CASE l = n + 1
    <3>1. j \in 1..n
      BY <1>10, <2>1
    <3> QED
      BY <1>6, <1>7, <2>1, <3>1
  <2>2. CASE l \in 1..n
    <3>1. j \in 1..n
      BY <1>10, <2>2
    <3> QED
      BY <1>1, <1>3, <1>7, <1>10, <2>2, <3>1 DEF Matches
  <2> QED
    BY <1>6, <2>1, <2>2
<1>11. ASSUME NEW i \in 1..(m + 1), bl2[i].config.kind = "scope"
       PROVE  \E j \in 1..(n + 1) : g[j] = i
  <2>1. CASE i = m + 1
    BY <1>6, <1>7, <2>1
  <2>2. CASE i \in 1..m
    <3>1. PICK j \in 1..n : f[j] = i
      BY <1>1, <1>2, <1>3, <1>11, <2>2 DEF Matches
    <3> QED
      BY <1>6, <1>7, <3>1
  <2> QED
    BY <1>6, <2>1, <2>2
<1>12. Matches(g, en2, bl2)
  BY <1>1, <1>2, <1>8, <1>9, <1>10, <1>11 DEF Matches
<1> QED
  BY <1>12, SMTT(30) DEF Matched

LEMMA MatchedPushHandle ==
    ASSUME NEW en, NEW bl, NEW bl2, NEW e, Grown(bl2, bl, e), e.config.kind # "scope", Matched(en, bl)
    PROVE  Matched(en, bl2)
<1>1. PICK m \in Nat : m = Len(bl) /\ Len(bl2) = m + 1 /\ bl2[m + 1] = e /\ \A i \in 1..m : bl2[i] = bl[i]
  BY DEF Grown
<1>2. PICK f : Matches(f, en, bl)
  BY DEF Matched
<1>3. /\ \A i \in 1..(m + 1) : i = m + 1 \/ i \in 1..m
      /\ \A i \in 1..m : i \in 1..(m + 1)
  OBVIOUS
<1>4. f \in [1..Len(en) -> 1..m] /\ \A j \in 1..Len(en) : f[j] \in 1..m /\ bl2[f[j]] = bl[f[j]]
  BY <1>1, <1>2 DEF Matches
<1>5. f \in [1..Len(en) -> 1..(m + 1)]
  BY <1>3, <1>4
<1>6. Matches(f, en, bl2)
  BY <1>1, <1>2, <1>3, <1>4, <1>5 DEF Matches
<1> QED
  BY <1>6 DEF Matched

LEMMA MatchedPopHandle ==
    ASSUME NEW en, NEW bl, NEW bl2, NEW e, Grown(bl, bl2, e), e.config.kind # "scope", Matched(en, bl)
    PROVE  Matched(en, bl2)
<1>1. PICK m \in Nat : m = Len(bl2) /\ Len(bl) = m + 1 /\ bl[m + 1] = e /\ \A i \in 1..m : bl[i] = bl2[i]
  BY DEF Grown
<1>2. PICK f : Matches(f, en, bl)
  BY DEF Matched
<1>3. /\ \A i \in 1..(m + 1) : i = m + 1 \/ i \in 1..m
      /\ \A i \in 1..m : i \in 1..(m + 1)
  OBVIOUS
<1>4. f \in [1..Len(en) -> 1..(m + 1)]
  BY <1>1, <1>2 DEF Matches
<1>5. \A j \in 1..Len(en) : f[j] \in 1..m /\ bl2[f[j]] = bl[f[j]]
  <2>1. \A j \in 1..Len(en) : f[j] \in 1..(m + 1) /\ f[j] # m + 1
    BY <1>1, <1>2, <1>4 DEF Matches
  <2> QED
    BY <1>1, <1>3, <2>1
<1>6. f \in [1..Len(en) -> 1..m]
  BY <1>4, <1>5
<1>7. Matches(f, en, bl2)
  BY <1>1, <1>2, <1>3, <1>5, <1>6 DEF Matches
<1> QED
  BY <1>7 DEF Matched

LEMMA LastMatched ==
    ASSUME NEW n \in Nat, NEW m \in Nat, NEW f \in [1..(n + 1) -> 1..(m + 1)],
           \A j, l \in 1..(n + 1) : j < l => f[j] < f[l],
           \E j \in 1..(n + 1) : f[j] = m + 1
    PROVE  f[n + 1] = m + 1 /\ \A j \in 1..n : f[j] \in 1..m
<1>1. PICK k \in 1..(n + 1) : f[k] = m + 1
  OBVIOUS
<1>2. n + 1 \in 1..(n + 1) /\ f[n + 1] \in 1..(m + 1)
  OBVIOUS
<1>3. k = n + 1 \/ k < n + 1
  OBVIOUS
<1>4. f[n + 1] = m + 1
  BY <1>1, <1>2, <1>3
<1>5. ASSUME NEW j \in 1..n PROVE f[j] \in 1..m
  <2>1. j \in 1..(n + 1) /\ j < n + 1
    OBVIOUS
  <2>2. f[j] < f[n + 1] /\ f[j] \in 1..(m + 1)
    BY <1>2, <2>1, SMTT(30)
  <2> QED
    BY <1>4, <2>2
<1> QED
  BY <1>4, <1>5

LEMMA MatchedPopScope ==
    ASSUME NEW en, NEW en2, NEW x, Grown(en, en2, x), NEW bl, NEW bl2, NEW e, Grown(bl, bl2, e),
           e.config.kind = "scope", Matched(en, bl)
    PROVE  Matched(en2, bl2)
<1>1. PICK n \in Nat : n = Len(en2) /\ Len(en) = n + 1 /\ \A j \in 1..n : en[j] = en2[j]
  BY ZenonT(60) DEF Grown
<1>2. PICK m \in Nat : m = Len(bl2) /\ Len(bl) = m + 1 /\ bl[m + 1] = e /\ \A i \in 1..m : bl[i] = bl2[i]
  BY DEF Grown
<1>3. PICK f : Matches(f, en, bl)
  BY DEF Matched
<1>4. f \in [1..(n + 1) -> 1..(m + 1)] /\ \A j, l \in 1..(n + 1) : j < l => f[j] < f[l]
  BY <1>1, <1>2, <1>3 DEF Matches
<1>5. /\ \A j \in 1..(n + 1) : j = n + 1 \/ j \in 1..n
      /\ m + 1 \in 1..(m + 1) /\ \A i \in 1..m : i \in 1..(m + 1) /\ i # m + 1
      /\ \A j \in 1..n : j \in 1..(n + 1)
  OBVIOUS
<1>6. \E j \in 1..(n + 1) : f[j] = m + 1
  BY <1>1, <1>2, <1>3, <1>5 DEF Matches
<1>7. f[n + 1] = m + 1 /\ \A j \in 1..n : f[j] \in 1..m
  BY <1>4, <1>6, LastMatched
<1>8. PICK g : g = [j \in 1..n |-> f[j]]
  OBVIOUS
<1>9. g \in [1..n -> 1..m] /\ \A j \in 1..n : g[j] = f[j]
  BY <1>7, <1>8
<1>10. \A j \in 1..n : bl2[g[j]].config.kind = "scope" /\ en2[j].token = First(bl2[g[j]])
  BY <1>1, <1>2, <1>3, <1>5, <1>7, <1>9 DEF Matches
<1>11. \A j, l \in 1..n : j < l => g[j] < g[l]
  BY <1>4, <1>5, <1>9
<1>12. ASSUME NEW i \in 1..m, bl2[i].config.kind = "scope" PROVE \E j \in 1..n : g[j] = i
  <2>1. PICK j \in 1..(n + 1) : f[j] = i
    BY <1>1, <1>2, <1>3, <1>5, <1>12 DEF Matches
  <2>2. j # n + 1
    BY <1>5, <1>7, <2>1
  <2> QED
    BY <1>5, <1>9, <2>1, <2>2
<1>13. Matches(g, en2, bl2)
  BY <1>1, <1>2, <1>9, <1>10, <1>11, <1>12 DEF Matches
<1> QED
  BY <1>13 DEF Matched

\* An exit that the code accepts leaves the innermost block: a block inside it
\* would be the task's own, and then a scope with a later entry.
LEMMA TopEntry ==
    ASSUME NEW a, NEW en, Sequence(en), en # <<>>, NEW bl, Sequence(bl), Matched(en, bl), Owned(a, bl),
           Last(en).token.owner = a,
           bl # <<>> /\ Last(bl).config.kind # "scope" => Owner(Last(bl)) # a
    PROVE  bl # <<>> /\ Last(bl).config.kind = "scope" /\ Last(en).token = First(Last(bl))
<1>1. PICK n \in Nat : n + 1 = Len(en) /\ Last(en) = en[n + 1]
  <2>1. Len(en) \in Nat /\ Len(en) # 0 /\ Last(en) = en[Len(en)]
    BY Lengths
  <2>2. Len(en) - 1 \in Nat /\ Len(en) - 1 + 1 = Len(en)
    BY <2>1
  <2> QED
    BY <2>1, <2>2
<1>2. PICK f : Matches(f, en, bl)
  BY DEF Matched
<1>3. n + 1 \in 1..(n + 1)
  OBVIOUS
<1>4. /\ f \in [1..(n + 1) -> 1..Len(bl)] /\ f[n + 1] \in 1..Len(bl)
      /\ en[n + 1].token = First(bl[f[n + 1]]) /\ bl[f[n + 1]].config.kind = "scope"
  BY <1>1, <1>2, <1>3 DEF Matches
<1>5. Len(bl) \in Nat /\ (Len(bl) = 0 <=> bl = <<>>) /\ Last(bl) = bl[Len(bl)]
  BY Lengths
<1>6. PICK m \in Nat : m + 1 = Len(bl)
  <2>1. Len(bl) # 0
    BY <1>4, <1>5
  <2>2. Len(bl) - 1 \in Nat /\ Len(bl) - 1 + 1 = Len(bl)
    BY <1>5, <2>1
  <2> QED
    BY <2>2
<1>7. bl # <<>> /\ Last(bl) = bl[m + 1]
  BY <1>5, <1>6
<1>8. Owner(bl[f[n + 1]]) = a
  BY <1>1, <1>4 DEF First, Owner
<1>9. Last(bl).config.kind = "scope"
  <2>1. SUFFICES ASSUME bl[m + 1].config.kind # "scope" PROVE FALSE
    BY <1>7
  <2>2. f[n + 1] # m + 1
    BY <1>4, <2>1
  <2>3. f[n + 1] < m + 1 /\ f[n + 1] \in 1..(m + 1) /\ m + 1 \in 1..(m + 1)
    BY <1>4, <1>6, <2>2
  <2>4. Owner(bl[m + 1]) = a
    BY <1>6, <1>8, <2>3 DEF Owned
  <2> QED
    BY <1>7, <2>1, <2>4
<1>10. \E j \in 1..(n + 1) : f[j] = m + 1
  <2>1. m + 1 \in 1..(m + 1)
    OBVIOUS
  <2> QED
    BY <1>1, <1>2, <1>6, <1>7, <1>9, <2>1 DEF Matches
<1>11. f[n + 1] = m + 1
  <2>1. f \in [1..(n + 1) -> 1..(m + 1)] /\ \A j, l \in 1..(n + 1) : j < l => f[j] < f[l]
    BY <1>1, <1>2, <1>4, <1>6 DEF Matches
  <2> QED
    BY <1>10, <2>1, LastMatched
<1> QED
  BY <1>1, <1>4, <1>7, <1>9, <1>11, SMTT(30)

-----------------------------------------------------------------------------
(* The invariant of the scoped contexts. *)

\* For the task a: its context says what its open blocks say, and so does the
\* value each block's token keeps of the blocks around it; its own blocks are
\* the innermost; its entries are the open scopes.
Nested(a, c, en, bl) == Sound(c, bl) /\ Owned(a, bl) /\ Sequence(en) /\ Matched(en, bl)

ScopeInv == /\ setup \in Setups
            /\ DOMAIN ctx = Tasks /\ DOMAIN entries = Tasks /\ DOMAIN blocks = Tasks
            /\ \A a \in Tasks : Nested(a, ctx[a], entries[a], blocks[a])

LEMMA AgreesContext ==
    ASSUME NEW c, NEW bl, Sound(c, bl)
    PROVE  Context(c)
BY DEF Sound, Agrees, Context

\* Entering a scope, and attaching a handle.
LEMMA NestedEnter ==
    ASSUME NEW a, NEW c, NEW en, NEW bl, Nested(a, c, en, bl),
           NEW m, m \in ScopeConfig, m.kind = "scope"
    PROVE  Nested(a, Narrow(c, m), Append(en, [manager |-> m, token |-> Token(a, c)]),
                  Append(bl, [config |-> m, tokens |-> <<Token(a, c)>>]))
<1>1. PICK e : e = [config |-> m, tokens |-> <<Token(a, c)>>]
  OBVIOUS
<1>2. PICK x : x = [manager |-> m, token |-> Token(a, c)]
  OBVIOUS
<1>3. e.config = m /\ First(e) = Token(a, c) /\ x.token = First(e) /\ First(e).old = c /\ Owner(e) = a
  BY <1>1, <1>2 DEF First, Owner, Token
<1>4. PICK en2 : en2 = Append(en, x)
  OBVIOUS
<1>5. PICK bl2 : bl2 = Append(bl, e)
  OBVIOUS
<1>6. Sound(c, bl) /\ Owned(a, bl) /\ Sequence(en) /\ Matched(en, bl) /\ Sequence(bl)
  BY DEF Nested, Sound
<1>7. Sequence(en2) /\ Grown(en2, en, x) /\ Grown(bl2, bl, e)
  BY <1>4, <1>5, <1>6, Grow
<1>8. Effect(Narrow(c, m), c, m)
  BY <1>6, AgreesContext, NarrowEffect
<1>9. Sound(Narrow(c, m), bl2)
  BY <1>3, <1>5, <1>6, <1>8, SoundPush
<1>10. Owned(a, bl2)
  BY <1>3, <1>6, <1>7, OwnedPush
<1>11. Matched(en2, bl2)
  BY <1>3, <1>6, <1>7, MatchedPushScope
<1> QED
  BY <1>1, <1>2, <1>4, <1>5, <1>7, <1>9, <1>10, <1>11 DEF Nested

LEMMA NestedRegister ==
    ASSUME NEW a, NEW c, NEW en, NEW bl, Nested(a, c, en, bl), NEW h, IsHandle(h),
           NEW tokens, Head(tokens) = Token(a, c)
    PROVE  Nested(a, Last(Installed(c, h)), en, Append(bl, [config |-> h, tokens |-> tokens]))
<1>1. PICK e : e = [config |-> h, tokens |-> tokens]
  OBVIOUS
<1>2. e.config = h /\ First(e).old = c /\ Owner(e) = a
  BY <1>1 DEF First, Owner, Token
<1>3. PICK bl2 : bl2 = Append(bl, e)
  OBVIOUS
<1>4. Sound(c, bl) /\ Owned(a, bl) /\ Sequence(en) /\ Matched(en, bl) /\ Sequence(bl)
  BY DEF Nested, Sound
<1>5. Grown(bl2, bl, e)
  BY <1>3, <1>4, Grow
<1>6. Effect(Last(Installed(c, h)), c, h)
  BY <1>4, AgreesContext, HandleEffect
<1>7. h \in ScopeConfig /\ h.kind # "scope"
  BY DEF IsHandle, Registrations
<1>8. Sound(Last(Installed(c, h)), bl2)
  BY <1>2, <1>3, <1>4, <1>6, <1>7, SoundPush
<1>9. Owned(a, bl2)
  BY <1>2, <1>4, <1>5, OwnedPush
<1>10. Matched(en, bl2)
  BY <1>2, <1>4, <1>5, <1>7, MatchedPushHandle
<1> QED
  BY <1>1, <1>3, <1>4, <1>8, <1>9, <1>10 DEF Nested

\* Leaving the innermost block, a scope or a registration.
LEMMA NestedExit ==
    ASSUME NEW a, NEW c, NEW en, NEW bl, Nested(a, c, en, bl), en # <<>>, Last(en).token.owner = a,
           bl # <<>> /\ Last(bl).config.kind # "scope" => Owner(Last(bl)) # a
    PROVE  Nested(a, Last(en).token.old, Front(en), Front(bl))
<1>1. Sound(c, bl) /\ Owned(a, bl) /\ Sequence(en) /\ Matched(en, bl) /\ Sequence(bl)
  BY DEF Nested, Sound
<1>2. bl # <<>> /\ Last(bl).config.kind = "scope" /\ Last(en).token = First(Last(bl))
  BY <1>1, TopEntry
<1>3. PICK en2 : en2 = Front(en)
  OBVIOUS
<1>4. PICK bl2 : bl2 = Front(bl)
  OBVIOUS
<1>5. Sequence(en2) /\ Grown(en, en2, Last(en)) /\ Grown(bl, bl2, Last(bl))
  BY <1>1, <1>2, <1>3, <1>4, Shrink
<1>6. Sound(Last(en).token.old, bl2)
  BY <1>1, <1>2, <1>4, SoundPop
<1>7. Owned(a, bl2)
  BY <1>1, <1>5, OwnedPop
<1>8. Matched(en2, bl2)
  BY <1>1, <1>2, <1>5, MatchedPopScope
<1> QED
  BY <1>3, <1>4, <1>5, <1>6, <1>7, <1>8 DEF Nested

LEMMA NestedDetach ==
    ASSUME NEW a, NEW c, NEW en, NEW bl, Nested(a, c, en, bl), bl # <<>>,
           Last(bl).config.kind # "scope"
    PROVE  Nested(a, LastReset(Last(bl).tokens).old, en, Front(bl))
<1>1. Sound(c, bl) /\ Owned(a, bl) /\ Sequence(en) /\ Matched(en, bl) /\ Sequence(bl)
  BY DEF Nested, Sound
<1>2. PICK bl2 : bl2 = Front(bl)
  OBVIOUS
<1>3. Grown(bl, bl2, Last(bl))
  BY <1>1, <1>2, Shrink
<1>4. LastReset(Last(bl).tokens) = First(Last(bl))
  BY DEF LastReset, First
<1>5. Sound(LastReset(Last(bl).tokens).old, bl2)
  BY <1>1, <1>2, <1>4, SoundPop
<1>6. Owned(a, bl2)
  BY <1>1, <1>3, OwnedPop
<1>7. Matched(en, bl2)
  BY <1>1, <1>3, MatchedPopHandle
<1> QED
  BY <1>1, <1>2, <1>5, <1>6, <1>7 DEF Nested

\* A step that only the task t's context variables take part in.
LEMMA OneTask ==
    ASSUME ScopeInv, NEW t \in Tasks, setup' = setup,
           DOMAIN ctx' = Tasks, DOMAIN entries' = Tasks, DOMAIN blocks' = Tasks,
           \A a \in Tasks \ {t} : ctx'[a] = ctx[a] /\ entries'[a] = entries[a] /\ blocks'[a] = blocks[a],
           Nested(t, ctx'[t], entries'[t], blocks'[t])
    PROVE  ScopeInv'
BY DEF ScopeInv

LEMMA EnterKeeps ==
    ASSUME ScopeInv, NEW t \in Tasks, NEW m \in setup.managers, Enter(t, m)
    PROVE  ScopeInv'
<1>1. m \in ScopeConfig /\ m.kind = "scope"
  BY ConfigAssumption DEF ScopeInv
<1>2. /\ ctx'[t] = Narrow(ctx[t], m)
      /\ entries'[t] = Append(entries[t], [manager |-> m, token |-> Token(t, ctx[t])])
      /\ blocks'[t] = Append(blocks[t], [config |-> m, tokens |-> <<Token(t, ctx[t])>>])
  BY DEF Enter, ScopeInv
<1>3. /\ setup' = setup /\ DOMAIN ctx' = Tasks /\ DOMAIN entries' = Tasks /\ DOMAIN blocks' = Tasks
      /\ \A a \in Tasks \ {t} : ctx'[a] = ctx[a] /\ entries'[a] = entries[a] /\ blocks'[a] = blocks[a]
  BY DEF Enter, ScopeInv
<1>4. Nested(t, ctx[t], entries[t], blocks[t])
  BY DEF ScopeInv
<1>5. Nested(t, ctx'[t], entries'[t], blocks'[t])
  BY <1>1, <1>2, <1>4, NestedEnter
<1> QED
  BY <1>3, <1>5, OneTask

LEMMA RegisterKeeps ==
    ASSUME ScopeInv, NEW t \in Tasks, NEW h \in setup.handles, Register(t, h)
    PROVE  ScopeInv'
<1>1. IsHandle(h)
  BY ConfigAssumption DEF ScopeInv, IsHandle
<1>2. PICK new : new = Installed(ctx[t], h)
  OBVIOUS
<1>3. PICK tokens : tokens = [i \in DOMAIN new |-> Token(t, IF i = 1 THEN ctx[t] ELSE new[i - 1])]
  OBVIOUS
<1>4. /\ ctx' = [ctx EXCEPT ![t] = Last(new)]
      /\ blocks' = [blocks EXCEPT ![t] = Append(@, [config |-> h, tokens |-> tokens])]
      /\ entries' = entries /\ setup' = setup
  BY <1>2, <1>3 DEF Register
<1>5. 1 \in DOMAIN new
  <2>1. h.kind \in Registrations
    BY <1>1 DEF IsHandle
  <2> QED
    BY <1>2, <2>1 DEF Installed, Registrations
<1>6. Head(tokens) = Token(t, ctx[t])
  <2>1. tokens[1] = Token(t, ctx[t])
    BY <1>3, <1>5
  <2> QED
    BY <2>1
<1>7. Nested(t, ctx[t], entries[t], blocks[t])
  BY DEF ScopeInv
<1>8. /\ ctx'[t] = Last(Installed(ctx[t], h)) /\ entries'[t] = entries[t]
      /\ blocks'[t] = Append(blocks[t], [config |-> h, tokens |-> tokens])
  BY <1>2, <1>4 DEF ScopeInv
<1>9. Nested(t, ctx'[t], entries'[t], blocks'[t])
  BY <1>1, <1>6, <1>7, <1>8, NestedRegister
<1>10. /\ setup' = setup /\ DOMAIN ctx' = Tasks /\ DOMAIN entries' = Tasks /\ DOMAIN blocks' = Tasks
       /\ \A a \in Tasks \ {t} : ctx'[a] = ctx[a] /\ entries'[a] = entries[a] /\ blocks'[a] = blocks[a]
  BY <1>4 DEF ScopeInv
<1> QED
  BY <1>9, <1>10, OneTask

LEMMA SameScope ==
    ASSUME ScopeInv, UNCHANGED scopeVars
    PROVE  ScopeInv'
BY DEF ScopeInv, scopeVars

LEMMA ExitKeeps ==
    ASSUME ScopeInv, NEW t \in Tasks, NEW m, ExitAttempted(t, m)
    PROVE  ScopeInv'
<1>1. CASE UNCHANGED scopeVars
  BY <1>1, SameScope
<1>2. CASE /\ entries[t] # <<>> /\ Last(entries[t]).token.owner = t
           /\ entries' = [entries EXCEPT ![t] = Front(@)]
           /\ Restore(t, Last(entries[t]).token) /\ UNCHANGED setup
  <2>1. blocks[t] # <<>> /\ Last(blocks[t]).config.kind # "scope" => Owner(Last(blocks[t])) # t
    BY DEF ExitAttempted, InHandle
  <2>2. Nested(t, ctx[t], entries[t], blocks[t])
    BY DEF ScopeInv
  <2>3. /\ ctx'[t] = Last(entries[t]).token.old /\ entries'[t] = Front(entries[t])
        /\ blocks'[t] = Front(blocks[t])
    BY <1>2 DEF Restore, ScopeInv
  <2>4. Nested(t, ctx'[t], entries'[t], blocks'[t])
    BY <1>2, <2>1, <2>2, <2>3, NestedExit
  <2>5. /\ setup' = setup /\ DOMAIN ctx' = Tasks /\ DOMAIN entries' = Tasks /\ DOMAIN blocks' = Tasks
        /\ \A a \in Tasks \ {t} : ctx'[a] = ctx[a] /\ entries'[a] = entries[a] /\ blocks'[a] = blocks[a]
    BY <1>2 DEF Restore, ScopeInv
  <2> QED
    BY <2>4, <2>5, OneTask
<1> QED
  BY <1>1, <1>2 DEF ExitAttempted, Exit, Refuse

LEMMA DetachKeeps ==
    ASSUME ScopeInv, NEW t \in Tasks, Detach(t)
    PROVE  ScopeInv'
<1>1. blocks[t] # <<>> /\ Last(blocks[t]).config.kind # "scope"
  BY DEF Detach, InHandle
<1>2. Nested(t, ctx[t], entries[t], blocks[t])
  BY DEF ScopeInv
<1>3. /\ ctx'[t] = LastReset(Last(blocks[t]).tokens).old /\ entries'[t] = entries[t]
      /\ blocks'[t] = Front(blocks[t])
  BY DEF Detach, Restore, ScopeInv
<1>4. Nested(t, ctx'[t], entries'[t], blocks'[t])
  BY <1>1, <1>2, <1>3, NestedDetach
<1>5. /\ setup' = setup /\ DOMAIN ctx' = Tasks /\ DOMAIN entries' = Tasks /\ DOMAIN blocks' = Tasks
      /\ \A a \in Tasks \ {t} : ctx'[a] = ctx[a] /\ entries'[a] = entries[a] /\ blocks'[a] = blocks[a]
  BY DEF Detach, Restore, ScopeInv
<1> QED
  BY <1>4, <1>5, OneTask

LEMMA InheritKeeps ==
    ASSUME ScopeInv, Inherit(Caller, Commands)
    PROVE  ScopeInv'
<1>1. Tasks = Commands \cup {Caller} /\ Caller \notin Commands
  BY BatchAssumption
<1>2. /\ setup' = setup /\ DOMAIN ctx' = Tasks /\ DOMAIN entries' = Tasks /\ DOMAIN blocks' = Tasks
      /\ \A a \in Tasks : ctx'[a] = ctx[Caller] /\ entries'[a] = entries[Caller]
                          /\ blocks'[a] = blocks[Caller]
  BY <1>1 DEF Inherit
<1>3. PICK bl : bl = blocks[Caller]
  OBVIOUS
<1>4. Nested(Caller, ctx[Caller], entries[Caller], bl)
  BY <1>1, <1>3 DEF ScopeInv
<1>5. ASSUME NEW a \in Tasks PROVE Owned(a, bl)
  <2>1. Owned(Caller, bl)
    BY <1>4 DEF Nested
  <2>2. CASE a # Caller
    BY <2>1, <2>2 DEF Owned
  <2> QED
    BY <2>1, <2>2
<1>6. ASSUME NEW a \in Tasks PROVE Nested(a, ctx[Caller], entries[Caller], bl)
  BY <1>4, <1>5 DEF Nested
<1>7. setup \in Setups
  BY DEF ScopeInv
<1> QED
  BY <1>2, <1>3, <1>6, <1>7 DEF ScopeInv

LEMMA NoBlocks == Agrees(DefaultContext, <<>>)
<1>1. DOMAIN <<>> = {} /\ DefaultContext.set = <<>> /\ DefaultContext.bind = <<>>
  BY DEF DefaultContext
<1>2. DOMAIN DefaultContext = ContextFields
  BY DEF DefaultContext, ContextFields
<1>3. /\ DefaultContext.before = <<>> /\ DefaultContext.after = <<>> /\ DefaultContext.observe = <<>>
      /\ <<>> \in Hooks
  BY DEF DefaultContext, Hooks
<1>4. Listing(<<>>) = {} /\ ~ DefaultContext.restricted /\ DefaultContext.allow = {}
  BY <1>1 DEF DefaultContext, Listing
<1>5. \A p : CheckAllowed(DefaultContext, p) <=> PermittedIn(<<>>, p)
  BY <1>1, <1>4 DEF CheckAllowed, PermittedIn
<1>6. \A p : ExecutableBinding(DefaultContext, p) = ExecutableIn(<<>>, p)
  BY <1>1 DEF ExecutableBinding, ExecutableIn, Innermost
<1>7. \A k : Rendered(DefaultContext, k) = EnvironmentIn(<<>>, k)
  <2>1. DefaultContext.replace = FALSE
    BY DEF DefaultContext
  <2> QED
    BY <1>1, <2>1 DEF Rendered, EnvironmentIn
<1>8. BeforeIn(<<>>) = <<>> /\ ObserveIn(<<>>) = <<>> /\ AfterIn(<<>>) = <<>>
  <2>1. FlattenSeq(<<>>) = <<>>
    BY DEF FlattenSeq
  <2>2. /\ [i \in DOMAIN <<>> |-> <<>>[i].config.before] = <<>>
        /\ [i \in DOMAIN <<>> |-> <<>>[i].config.observe] = <<>>
        /\ [i \in DOMAIN <<>> |-> <<>>[i].config.after] = <<>>
    OBVIOUS
  <2>3. Reverse(<<>>) = <<>>
    BY DEF Reverse
  <2> QED
    BY <2>1, <2>2, <2>3 DEF BeforeIn, ObserveIn, AfterIn
<1>9. DefaultContext.timeout = TimeoutIn(<<>>) /\ DefaultContext.catalogue = CatalogueIn(<<>>)
  <2>1. DefaultContext.timeout = 0 /\ DefaultContext.catalogue = "none"
    BY DEF DefaultContext
  <2> QED
    BY <1>1, <2>1 DEF TimeoutIn, CatalogueIn, Innermost
<1> QED
  BY <1>2, <1>3, <1>4, <1>5, <1>6, <1>7, <1>8, <1>9 DEF Agrees

LEMMA ScopeInitial == Init => ScopeInv
<1> SUFFICES ASSUME Init PROVE ScopeInv
  OBVIOUS
<1>1. <<>> \in Seq({}) /\ Len(<<>>) = 0 /\ \A i \in 1..0 : FALSE
  OBVIOUS
<1>2. ASSUME NEW a PROVE Nested(a, DefaultContext, <<>>, <<>>)
  <2>1. Sequence(<<>>)
    BY <1>1 DEF Sequence
  <2>2. Sound(DefaultContext, <<>>)
    BY <1>1, <2>1, NoBlocks DEF Sound
  <2>3. Owned(a, <<>>)
    BY <1>1 DEF Owned
  <2>4. PICK f : f = [j \in 1..0 |-> 0]
    OBVIOUS
  <2>5. Matches(f, <<>>, <<>>)
    BY <1>1, <2>4 DEF Matches
  <2> QED
    BY <2>1, <2>2, <2>3, <2>5 DEF Nested, Matched
<1>3. /\ setup \in Setups /\ ctx = [t \in Tasks |-> DefaultContext]
      /\ entries = [t \in Tasks |-> <<>>] /\ blocks = [t \in Tasks |-> <<>>]
  BY DEF Init, ScopeInit
<1> QED
  BY <1>2, <1>3 DEF ScopeInv

\* Which steps touch the context variables, and how.
LEMMA ScopeStep ==
    ASSUME ScopeInv, [Next]_vars
    PROVE  ScopeInv'
<1>1. Caller \in Tasks /\ \A c \in Commands : c \in Tasks
  BY BatchAssumption
<1>2. CASE UNCHANGED scopeVars
  BY <1>2, SameScope
<1>3. CASE Submit
  BY <1>2, <1>3, InheritKeeps DEF Submit
<1>4. CASE CallerEnters
  BY <1>1, <1>4, EnterKeeps DEF CallerEnters
<1>5. CASE CallerRegisters
  BY <1>1, <1>5, RegisterKeeps DEF CallerRegisters
<1>6. CASE CallerExits
  BY <1>1, <1>6, ExitKeeps DEF CallerExits
<1>7. CASE CallerDetaches
  BY <1>1, <1>7, DetachKeeps DEF CallerDetaches
<1>8. CASE \E c \in Commands : Hook(c)
  <2>1. PICK c \in Commands : Hook(c)
    BY <1>8
  <2>2. CASE HookEnters(c)
    BY <1>1, <2>2, EnterKeeps DEF HookEnters
  <2>3. CASE HookRegisters(c)
    BY <1>1, <2>3, RegisterKeeps DEF HookRegisters
  <2>4. CASE HookExits(c)
    BY <1>1, <2>4, ExitKeeps DEF HookExits
  <2>5. CASE HookDetaches(c)
    BY <1>1, <1>2, <2>5, DetachKeeps DEF HookDetaches, DetachForeign, Refuse
  <2> QED
    BY <2>1, <2>2, <2>3, <2>4, <2>5 DEF Hook
<1>9. CASE UNCHANGED vars
  BY <1>2, <1>9 DEF vars
<1>10. CASE CancelCaller \/ Return
  BY <1>2, <1>10 DEF CancelCaller, Return
<1>11. CASE \E c \in Commands : \/ Begin(c) \/ Resume(c) \/ TornDown(c) \/ TaskDone(c)
                               \/ \E s \in {"ok", "failed", "raised"} : Finish(c, s)
  BY <1>2, <1>11 DEF Begin, Resume, TornDown, TaskDone, Finish
<1> QED
  BY <1>3, <1>4, <1>5, <1>6, <1>7, <1>8, <1>9, <1>10, <1>11 DEF Next

LEMMA InvariantGivesPolicy == ScopeInv => PolicyOfOpenBlocks
<1> SUFFICES ASSUME ScopeInv, NEW t \in Tasks
             PROVE  /\ \A p \in Programs : /\ CheckAllowed(ctx[t], p) = PermittedIn(blocks[t], p)
                                           /\ ExecutableBinding(ctx[t], p) = ExecutableIn(blocks[t], p)
                    /\ \A k \in Keys : Rendered(ctx[t], k) = EnvironmentIn(blocks[t], k)
                    /\ ctx[t].before = BeforeIn(blocks[t])
                    /\ ctx[t].after = AfterIn(blocks[t])
                    /\ ctx[t].observe = ObserveIn(blocks[t])
                    /\ ctx[t].timeout = TimeoutIn(blocks[t])
                    /\ ctx[t].catalogue = CatalogueIn(blocks[t])
  BY DEF PolicyOfOpenBlocks
<1>1. Agrees(ctx[t], blocks[t])
  BY DEF ScopeInv, Nested, Sound
<1>2. ASSUME NEW p \in Programs PROVE CheckAllowed(ctx[t], p) = PermittedIn(blocks[t], p)
  <2>1. CheckAllowed(ctx[t], p) <=> PermittedIn(blocks[t], p)
    BY <1>1 DEF Agrees
  <2>2. CheckAllowed(ctx[t], p) \in BOOLEAN
    BY DEF CheckAllowed
  <2>3. PermittedIn(blocks[t], p) \in BOOLEAN
    BY DEF PermittedIn
  <2> QED
    BY <2>1, <2>2, <2>3
<1> QED
  BY <1>1, <1>2 DEF Agrees

\* Every task's context keeps agreeing with the blocks its code is inside of,
\* and its tokens with the blocks around theirs: what __enter__, __exit__,
\* detach() and a task's copy of the context variables preserve.
THEOREM ScopeInvariance == Spec => []ScopeInv
<1>1. ScopeInv /\ [Next]_vars => ScopeInv'
  BY ScopeStep
<1> QED
  BY <1>1, ScopeInitial, PTL DEF Spec

\* Whatever scopes and registrations were entered, left, or left in the wrong
\* order or task, a task runs under exactly the policy its open blocks describe
\* (_ScopedContext.__exit__, _reset_scoped_entry, the handles' detach).
THEOREM PolicyIsOfOpenBlocks == Spec => []PolicyOfOpenBlocks
BY ScopeInvariance, InvariantGivesPolicy, PTL
=============================================================================
