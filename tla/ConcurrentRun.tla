--------------------------- MODULE ConcurrentRun ---------------------------
(***************************************************************************)
(* run_concurrent: a batch of commands, each in a task of its own, behind  *)
(* an optional semaphore, collected with asyncio.gather or, with fail_fast,*)
(* in an asyncio.TaskGroup that cancels the rest after the first failure   *)
(* (cuprum/concurrent.py, _concurrent_config.py).  The caller submits from *)
(* inside scoped blocks, and a command's hooks may open blocks of their    *)
(* own or try to leave the inherited ones (ScopedContext).                 *)
(*                                                                         *)
(* A command's run is CommandRun seen from outside: it ends with exit      *)
(* status zero (ok) or not (failed) or by raising, and once cancelled it   *)
(* stops its child before it gives up its place.                           *)
(***************************************************************************)
EXTENDS ScopedContext, FiniteSets

CONSTANTS N,          \* commands in the batch
          ProgramOf,  \* the program of each command
          Caller      \* the task that awaits run_concurrent

Commands == 1..N

ASSUME BatchAssumption == /\ N \in Nat \ {0}
                          /\ \A u \in Setups : /\ u.limits \subseteq Nat /\ u.modes \subseteq BOOLEAN
                                              /\ u.hooked \subseteq Commands
                          /\ ProgramOf \in [Commands -> Programs]
                          /\ Tasks = Commands \cup {Caller} /\ Caller \notin Commands

VARIABLES failFast, limit,  \* ConcurrentConfig, fixed; a limit of 0 stands for None
          call,             \* the caller: "idle", "batch" (suspended in it), "done"
          st,               \* each command's task
          waiters, free,    \* asyncio.Semaphore: its queue and its value
          reported,         \* commands whose done callback has run
          aborting,         \* the group, or the gather, has cancelled its tasks
          cancelled,        \* the caller was cancelled from outside
          outcome           \* what run_concurrent returned or raised

batchVars == <<failFast, limit, call, st, waiters, free, reported, aborting, cancelled, outcome>>
vars == <<scopeVars, batchVars>>

Ended == {"ok", "failed", "raised", "cancelled"}
Holding == {"granted", "running", "tearing"}
Waiting == {"new", "queued"}
None == [kind |-> "none"]

TypeOK == /\ failFast \in BOOLEAN /\ limit \in setup.limits
          /\ call \in {"idle", "batch", "done"}
          /\ st \in [Commands -> Ended \cup Holding \cup Waiting \cup {"none"}]
          /\ waiters \in Seq(Commands) /\ free \in 0..limit
          /\ reported \subseteq Commands
          /\ aborting \in BOOLEAN /\ cancelled \in BOOLEAN

Init == /\ ScopeInit
        /\ failFast \in setup.modes /\ limit \in setup.limits /\ free = limit
        /\ call = "idle" /\ st = [c \in Commands |-> "none"]
        /\ waiters = <<>> /\ reported = {}
        /\ aborting = FALSE /\ cancelled = FALSE /\ outcome = None

(* ------------------------- the caller submits --------------------------- *)

\* Every program is checked before any task exists.
Submit ==
    /\ call = "idle"
    /\ UNCHANGED <<failFast, limit, waiters, free, reported, aborting, cancelled>>
    /\ IF \A c \in Commands : CheckAllowed(ctx[Caller], ProgramOf[c])
       THEN /\ call' = "batch" /\ st' = [c \in Commands |-> "new"]
            /\ Inherit(Caller, Commands) /\ UNCHANGED outcome
       ELSE /\ call' = "done" /\ outcome' = [kind |-> "forbidden"]
            /\ UNCHANGED <<scopeVars, st>>

(* ----------------------------- a command -------------------------------- *)

\* cmd.run() checks the allowlist again, in the task's own context: a copy of
\* the one the batch was submitted under, so it never refuses.
EnforceAllowlist(c) == CheckAllowed(ctx[c], ProgramOf[c])

\* The first step of the task: a free slot and nobody queued, or the queue.
Begin(c) ==
    /\ st[c] = "new"
    /\ IF limit = 0 \/ (free > 0 /\ waiters = <<>>)
       THEN /\ EnforceAllowlist(c) /\ st' = [st EXCEPT ![c] = "running"]
            /\ free' = IF limit = 0 THEN free ELSE free - 1
            /\ UNCHANGED waiters
       ELSE /\ st' = [st EXCEPT ![c] = "queued"]
            /\ waiters' = Append(waiters, c) /\ UNCHANGED free
    /\ UNCHANGED <<scopeVars, failFast, limit, call, reported, aborting, cancelled, outcome>>

\* Semaphore.release: the slot passes to the first in the queue.
Leave(c, s) ==
    IF limit = 0
    THEN st' = [st EXCEPT ![c] = s] /\ UNCHANGED <<free, waiters>>
    ELSE IF waiters = <<>>
    THEN st' = [st EXCEPT ![c] = s] /\ free' = free + 1 /\ UNCHANGED waiters
    ELSE /\ st' = [st EXCEPT ![c] = s, ![Head(waiters)] = "granted"]
         /\ waiters' = Tail(waiters) /\ UNCHANGED free

Resume(c) ==
    /\ st[c] = "granted" /\ EnforceAllowlist(c)
    /\ st' = [st EXCEPT ![c] = "running"]
    /\ UNCHANGED <<scopeVars, free, waiters, failFast, limit, call, reported, aborting, cancelled, outcome>>

Finish(c, s) ==
    /\ st[c] = "running" /\ Leave(c, s)
    /\ UNCHANGED <<scopeVars, failFast, limit, call, reported, aborting, cancelled, outcome>>

\* A cancelled command has stopped its child; only now is the slot free, and
\* whoever waited for it has been cancelled too.
TornDown(c) ==
    /\ st[c] = "tearing" /\ st' = [st EXCEPT ![c] = "cancelled"]
    /\ free' = IF limit = 0 THEN free ELSE free + 1
    /\ UNCHANGED <<scopeVars, waiters, failFast, limit, call, reported, aborting, cancelled, outcome>>

\* The command's hooks run in its task.
HookEnters(c) == \E m \in setup.managers : Enter(c, m)
HookRegisters(c) == \E h \in setup.handles : Register(c, h)
HookExits(c) == \E m \in setup.managers : ExitAttempted(c, m)
HookDetaches(c) == Detach(c) \/ DetachForeign(c)

Hook(c) == /\ c \in setup.hooked /\ st[c] = "running" /\ UNCHANGED batchVars
           /\ HookEnters(c) \/ HookRegisters(c) \/ HookExits(c) \/ HookDetaches(c)

(* -------------------- cancellation and completion ------------------------ *)

\* Fault: a task that was granted a slot but has not resumed keeps it.
CancelKeepingGrant ==
    /\ st' = [c \in Commands |-> CASE st[c] \in {"new", "queued", "granted"} -> "cancelled"
                                   [] st[c] = "running" -> "tearing"
                                   [] OTHER -> st[c]]
    /\ waiters' = <<>> /\ aborting' = TRUE
    /\ UNCHANGED free

\* task.cancel() on every task that has not ended: one that has not begun or
\* still waits ends at once (a granted slot goes back), one that runs starts
\* to stop its child.
CancelAll ==
    /\ st' = [c \in Commands |-> CASE st[c] \in {"new", "queued", "granted"} -> "cancelled"
                                   [] st[c] = "running" -> "tearing"
                                   [] OTHER -> st[c]]
    /\ waiters' = <<>> /\ aborting' = TRUE
    /\ free' = free + Cardinality({c \in Commands : limit > 0 /\ st[c] = "granted"})

\* Fault: only a task that ended by itself is taken off the batch.
TaskDoneUncancelled(c) ==
    /\ call = "batch" /\ st[c] \in Ended \ {"cancelled"} /\ c \notin reported
    /\ reported' = reported \cup {c}
    /\ IF failFast /\ ~aborting /\ st[c] \in {"failed", "raised"}
       THEN CancelAll
       ELSE UNCHANGED <<st, waiters, free, aborting>>
    /\ UNCHANGED <<scopeVars, failFast, limit, call, cancelled, outcome>>

\* The task's done callback, a turn of the loop after the task ended: until it
\* runs, the slot the failed command gave back may already have started another.
TaskDone(c) ==
    /\ call = "batch" /\ st[c] \in Ended /\ c \notin reported
    /\ reported' = reported \cup {c}
    /\ IF failFast /\ ~aborting /\ st[c] \in {"failed", "raised"}
       THEN CancelAll
       ELSE UNCHANGED <<st, waiters, free, aborting>>
    /\ UNCHANGED <<scopeVars, failFast, limit, call, cancelled, outcome>>

\* The caller's task is cancelled while it awaits the batch.  gather passes
\* every cancellation on, the task group only the one that makes it abort.
CancelCaller ==
    /\ call = "batch" /\ cancelled' = TRUE
    /\ IF failFast /\ aborting THEN UNCHANGED <<st, waiters, free, aborting>> ELSE CancelAll
    /\ UNCHANGED <<scopeVars, failFast, limit, call, reported, outcome>>

(* ----------------------------- the result ------------------------------- *)

\* _collect_results_and_failures: one pass over the commands, which appends each
\* completed one to the results and, if it failed, its position there to failures.
Collect(have) ==
    LET loop[i \in 0..N] ==
          IF i = 0
          THEN [kind |-> "result", submission |-> <<>>, results |-> <<>>, failures |-> <<>>]
          ELSE IF i \notin have
          THEN loop[i - 1]
          ELSE [kind |-> "result",
                submission |-> Append(loop[i - 1].submission, i),
                results |-> Append(loop[i - 1].results, st[i]),
                failures |-> IF st[i] = "failed"
                             THEN Append(loop[i - 1].failures, Len(loop[i - 1].results) + 1)
                             ELSE loop[i - 1].failures]
    IN  loop[N]

\* _validate_index_sequence: in range, where there is a range, and ascending.
IndexSequence(indices, upper) ==
    /\ \A i \in DOMAIN indices : indices[i] \in upper
    /\ \A i, j \in DOMAIN indices : i < j => indices[i] < indices[j]

\* Failures index the results, which fail_fast may have made fewer.
FailureIndicesValid(r) == IndexSequence(r.failures, DOMAIN r.results)

\* Submission positions run along with the results, but are not bounded by them.
SubmissionIndicesValid(r) ==
    DOMAIN r.submission = DOMAIN r.results /\ IndexSequence(r.submission, Nat)

\* The result refuses indices that cannot be its own with a ValueError.
ConcurrentResult(r) ==
    IF FailureIndicesValid(r) /\ SubmissionIndicesValid(r) THEN r ELSE [kind |-> "error"]

With(s) == {c \in Commands : st[c] = s}

\* gather(return_exceptions=True), then the first exception by position.
CollectAllOutcome ==
    CASE cancelled -> [kind |-> "cancelled"]
      [] ~cancelled /\ With("raised") # {} -> [kind |-> "error"]
      [] ~cancelled /\ With("raised") = {} -> ConcurrentResult(Collect(Commands))

\* The task group raises its errors in preference to the cancellation, and
\* except* absorbs the ones that only say a command failed: with those the
\* batch returns its result although the caller was cancelled.
FailFastOutcome ==
    CASE With("raised") # {} -> [kind |-> "error"]
      [] With("raised") = {} /\ With("failed") = {} /\ cancelled -> [kind |-> "cancelled"]
      [] With("raised") = {} /\ (With("failed") # {} \/ ~cancelled) ->
            ConcurrentResult(Collect(With("ok") \cup With("failed")))

Return ==
    /\ call = "batch" /\ reported = Commands
    /\ call' = "done"
    /\ outcome' = IF failFast THEN FailFastOutcome ELSE CollectAllOutcome
    /\ UNCHANGED <<scopeVars, failFast, limit, st, waiters, free, reported, aborting, cancelled>>

(* ----------------------- the caller's own blocks ------------------------- *)

CallerEnters == call = "idle" /\ (\E m \in setup.managers : Enter(Caller, m)) /\ UNCHANGED batchVars
CallerRegisters == call = "idle" /\ (\E h \in setup.handles : Register(Caller, h)) /\ UNCHANGED batchVars
CallerExits == call # "batch" /\ (\E m \in setup.managers : ExitAttempted(Caller, m)) /\ UNCHANGED batchVars
CallerDetaches == call # "batch" /\ Detach(Caller) /\ UNCHANGED batchVars

Next == \/ Submit \/ CancelCaller \/ Return
        \/ CallerEnters \/ CallerRegisters \/ CallerExits \/ CallerDetaches
        \/ \E c \in Commands : \/ Begin(c) \/ Resume(c) \/ TornDown(c) \/ TaskDone(c) \/ Hook(c)
                               \/ \E s \in {"ok", "failed", "raised"} : Finish(c, s)

\* The loop runs what is ready and a stopped child's run comes to its end;
\* nothing obliges a command to finish by itself.
Fairness == /\ WF_vars(Return)
            /\ \A c \in Commands : /\ WF_vars(Begin(c)) /\ WF_vars(Resume(c))
                                   /\ WF_vars(TornDown(c)) /\ WF_vars(TaskDone(c))

Spec == Init /\ [][Next]_vars /\ Fairness

(* ----------------------------- properties ------------------------------- *)

\* A result lists exactly the commands that ran to an exit status, in
\* submission order; `failures` are the positions of the ones that failed; and
\* a batch reports success only when every command it was given succeeded,
\* whatever cancellations and simultaneous failures happened on the way.  An
\* error is a command's own: the result never refuses the indices that the
\* batch computed for it, however many commands were cancelled away
\* (_collect_results_and_failures, _run_fail_fast, ConcurrentResult._validate).
BatchTruthful ==
    /\ outcome.kind = "error" => With("raised") # {}
    /\ outcome.kind = "result" =>
        /\ \A c \in Commands : (\E p \in DOMAIN outcome.submission : outcome.submission[p] = c)
                                  <=> st[c] \in {"ok", "failed"}
        /\ \A p, q \in DOMAIN outcome.submission : p < q => outcome.submission[p] < outcome.submission[q]
        /\ \A p \in DOMAIN outcome.submission :
              (\E i \in DOMAIN outcome.failures : outcome.failures[i] = p)
                  <=> st[outcome.submission[p]] = "failed"
        /\ \A i \in DOMAIN outcome.failures : outcome.failures[i] \in DOMAIN outcome.submission
        /\ outcome.failures = <<>> => \A c \in Commands : st[c] = "ok"

\* Never more than `concurrency` commands hold a place, cancelled ones that
\* still stop their child included; no place is lost and none stays free while
\* a command waits for one; and once run_concurrent has returned or raised no
\* command of the batch is left (_run_with_semaphore, TaskGroup, gather).
SlotsAccounted ==
    /\ limit > 0 => /\ Cardinality({c \in Commands : st[c] \in Holding}) + free = limit
                    /\ waiters # <<>> => free = 0
    /\ call = "done" => \A c \in Commands : st[c] \in Ended \cup {"none"}

\* What the batch says and what it holds agree with what its commands did.
BatchAccounted == BatchTruthful /\ SlotsAccounted

\* Once the batch is being cancelled, by a failure under fail_fast or from
\* outside, it ends: no command is left queued behind the ones being stopped.
AbortEnds == aborting ~> call = "done"
=============================================================================
