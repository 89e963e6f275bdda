------------------------------- MODULE Launch -------------------------------
(***************************************************************************)
(* From an accepted request to a child process: the executable and the     *)
(* environment are resolved and announced, the standard streams are bound, *)
(* the paths the run owns are opened, borrowed file objects are flushed,   *)
(* the child is started and the run's copies are closed (cuprum/           *)
(* _command_prepare.py, _stdio_plan.py, _stdio_ownership.py,               *)
(* _subprocess_spawn.py, _wait4_spawn.py, _rusage.py), and the detached    *)
(* launch (_detached_launch.py, _detached_spawn.py).                       *)
(*                                                                         *)
(* The operators act on this module's variables only; ObservedRun gives    *)
(* them their place in the run.  Descriptor numbers are shared with the    *)
(* other threads of the program: a freed number may be theirs next.        *)
(***************************************************************************)
EXTENDS RunOptions

CONSTANTS Numbers,  \* descriptor numbers
          Own       \* CPU time the child uses itself

\* A descriptor a caller names is one of the numbers; 0 stands for none.
ASSUME LaunchAssumption ==
    /\ Numbers \subseteq Nat \ {0} /\ Own \in Nat
    /\ \A o \in Requests : \A s \in Streams :
           o.target[s].kind \in {"fd", "object"} /\ o.target[s].fd >= 0 => o.target[s].fd \in Numbers

VARIABLES scope,      \* the caller's context as hooks may change it
          announced,  \* executable, arguments and environment the observation carries
          executed,   \* executable, arguments and environment the child was started with
          fds,        \* descriptor number -> who opened it
          opened,     \* numbers of the owned paths of this spawn, by stream
          foreign,    \* a number this run had not opened was closed
          pending,    \* text still in the borrowed file object's buffer
          file,       \* what reached the borrowed file, in order
          bound,      \* what each stream of the child is
          child,      \* the child process
          cpu,        \* RUSAGE_CHILDREN now and when the run began
          usage       \* what the run reports for the child

launchVars == <<scope, announced, executed, fds, opened, foreign, pending, file,
                bound, child, cpu, usage>>

Nothing == [exe |-> "none", argv |-> <<>>, env |-> <<>>]
NoChild == [st |-> "none", session |-> FALSE, killed |-> FALSE]
Live == {"running", "exited"}

LaunchType ==
    /\ fds \in [Numbers -> {"free", "run", "caller", "other"}]
    /\ opened \in [Streams -> Numbers \cup {0}]
    /\ file \in Seq({"caller", "child"}) /\ pending \in BOOLEAN /\ foreign \in BOOLEAN
    /\ child.st \in {"none", "running", "exited", "reaped"}

LaunchInit ==
    /\ scope = [exe |-> "answer", env |-> opts.scopeEnv, closed |-> FALSE]
    /\ announced = Nothing /\ executed = Nothing
    /\ fds = [n \in Numbers |->
                IF \E s \in Streams : opts.target[s].kind \in {"fd", "object"}
                                      /\ opts.target[s].fd = n
                THEN "caller" ELSE "free"]
    /\ opened = [s \in Streams |-> 0] /\ foreign = FALSE
    /\ pending = (\E s \in Streams : opts.target[s].kind = "object")
    /\ file = <<>> /\ bound = [s \in Streams |-> "none"]
    /\ child = NoChild /\ cpu = [now |-> 0, before |-> 0] /\ usage = -1

(* ---------------------- executable and environment ---------------------- *)

Bindings == MergeBindings(opts.outer, opts.inner)

\* The path of the binding, what the resolver answers now, or the catalogued
\* name of an unbound program.
ResolveExecutable ==
    IF opts.program \notin DOMAIN Bindings THEN opts.program
    ELSE IF Bindings[opts.program].resolver THEN scope.exe
    ELSE Bindings[opts.program].path

CanRaise == opts.program \in DOMAIN Bindings /\ Bindings[opts.program].resolver

\* The observation is given the executable and the overlay before anything is
\* emitted; the executable is not resolved again.
PrepareObservation ==
    /\ announced' = [exe |-> ResolveExecutable, argv |-> Argv(opts.build),
                     env |-> RenderEnv(ResolveEnv(scope.env, opts.callEnv))]
    /\ UNCHANGED <<scope, executed, fds, opened, foreign, pending, file, bound, child, cpu, usage>>

\* The descriptors of the file objects the run borrows.
Borrowed == {opts.target[s].fd : s \in {z \in Streams : opts.target[z].kind = "object"}}

\* A before hook may leave a scope open, replace what a resolver answers, or
\* close the file object the run borrowed.
HookChanges(what) ==
    /\ scope' = CASE what = "env" -> [scope EXCEPT !.env = opts.hookEnv]
                  [] what = "exe" -> [scope EXCEPT !.exe = "another"]
                  [] what = "file" -> [scope EXCEPT !.closed = TRUE]
    /\ fds' = [n \in Numbers |-> IF what = "file" /\ n \in Borrowed THEN "free" ELSE fds[n]]
    /\ pending' = (pending /\ what # "file")   \* close() flushes
    /\ file' = IF what = "file" /\ pending THEN Append(file, "caller") ELSE file
    /\ UNCHANGED <<announced, executed, opened, foreign, bound, child, cpu, usage>>

(* --------------------------- standard streams --------------------------- *)

\* A negative number, whoever named it, is a sentinel to subprocess.
UsableDescriptor(t) == t.kind \in {"fd", "object"} => t.fd >= 0

\* fileno() refuses a closed file object when the binding is resolved.
Resolvable == /\ ~ContestedStdin(opts)
              /\ \A s \in Streams : opts.target[s].kind = "object" => ~scope.closed
              /\ \A s \in Streams : UsableDescriptor(opts.target[s])

SampleRunStart ==
    /\ cpu' = [cpu EXCEPT !.before = cpu.now]
    /\ UNCHANGED <<scope, announced, executed, fds, opened, foreign, pending, file, bound, child, usage>>

Free == {n \in Numbers : fds[n] = "free"}
Lowest == CHOOSE n \in Free : \A m \in Free : n <= m

\* The kernel hands out the lowest free number.
OpenOwnedPath(s) ==
    /\ fds' = [fds EXCEPT ![Lowest] = "run"] /\ opened' = [opened EXCEPT ![s] = Lowest]
    /\ UNCHANGED <<scope, announced, executed, foreign, pending, file, bound, child, cpu, usage>>

Owned(s) == opts.target[s].kind = "path" /\ opened[s] = 0

FlushBorrowed ==
    /\ pending' = FALSE /\ file' = IF pending THEN Append(file, "caller") ELSE file
    /\ UNCHANGED <<scope, announced, executed, fds, opened, foreign, bound, child, cpu, usage>>

\* What the child is given for one stream.  A pipe nobody reads is /dev/null.
OutputStdio(s) ==
    IF IsPipe(opts.target[s]) THEN IF Consumes(opts, s) THEN "pipe" ELSE "devnull"
    ELSE IF opened[s] # 0 THEN fds[opened[s]]
    ELSE IF opts.target[s].kind = "inherit" THEN "inherit"
    ELSE fds[opts.target[s].fd]

\* Fault: the executable is resolved again when the child is started.
SpawnResolvesAgain ==
    /\ child' = [NoChild EXCEPT !.st = "running"]
    /\ bound' = [s \in Streams |-> OutputStdio(s)]
    /\ executed' = [exe |-> ResolveExecutable, argv |-> Argv(opts.build),
                    env |-> RenderEnv(ResolveEnv(scope.env, opts.callEnv))]
    /\ UNCHANGED <<scope, announced, fds, opened, foreign, pending, file, cpu, usage>>

Spawn ==
    /\ child' = [NoChild EXCEPT !.st = "running"]
    /\ bound' = [s \in Streams |-> OutputStdio(s)]
    /\ executed' = [exe |-> announced.exe, argv |-> Argv(opts.build),
                    env |-> RenderEnv(ResolveEnv(scope.env, opts.callEnv))]
    /\ UNCHANGED <<scope, announced, fds, opened, foreign, pending, file, cpu, usage>>

\* Closing gives the number back, whoever holds it by then.
CloseOwned ==
    LET mine == {opened[s] : s \in Streams} \ {0}
    IN  /\ fds' = [n \in Numbers |-> IF n \in mine THEN "free" ELSE fds[n]]
        /\ foreign' = (foreign \/ \E n \in mine : fds[n] # "run")
        /\ opened' = [s \in Streams |-> 0]
        /\ UNCHANGED <<scope, announced, executed, pending, file, bound, child, cpu, usage>>

(* ------------------------------ the child ------------------------------- *)

\* The child writes to the file it was given.
ChildFiles ==
    /\ child.st = "running" /\ Len(file) < 3
    /\ \E s \in Streams : opts.target[s].kind = "object" /\ bound[s] = "caller"
    /\ file' = Append(file, "child")
    /\ UNCHANGED <<scope, announced, executed, fds, opened, foreign, pending, bound, child, cpu, usage>>

\* The child is gone and has been waited for.
Reaped(killed) ==
    /\ child' = [child EXCEPT !.st = "reaped", !.killed = child.killed \/ killed]
    /\ cpu' = [cpu EXCEPT !.now = cpu.now + Own]

SettleSpawnedChild ==
    /\ Reaped(TRUE)
    /\ UNCHANGED <<scope, announced, executed, fds, opened, foreign, pending, file, bound, usage>>

\* wait4 reports this child alone; the fallback is what all children added.
ResourceUsage ==
    /\ usage' = IF opts.wait4 THEN Own ELSE cpu.now - cpu.before
    /\ UNCHANGED <<scope, announced, executed, fds, opened, foreign, pending, file, bound, child, cpu>>

(* ------------------------- the rest of the program ---------------------- *)

\* Another thread opens a file.
OtherOpens ==
    /\ Free # {} /\ \A n \in Numbers : fds[n] # "other"
    /\ fds' = [fds EXCEPT ![Lowest] = "other"]
    /\ UNCHANGED <<scope, announced, executed, opened, foreign, pending, file, bound, child, cpu, usage>>

\* Another child of the program is reaped.
OtherReaped ==
    /\ cpu.now < 2 * Own /\ cpu' = [cpu EXCEPT !.now = cpu.now + 1]
    /\ UNCHANGED <<scope, announced, executed, fds, opened, foreign, pending, file, bound, child, usage>>

(* --------------------------- detached launch ---------------------------- *)

\* Popen returned the child in its own session.
SpawnDetached ==
    /\ child' = [NoChild EXCEPT !.st = "running", !.session = TRUE]
    /\ executed' = [exe |-> ResolveExecutable, argv |-> Argv(opts.build),
                    env |-> RenderEnv(ResolveEnv(scope.env, opts.callEnv))]
    /\ bound' = [s \in Streams |-> "devnull"]
    /\ UNCHANGED <<scope, announced, fds, opened, foreign, pending, file, cpu, usage>>

\* Popen failed after the fork: it has reaped the child itself, or the child
\* is there, with its own group or still in ours.
PartialSpawn(st, session) ==
    /\ child' = [st |-> st, session |-> session, killed |-> FALSE]
    /\ UNCHANGED <<scope, announced, executed, fds, opened, foreign, pending, file, bound, cpu, usage>>

\* killpg reaches a child that leads its own group; with no such group the
\* child is signalled alone.
Signalled(c, how) == CASE how = "killpg" -> c.session [] how = "kill" -> TRUE
KillPartial(c) == [c EXCEPT !.killed = Signalled(c, "killpg") \/ Signalled(c, "kill")]

\* WNOHANG reaps a child that has exited; ECHILD means Popen did; else the
\* child is killed and waited for.
ReclaimPartialSpawn ==
    /\ child' = CASE child.st = "running" -> [KillPartial(child) EXCEPT !.st = "reaped"]
                  [] child.st = "exited" -> [child EXCEPT !.st = "reaped"]
                  [] OTHER -> child
    /\ UNCHANGED <<scope, announced, executed, fds, opened, foreign, pending, file, bound, cpu, usage>>

\* killpg, then a blocking waitpid.
AbandonDetached ==
    /\ child' = [child EXCEPT !.st = "reaped", !.killed = TRUE]
    /\ UNCHANGED <<scope, announced, executed, fds, opened, foreign, pending, file, bound, cpu, usage>>

\* The detached child ends by itself; nobody waits for it.
DetachedExits ==
    /\ child.st = "running" /\ child.session
    /\ child' = [child EXCEPT !.st = "exited"]
    /\ UNCHANGED <<scope, announced, executed, fds, opened, foreign, pending, file, bound, cpu, usage>>
=============================================================================
