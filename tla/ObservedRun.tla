----------------------------- MODULE ObservedRun -----------------------------
(***************************************************************************)
(* SafeCmd.run from its request to its answer, with everybody who watches: *)
(* the launch (Launch), the observers (Telemetry) and the log              *)
(* (Presentation), in the order _command_prepare.py, _subprocess_execution *)
(* .py and _command_finalization.py give them.  How the live child is      *)
(* driven to its end is CommandRun; here it exits, expires, is cancelled   *)
(* or fails.  SafeCmd.launch_detached has its own short path.              *)
(***************************************************************************)
EXTENDS Launch, Telemetry, Presentation, SideObservers

VARIABLES pc,      \* what the run does next
          result,  \* exit status of a run that completed: "zero", "nonzero"
          error,   \* why it ends instead: "error", "timeout", "cancelled"
          raised,  \* "start": a start hook raised; "close": closing the session did
          answer   \* what the caller got

controlVars == <<pc, result, error, raised, answer>>
vars == <<opts, launchVars, telemetryVars, presentationVars, sideVars, controlVars>>

watched == <<telemetryVars, presentationVars>>
quiet == <<launchVars, watched>>

TypeOK == LaunchType /\ TelemetryType /\ PresentationType /\ SideType

Init == /\ opts \in Requests
        /\ LaunchInit /\ TelemetryInit /\ PresentationInit /\ SideInit
        /\ pc = "request" /\ result = "none" /\ error = "none" /\ raised = {} /\ answer = "none"

Goto(l) == pc' = l /\ UNCHANGED <<opts, sideVars, result, error, raised, answer>>
Fail(e, l) == pc' = l /\ error' = e /\ UNCHANGED <<opts, sideVars, result, raised, answer>>
Answer(a) == pc' = "done" /\ answer' = a /\ UNCHANGED <<opts, sideVars, result, error, raised>>

(* ------------------------------ preparing ------------------------------- *)

\* Building the command and its options, then what the entry point checks in
\* its own order, before anything is opened or anybody told.  A line stream
\* and a pipeline go on in modules of their own.
Request ==
    /\ pc = "request" /\ UNCHANGED quiet
    /\ IF ~Constructible(opts) \/ RefusedFirst(opts) THEN Answer("refused")
       ELSE IF ~Allowed(opts) THEN Answer("forbidden")
       ELSE IF RefusedThen(opts) THEN Answer("refused")
       ELSE IF opts.entry \in {"lines", "pipeline"} THEN Answer("handed on")
       ELSE Goto(IF opts.detached THEN "detach" ELSE "session")

Open == /\ pc = "session" /\ OpenSession /\ Goto("observe")
        /\ UNCHANGED <<launchVars, telemetryVars>>

Observe ==
    /\ pc = "observe" /\ UNCHANGED watched
    /\ \/ PrepareObservation /\ Goto("plan")
       \/ CanRaise /\ Fail("error", "close") /\ UNCHANGED launchVars

Plan == /\ pc = "plan" /\ UNCHANGED <<launchVars, presentationVars>>
        /\ \E r \in Reactions : /\ Emit("plan", r)
                                /\ IF r = "raises" THEN Fail("error", "close") ELSE Goto("before")

\* A before hook: returns, raises, or changes what the run depends on.
Before ==
    /\ pc = "before" /\ UNCHANGED watched
    /\ \/ Goto("build") /\ UNCHANGED launchVars
       \/ opts.before = "raises" /\ Fail("error", "close") /\ UNCHANGED launchVars
       \/ opts.before \in {"env", "exe", "file"} /\ HookChanges(opts.before) /\ Goto("build")

Build == /\ pc = "build" /\ UNCHANGED quiet
         /\ IF ~Resolvable THEN Fail("error", "close")
            ELSE Goto(IF opts.entry = "start" THEN "open" ELSE "sample")

(* ------------------------------- spawning ------------------------------- *)

Sample == pc = "sample" /\ SampleRunStart /\ Goto("open") /\ UNCHANGED watched

\* A stdio_error event is best effort: a hook's failure is swallowed.
ReportStdio == (\E r \in Reactions : Emit("stdio_error", r)) /\ UNCHANGED presentationVars

\* stdout's path before stderr's; what was opened is closed on a failure.
NextOwned == IF Owned("stdout") THEN "stdout" ELSE "stderr"

OpenPaths ==
    /\ pc = "open"
    /\ IF \A s \in Streams : ~Owned(s) THEN Goto("flush") /\ UNCHANGED quiet
       ELSE \/ Free # {} /\ OpenOwnedPath(NextOwned) /\ Goto("open") /\ UNCHANGED watched
            \/ ReportStdio /\ Fail("error", "release") /\ UNCHANGED launchVars

Borrows == \E s \in Streams : opts.target[s].kind = "object"

Flush ==
    /\ pc = "flush"
    /\ \/ FlushBorrowed /\ Goto("popen") /\ UNCHANGED watched
       \/ Borrows /\ ReportStdio /\ Fail("error", "release") /\ UNCHANGED launchVars

Popen ==
    /\ pc = "popen" /\ UNCHANGED watched
    /\ \/ Spawn /\ Goto("connect")
       \/ Fail("error", "release") /\ UNCHANGED launchVars

\* The pipes are connected in a suspension: a failure or a cancellation there
\* stops the child that already runs.
Connect ==
    /\ pc = "connect" /\ UNCHANGED watched
    /\ \/ Goto("release") /\ UNCHANGED launchVars
       \/ \E e \in {"error", "cancelled"} : Fail(e, "release") /\ SettleSpawnedChild

\* Fault: the run's copies are closed only when the child was started.
ReleaseOnSuccess == /\ pc = "release" /\ UNCHANGED watched
                    /\ IF error = "none" THEN CloseOwned /\ Goto("start")
                       ELSE Goto("close") /\ UNCHANGED launchVars

Release == /\ pc = "release" /\ CloseOwned /\ UNCHANGED watched
           /\ Goto(IF error = "none" THEN "start" ELSE "close")

\* A start hook that raises leaves the child behind.
Start ==
    /\ pc = "start" /\ opts.entry # "start"
    /\ UNCHANGED <<opts, sideVars, launchVars, presentationVars, result, answer>>
    /\ \E r \in Reactions :
           /\ Emit("start", r)
           /\ IF r = "raises" THEN pc' = "close" /\ error' = "error" /\ raised' = raised \cup {"start"}
              ELSE pc' = "monitor" /\ UNCHANGED <<error, raised>>

\* SafeCmd.start stops the child before it lets a hook's error out...
StartHandle ==
    /\ pc = "start" /\ opts.entry = "start" /\ UNCHANGED presentationVars
    /\ \E r \in Reactions :
           /\ Emit("start", r)
           /\ IF r = "raises" THEN Fail("error", "close") /\ SettleSpawnedChild
              ELSE Goto("attach") /\ UNCHANGED launchVars

\* ...or the error of a writer or reader that cannot be set up.  Then the
\* handle owns the child, its session and its hook tasks (HandleSettlement).
AttachRunTasks ==
    /\ pc = "attach" /\ UNCHANGED watched
    /\ \/ Answer("handle") /\ UNCHANGED launchVars
       \/ Fail("error", "close") /\ SettleSpawnedChild

(* ------------------------------ while live ------------------------------ *)

Monitor == pc = "monitor" /\ LaunchIdle /\ Goto("live") /\ UNCHANGED <<launchVars, telemetryVars>>

ChildEnds(killed) == /\ Reaped(killed)
                     /\ UNCHANGED <<scope, announced, executed, fds, opened, foreign, pending,
                                    file, bound, usage>>

\* A line of output is emitted to the hooks; one that raises ends the run.
Line == /\ pc = "live" /\ count.lines < opts.lines /\ UNCHANGED presentationVars
        /\ \E r \in Reactions :
               /\ Emit("stdout", r)
               /\ IF r = "raises" THEN Fail("error", "stop") /\ ChildEnds(TRUE)
                  ELSE Goto("live") /\ UNCHANGED launchVars

Exits(status) ==
    /\ pc = "live" /\ ChildEnds(FALSE) /\ UNCHANGED watched
    /\ pc' = "stop" /\ result' = status /\ UNCHANGED <<opts, sideVars, error, raised, answer>>

Cancelled == /\ pc = "live" /\ ChildEnds(TRUE) /\ Fail("cancelled", "stop") /\ UNCHANGED watched

\* Expiry: the timeout event is best effort...
Expires == /\ pc = "live" /\ ChildEnds(TRUE) /\ Goto("expired") /\ UNCHANGED presentationVars
           /\ \E r \in Reactions : Emit("timeout", r)

\* ...and the exit event is not: a hook that raises replaces TimeoutExpired.
ExitOfExpired ==
    /\ pc = "expired" /\ UNCHANGED <<launchVars, presentationVars>>
    /\ \E r \in Reactions :
           Emit("exit", r) /\ Fail(IF r = "raises" THEN "error" ELSE "timeout", "stop")

Stop == pc = "stop" /\ StopIdle /\ Goto("stopping") /\ UNCHANGED <<launchVars, telemetryVars>>

Stopped == /\ pc = "stopping" /\ idle.task \in {"none", "ended"} /\ UNCHANGED quiet
           /\ Goto(IF error = "none" THEN "usage" ELSE "close")

Usage == pc = "usage" /\ ResourceUsage /\ Goto("exit") /\ UNCHANGED watched

Exit == /\ pc = "exit" /\ UNCHANGED <<launchVars, presentationVars>>
        /\ \E r \in Reactions : /\ Emit("exit", r)
                                /\ IF r = "raises" THEN Fail("error", "close") ELSE Goto("after")

After == /\ pc = "after" /\ UNCHANGED quiet
         /\ \/ Goto("close")
            \/ opts.after = "raises" /\ Fail("error", "close")

(* ------------------------------ finalizing ------------------------------ *)

\* _outcome_for_error and _outcome_for_result.
Outcome == IF error # "none" THEN error
           ELSE IF result = "zero" THEN "exit_zero" ELSE "exit_nonzero"

Close == /\ pc = "close" /\ CloseSession(Outcome) /\ Goto("settle")
         /\ UNCHANGED <<launchVars, telemetryVars>>

\* The error of a session that cannot be closed leaves the finalizer at once:
\* no terminal event, and no wait for the hooks' tasks.
CloseRaises ==
    /\ pc = "close" /\ opts.logGone /\ CloseSessionRaises
    /\ UNCHANGED <<launchVars, telemetryVars>>
    /\ pc' = "done" /\ answer' = "raised" /\ raised' = raised \cup {"close"} /\ UNCHANGED <<opts, sideVars, result, error>>

\* On success a hook's failure is raised after the drain; on failure the run's
\* own error stays.
Settle == /\ pc = "settle" /\ UNCHANGED <<launchVars, presentationVars>>
          /\ \E r \in Reactions :
                 /\ EmitTerminal(Outcome, r)
                 /\ pc' = IF r = "raises" /\ error = "none" THEN "drainFailed" ELSE "drain"
                 /\ UNCHANGED <<opts, sideVars, result, error, raised, answer>>

\* Every task is awaited; the first failure is raised, in a group with the
\* run's own error if there is one.
Drain == /\ pc = "drain" /\ TasksEnded /\ UNCHANGED quiet
         /\ Answer(IF TaskFailed THEN "raised" ELSE IF error # "none" THEN error ELSE "result")

DrainFailed == pc = "drainFailed" /\ TasksEnded /\ UNCHANGED quiet /\ Answer("raised")

(* --------------------------- detached launch ---------------------------- *)

\* Popen: the child, an error with no child, or an error after the fork.
Detach ==
    /\ pc = "detach" /\ UNCHANGED watched
    /\ \/ SpawnDetached /\ Goto("receipt")
       \/ Answer("error") /\ UNCHANGED launchVars
       \/ \E st \in {"running", "exited", "reaped"}, own \in BOOLEAN :
              PartialSpawn(st, own) /\ Goto("reclaim")

Reclaim == pc = "reclaim" /\ ReclaimPartialSpawn /\ Answer("error") /\ UNCHANGED watched

\* The receipt is built, the caller is given one chance to cancel.
Receipt ==
    /\ pc = "receipt" /\ UNCHANGED watched
    /\ \/ Answer("receipt") /\ UNCHANGED launchVars
       \/ \E e \in {"error", "cancelled"} : Answer(e) /\ AbandonDetached

(* ---------------------------- the environment --------------------------- *)

Busy == pc \notin {"request", "done"}
KeepsControl == UNCHANGED <<opts, sideVars, controlVars>>

Outside ==
    /\ KeepsControl
    /\ \/ Busy /\ "opens" \in opts.others /\ OtherOpens /\ UNCHANGED watched
       \/ Busy /\ "reaps" \in opts.others /\ OtherReaped /\ UNCHANGED watched
       \/ ChildFiles /\ UNCHANGED watched
       \/ DetachedExits /\ UNCHANGED watched
       \/ (AsideLooksUp \/ AsideWrites) /\ Busy /\ UNCHANGED <<launchVars, presentationVars>>

Display ==
    /\ KeepsControl /\ UNCHANGED <<launchVars, telemetryVars>>
    /\ \/ pc = "live" /\ (\E s \in Streams, t \in {"text", "part", "command"} : ChildWrites(s, t))
       \/ pc = "live" /\ Tick
       \/ IdleWakes

MonitorEnds == KeepsControl /\ IdleEnds /\ UNCHANGED <<launchVars, telemetryVars>>

HookTasks == KeepsControl /\ UNCHANGED <<launchVars, presentationVars>>
             /\ \E i \in DOMAIN tasks : TaskEnds(i)

\* The context's other code and the operations that report beside the run.
\* They touch nothing of it, so they may as well come after it.
Beside == pc = "done" /\ answer = "result" /\ SideStep /\ UNCHANGED <<opts, controlVars, quiet>>

Ending == (\E status \in {"zero", "nonzero"} : Exits(status)) \/ Cancelled \/ Expires

\* What the run does by itself.
Run == \/ Request \/ Open \/ Observe \/ Plan \/ Before \/ Build
       \/ Sample \/ OpenPaths \/ Flush \/ Popen \/ Connect \/ Release \/ Start
       \/ StartHandle \/ AttachRunTasks
       \/ Monitor \/ ExitOfExpired \/ Stop \/ Stopped \/ Usage \/ Exit \/ After
       \/ Close \/ CloseRaises \/ Settle \/ Drain \/ DrainFailed
       \/ Detach \/ Reclaim \/ Receipt

Next == Run \/ Line \/ Ending \/ Outside \/ Display \/ MonitorEnds \/ HookTasks \/ Beside

\* The run's own steps happen, a cancelled monitor ends, a hook's task ends,
\* and the child is one that ends or is ended.
Fairness == WF_vars(Run) /\ WF_vars(Ending) /\ WF_vars(HookTasks) /\ WF_vars(MonitorEnds)

Spec == Init /\ [][Next]_vars /\ Fairness

(* ------------------------------ properties ------------------------------ *)

Done == pc = "done"

\* A refused or forbidden request has done nothing at all.  Otherwise, when
\* the caller has its answer, the run has closed every descriptor it opened
\* and no other thread's; no child is left without a handle, except one whose
\* start hook raised in run;
\* a detached launch left its child alone when it answered with a receipt and
\* killed and reaped it when it raised (_subprocess_spawn.py, _stdio_ownership
\* .py, _detached_launch.py).
NothingLeaked ==
    /\ ~foreign
    /\ Done => /\ \A n \in Numbers : fds[n] # "run"
               /\ answer \in {"refused", "forbidden"} =>
                      executed = Nothing /\ session.st = "none" /\ ~planned
               /\ child.st \in Live => answer \in {"receipt", "handle"} \/ "start" \in raised
               /\ answer = "handle" => child.st # "none" /\ ~child.killed
               /\ answer = "receipt" => ~child.killed /\ child.st # "reaped"

\* A builder's arguments read as the caller asked, whatever the paths are
\* called (builders/tar.py, rsync.py, git.py).
ArgumentsAsAsked ==
    executed # Nothing /\ ~opts.detached => ArgvAsAsked(opts.build, executed.argv)

\* What was announced is what ran: the child was started with the executable
\* and arguments the observers were given, though a hook may have changed what
\* the resolver answers since; the child has the environment they were given
\* unless a before hook changed the scope; each stream is a pipe exactly when
\* the run reads it and never another thread's file; a borrowed file never has
\* the child's text before the text its owner had written; wait4 usage is the
\* child's alone and the fallback never less; and a handle, a line stream and a
\* pipeline have the streams they will read (_command_internals.py,
\* _subprocess_spawn.py, _wait4_spawn.py).
StartedAsAnnounced ==
    /\ executed # Nothing /\ ~opts.detached =>
           /\ executed.exe = announced.exe /\ executed.argv = announced.argv
           /\ opts.before # "env" => executed.env = announced.env
           /\ \A s \in Streams : (bound[s] = "pipe") = Consumes(opts, s)
           /\ \A s \in Streams : bound[s] # "other"
    /\ \A i, j \in DOMAIN file : file[i] = "caller" /\ file[j] = "child" => i < j
    /\ "child" \in ToSet(file) => ~pending
    /\ usage >= 0 => IF opts.wait4 THEN usage = Own ELSE usage >= Own
    /\ answer = "handed on" =>
           IsPipe(opts.target["stdout"]) /\ (opts.entry = "pipeline" => IsPipe(opts.target["stderr"]))
    /\ answer = "handle" => \A s \in Streams : bound[s] = "pipe"

\* A planned run settles once for its observers, whichever hook failed: when
\* the caller has its answer the span that was opened is ended once, with the
\* status of the outcome, is out of the registry and got nothing after its
\* end; outcomes and failures are counted once; the session closed with the
\* same outcome; no hook task still runs, and a failed one reached the caller.
\* The exceptions are a session whose close raised and a handle, which settles
\* later (_command_finalization.py).
SettledOnce ==
    /\ span.ends <= 1 /\ (span.st = "ended" => span.events = span.sealed)
    /\ Done /\ planned /\ "close" \notin raised /\ answer # "handle" =>
           /\ terminal # "none" /\ ~active /\ span.st # "open"
           /\ span.st = "ended" => span.ok = (terminal = "exit_zero")
           /\ count.outcomes = 1 /\ count.failures = (IF terminal = "exit_zero" THEN 0 ELSE 1)
           /\ terminal \in {"exit_zero", "exit_nonzero"} => count.executions = 1
           /\ session.st = "closed" => session.outcome = terminal
           /\ TasksEnded /\ (TaskFailed => answer = "raised")
           /\ answer = "result" => terminal = Outcome /\ error = "none"

\* What observers were told is what happened, from the launch to the terminal
\* event (_command_internals.py, _subprocess_spawn.py, _wait4_spawn.py,
\* _command_finalization.py).
RunAsTold == StartedAsAnnounced /\ SettledOnce

\* What the caller supplied has the effect he supplied it for: the tool reads
\* the arguments as he meant them (builders/); what a hook is given holds no
\* letter a redaction rule matched and all the others (redaction.py); and the
\* hooks of the other channels hear what they were registered for without
\* changing the run (control_observation.py).
InputsHonoured == ArgumentsAsAsked /\ ExportedSafely /\ SideChannelHonest

\* A heartbeat is shown only after a whole interval without output and a whole
\* interval after the one before, never once the monitor was stopped, and on a
\* line of its own.  While a framing session is open the runner obeys nothing
\* the child writes; once it is closed the lease is given back, the group is
\* closed and there is an annotation exactly for a run that did not exit with
\* zero, unless the output ended inside a line (_idle_heartbeat.py,
\* sinks/github_actions.py).
LogHonest ==
    /\ beat.at >= 0 => /\ beat.silent >= opts.idleAfter /\ beat.gap >= opts.idleAfter
                       /\ beat.fresh /\ beat.live
    /\ session.st = "open" /\ Frames => log.lease /\ log.group /\ ~log.obeyed
    /\ session.st = "closed" /\ ~torn /\ "close" \notin raised =>
           /\ ~log.lease /\ ~log.group /\ (Frames => ~log.obeyed)
           /\ log.errors = (IF Annotates /\ session.outcome # "exit_zero" THEN 1 ELSE 0)

\* Every request is answered: a child that ends, hook tasks that end and the
\* run's own steps are enough, whichever part failed on the way.
EveryRunAnswered == <>Done
=============================================================================
