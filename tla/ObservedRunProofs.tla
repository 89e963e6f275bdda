-------------------------- MODULE ObservedRunProofs --------------------------
(***************************************************************************)
(* An observed run for every set of requests, every environment, table of  *)
(* descriptors and child: nothing is leaked, what was announced is what    *)
(* ran, the observers settle once, and the log is honest.                  *)
(*                                                                         *)
(* LeakInv says who owns each descriptor and what has become of the child  *)
(* at every await; the others are inductive with its help.  LogInv keeps   *)
(* the schedule of the heartbeat, the cursor and the frame.  SettleInv     *)
(* ties span, counters and terminal event to each other and to the run's   *)
(* outcome.  StartInv follows what was announced through the before hooks  *)
(* and the opening of the streams to the child, and the caller's text in a *)
(* borrowed file.                                                          *)
(***************************************************************************)
EXTENDS ObservedRun, TLAPS, SequenceTheorems, WellFoundedInduction

-----------------------------------------------------------------------------
(* Where the run can be. *)

\* No child has been started.
Unborn == {"request", "session", "observe", "plan", "before", "build", "sample",
           "open", "flush", "popen", "detach"}

\* The run holds the descriptors of the paths it owns.
Holding == {"open", "flush", "popen", "connect", "release"}

\* The child has been waited for.
Collected == {"expired", "stop", "stopping", "usage", "exit", "after"}

\* The run is being finalized.
Final == {"close", "settle", "drain", "drainFailed"}

Errors == {"none", "error", "timeout", "cancelled"}

\* An answer is given once, and nothing was touched before the request was
\* accepted, or if it never was.
Control ==
    /\ error \in Errors /\ result \in {"none", "zero", "nonzero"}
    /\ pc # "done" => answer = "none"
    /\ pc = "request" \/ answer \in {"refused", "forbidden"} =>
           executed = Nothing /\ session.st = "none" /\ ~planned

\* The numbers marked as the run's are those of its owned paths.
Descriptors ==
    /\ fds \in [Numbers -> {"free", "run", "caller", "other"}]
    /\ opened \in [Streams -> Numbers \cup {0}]
    /\ \A s \in Streams : opened[s] # 0 => fds[opened[s]] = "run"
    /\ \A n \in Numbers : fds[n] = "run" => \E s \in Streams : opened[s] = n
    /\ pc \notin Holding => \A s \in Streams : opened[s] = 0
    /\ ~foreign

\* What has become of the child at every await.
Offspring ==
    /\ child \in [st : {"none", "running", "exited", "reaped"}, session : BOOLEAN, killed : BOOLEAN]
    /\ pc \in Unborn => child = NoChild
    /\ pc \in {"connect", "start", "attach", "monitor", "live"} \/ (pc = "release" /\ error = "none") =>
           child.st = "running" /\ ~ child.session /\ ~ child.killed
    /\ pc \in Unborn \cup {"connect"} => error = "none"
    /\ pc = "release" /\ error # "none" => child.st \notin Live
    /\ pc \in Collected => child.st = "reaped"
    /\ pc \in Final => child.st \notin Live \/ "start" \in raised
    /\ pc = "receipt" => child.st \in Live /\ ~ child.killed
    /\ pc = "done" =>
           /\ child.st \in Live => answer \in {"receipt", "handle"} \/ "start" \in raised
           /\ answer = "handle" => child.st # "none" /\ ~ child.killed
           /\ answer = "receipt" => ~ child.killed /\ child.st # "reaped"

LeakInv == Control /\ Descriptors /\ Offspring

-----------------------------------------------------------------------------
(* The log. *)

\* The session has been closed, or there was none.
Over == {"settle", "drain", "drainFailed", "done"}

\* Nothing is monitored before these.
Late == Collected \cup Final \cup {"live", "done"}

LogRecord == [open : BOOLEAN, lease : BOOLEAN, group : BOOLEAN, errors : Nat, obeyed : BOOLEAN]

LogTypes ==
    /\ opts \in Requests
    /\ clock \in Nat /\ midLine \in BOOLEAN /\ torn \in BOOLEAN
    /\ beat \in [at : Int, silent : Int, gap : Int, fresh : BOOLEAN, live : BOOLEAN]
    /\ idle \in [task : {"none", "asleep", "cancelled", "ended"}, started : Nat, activity : Nat,
                 deadline : Int, wake : Int, stopped : BOOLEAN]
    /\ log \in LogRecord
    /\ session \in [st : {"none", "open", "closed"}, outcome : Outcomes \cup {"none", "unwritten"}]

\* A monitor that sleeps owes the next heartbeat a whole interval after the
\* latest output and after the heartbeat before.
Schedule ==
    /\ pc \notin Late => idle.task = "none" /\ beat = NoBeat
    /\ beat.at <= clock /\ idle.activity <= clock
    /\ idle.task = "asleep" =>
           /\ opts.idleAfter > 0
           /\ idle.deadline >= idle.activity + opts.idleAfter
           /\ beat.at >= 0 => idle.deadline >= beat.at + opts.idleAfter
    /\ beat.at >= 0 => /\ beat.silent >= opts.idleAfter /\ beat.gap >= opts.idleAfter
                       /\ beat.fresh /\ beat.live

\* The cursor knows of an unfinished line of the log.
Cursor == opts.idleAfter > 0 /\ log.open => midLine

\* What the runner has been told, by the state of the session.
Framing ==
    /\ pc \notin Late => ~ log.open
    /\ pc \in {"request", "session"} => session.st = "none" /\ log = NoLog
    /\ ~ Frames => ~ log.lease /\ ~ log.group
    /\ session.st # "closed" => log.errors = 0
    /\ session.st = "open" /\ Frames => log.lease /\ log.group /\ ~ log.obeyed
    /\ session.st = "closed" =>
           /\ pc \in Over
           /\ ~ torn /\ "close" \notin raised =>
                  /\ ~ log.lease /\ ~ log.group /\ (Frames => ~ log.obeyed)
                  /\ log.errors = (IF Annotates /\ session.outcome # "exit_zero" THEN 1 ELSE 0)

LogInv == LogTypes /\ Schedule /\ Cursor /\ Framing

-----------------------------------------------------------------------------
(* The launch. *)

\* Not on the way from a session to the answer.
Elsewhere == {"request", "detach", "receipt", "reclaim", "done"}

\* The places of a run that holds what it announced, and was found resolvable.
Announcing == {"plan", "before", "build", "sample", "open", "flush", "popen"}
Resolved == {"sample", "open", "flush", "popen"}

Announced == [exe |-> announced.exe, argv |-> Argv(opts.build),
              env |-> RenderEnv(ResolveEnv(opts.scopeEnv, opts.callEnv))]

NoObject == \A s \in Streams : opts.target[s].kind # "object"

\* The run started a child by its announcement.
Spawned == child.st # "none" /\ ~ opts.detached

\* What the child will be given is what the observers were told.
Promised ==
    /\ opts \in Requests
    /\ scope \in [exe : {"answer", "another"}, env : {opts.scopeEnv, opts.hookEnv}, closed : BOOLEAN]
    /\ opts.before # "env" => scope.env = opts.scopeEnv
    /\ pc \in {"request", "session", "observe"} => scope.env = opts.scopeEnv
    /\ pc \in Announcing => announced = Announced
    /\ pc \in Resolved => Resolvable
    /\ executed # Nothing => child.st # "none"
    /\ Spawned => /\ announced = Announced
                  /\ executed.exe = announced.exe /\ executed.argv = announced.argv
                  /\ opts.before # "env" => executed.env = announced.env
    /\ pc \in {"detach", "receipt", "reclaim"} => opts.detached
    /\ pc \notin Elsewhere => ~ opts.detached
    /\ pc \notin Elsewhere /\ opts.entry = "start" => HandleStreamsAllowed(opts)

\* A caller's descriptor is the caller's until a hook closes its file.
Bound ==
    /\ \A s \in Streams :
           /\ opts.target[s].kind \in {"fd", "object"} /\ opts.target[s].fd >= 0
           /\ ~ scope.closed \/ NoObject
           => fds[opts.target[s].fd] = "caller"
    /\ pc \in {"flush", "popen"} => \A s \in Streams : ~ Owned(s)
    /\ Spawned => \A s \in Streams : (bound[s] = "pipe" <=> Consumes(opts, s)) /\ bound[s] # "other"
    /\ pc = "attach" => opts.entry = "start"

\* Text the caller wrote before the launch comes first in a borrowed file.
Filed ==
    /\ file \in Seq({"caller", "child"}) /\ pending \in BOOLEAN
    /\ pc = "popen" => ~ pending
    /\ pending => \A i \in DOMAIN file : file[i] # "child"
    /\ (\E s \in Streams : bound[s] = "caller") => ~ pending
    /\ \A i, j \in DOMAIN file : file[i] = "caller" /\ file[j] = "child" => i < j

\* The clock of the children only moves on, by the child's own time at least.
Charged ==
    /\ cpu \in [now : Nat, before : Nat] /\ cpu.before <= cpu.now
    /\ pc \in Collected => cpu.before + Own <= cpu.now
    /\ usage \in Int
    /\ usage >= 0 => IF opts.wait4 THEN usage = Own ELSE usage >= Own

\* What the entry points that go on elsewhere, or give a handle, ask for.
Given ==
    /\ answer = "handed on" =>
           IsPipe(opts.target["stdout"]) /\ (opts.entry = "pipeline" => IsPipe(opts.target["stderr"]))
    /\ answer = "handle" => \A s \in Streams : bound[s] = "pipe"

StartInv == Promised /\ Bound /\ Filed /\ Charged /\ Given

-----------------------------------------------------------------------------
(* The observers. *)

SettleTypes ==
    /\ planned \in BOOLEAN /\ active \in BOOLEAN
    /\ span \in [st : {"none", "open", "ended"}, ok : BOOLEAN, ends : Nat, events : Nat, sealed : Nat]
    /\ count \in [{"executions", "outcomes", "failures", "stdio_errors", "lines"} -> Nat]

\* The start has not been told yet, and it has been.
Fresh == Unborn \cup {"connect", "release", "start"}
Started == {"attach", "monitor", "live", "expired"}

\* A span is open exactly while it is registered, and is ended once.
Spanned ==
    /\ active <=> span.st = "open"
    /\ span.st \in {"none", "open"} => span.ends = 0
    /\ span.st = "ended" => span.ends = 1 /\ span.events = span.sealed /\ terminal # "none"
                            /\ (span.ok <=> terminal = "exit_zero")
    /\ terminal # "none" => ~ active

\* Outcomes are counted with the terminal event, executions with the start.
Counted ==
    /\ count["outcomes"] = (IF terminal = "none" THEN 0 ELSE 1)
    /\ count["failures"] = (IF terminal \in {"none", "exit_zero"} THEN 0 ELSE 1)
    /\ pc \in Fresh => count["executions"] = 0
    /\ pc \in Started \/ result # "none" => count["executions"] = 1

\* Nothing has been planned, and the run's outcome is known.
Early == {"request", "session", "observe", "plan", "detach", "receipt", "reclaim"}
Decided == Final \cup {"stop", "stopping", "usage", "exit", "after"}

\* The run's own outcome is fixed when it is finalized, and told to all.
Settlement ==
    /\ pc \in Early => ~ planned
    /\ terminal # "none" => terminal = Outcome /\ pc \in {"drain", "drainFailed", "done"}
    /\ pc \in Decided => error # "none" \/ result # "none"
    /\ pc \in {"settle", "drain", "drainFailed"} /\ session.st = "closed" => session.outcome = Outcome
    /\ pc \in {"drain", "drainFailed"} /\ planned => terminal # "none"
    /\ pc = "drain" => terminal = Outcome \/ ~ planned
    /\ pc # "done" => "close" \notin raised
    /\ pc = "done" /\ planned /\ "close" \notin raised /\ answer # "handle" =>
           /\ terminal # "none"
           /\ session.st = "closed" => session.outcome = terminal
           /\ TasksEnded /\ (TaskFailed => answer = "raised")
           /\ answer = "result" => error = "none"
           /\ error = "none" => result # "none"

SettleInv == SettleTypes /\ Spanned /\ Counted /\ Settlement

-----------------------------------------------------------------------------
(* What is leaked. *)

LEMMA NatMin ==
    ASSUME NEW T, T \subseteq Nat, T # {}
    PROVE  \E n \in T : \A m \in T : n <= m
<1> DEFINE R == {ss \in Nat \X Nat : ss[1] < ss[2]}
<1>1. OpToRel(<, Nat) = R
  BY DEF OpToRel
<1>2. IsWellFoundedOn(R, Nat)
  BY <1>1, NatLessThanWellFounded
<1>3. PICK n \in T : \A m \in T : <<m, n>> \notin R
  <2> HIDE DEF R
  <2> QED
    BY <1>2, WFMin
<1>4. ASSUME NEW m \in T PROVE n <= m
  <2>1. n \in Nat /\ m \in Nat
    OBVIOUS
  <2>2. <<m, n>> \in Nat \X Nat /\ <<m, n>>[1] = m /\ <<m, n>>[2] = n
    BY <2>1
  <2>3. ~ (m < n)
    BY <1>3, <2>2
  <2> QED
    BY <2>1, <2>3
<1> QED
  BY <1>4

\* The kernel's choice is a free number.
LEMMA LowestFree == ASSUME Descriptors, Free # {} PROVE Lowest \in Numbers /\ fds[Lowest] = "free"
<1>1. Free \subseteq Nat /\ Free # {}
  BY LaunchAssumption DEF Free
<1>2. PICK n \in Free : \A m \in Free : n <= m
  BY <1>1, NatMin
<1>3. Lowest \in Free
  BY <1>2 DEF Lowest
<1> QED
  BY <1>3 DEF Free

LEMMA LeakInitial == Init => LeakInv
  BY LaunchAssumption DEF Init, LaunchInit, TelemetryInit, PresentationInit, LeakInv, Control,
       Descriptors,
     Offspring, Unborn, Holding, Collected, Final, Errors, NoChild, Live, Nothing, Streams

\* A step of the run that leaves the launch alone.
LEMMA LeakQuiet ==
    ASSUME LeakInv, pc # "done", UNCHANGED << opts, launchVars >>,
           error' \in Errors, result' \in {"none", "zero", "nonzero"}, raised \subseteq raised',
           pc' # "done" => answer' = answer, pc' # "request", pc' \in Unborn => error' = error,
           pc' = "done" => answer' \notin {"refused", "forbidden", "handle", "receipt"},
           pc \notin Holding \/ pc' \in Holding,
           \/ child.st \notin Live /\ pc' \in Final \cup {"done"}
           \/ "start" \in raised' /\ pc' \in Final \cup {"done"}
           \/ pc \in Unborn /\ pc' \in Unborn
           \/ pc \in Collected /\ pc' \in Collected
           \/ pc \in Unborn /\ pc' = "release" /\ error' # "none"
           \/ /\ pc \in {"connect", "start", "attach", "monitor", "live"}
              /\ pc' \in {"start", "attach", "monitor", "live"} \/ (pc' = "release" /\ error' = "none")
           \/ pc \in Final /\ pc' \in Final \cup {"done"}
    PROVE  LeakInv'
  BY DEF LeakInv, Control, Descriptors, Offspring, launchVars, Unborn, Holding, Collected,
       Final, Live, NoChild

LEMMA RequestLeaks == ASSUME LeakInv, Request PROVE LeakInv'
<1>1. /\ pc = "request" /\ UNCHANGED << opts, launchVars, planned, session, result, error, raised >>
      /\ child' = child /\ error' = error
      /\ \/ pc' \in {"detach", "session"} /\ answer' = answer
         \/ pc' = "done" /\ answer' \in {"refused", "forbidden", "handed on"}
  BY DEF Request, Answer, Goto, quiet, watched, launchVars, telemetryVars, presentationVars
<1>2. Control'
  BY <1>1 DEF LeakInv, Control, launchVars
<1>3. Descriptors'
  BY <1>1 DEF LeakInv, Descriptors, Holding, launchVars
<1>4. child = NoChild /\ error = "none"
  BY <1>1 DEF LeakInv, Offspring, Unborn
<1>5. child.st = "none"
  BY <1>4 DEF NoChild
<1>6. Offspring'
  BY <1>1, <1>4, <1>5 DEF LeakInv, Offspring, Unborn, Collected, Final, Live
<1> QED
  BY <1>2, <1>3, <1>6 DEF LeakInv

\* Before the child is started.
LEMMA PrepareLeaks ==
    ASSUME LeakInv, Open \/ Plan \/ Build
    PROVE  LeakInv'
<1>1. /\ pc \in {"session", "plan", "build"} /\ UNCHANGED << opts, launchVars, result, raised, answer >>
      /\ error' \in Errors /\ pc' \in {"observe", "close", "before", "open", "sample"}
      /\ pc' # "close" => error' = error
  BY DEF LeakInv, Control, Errors, Open, Plan, Build, Goto, Fail, quiet
<1>2. child.st = "none"
  BY <1>1 DEF LeakInv, Offspring, Unborn, NoChild
<1> QED
  BY <1>1, <1>2, LeakQuiet DEF LeakInv, Control, Unborn, Holding, Collected, Final, Live

LEMMA ObserveLeaks ==
    ASSUME LeakInv, Observe \/ Before \/ Sample
    PROVE  LeakInv'
<1>1. /\ pc \in {"observe", "before", "sample"} /\ UNCHANGED << opts, result, raised, answer >>
      /\ UNCHANGED << opened, foreign, child, executed, planned, session >>
      /\ error' \in Errors /\ pc' \in {"plan", "close", "build", "open"}
      /\ pc' # "close" => error' = error
      /\ fds' \in [Numbers -> {"free", "run", "caller", "other"}]
      /\ \A n \in Numbers : fds'[n] \in {"free", fds[n]}
  BY DEF LeakInv, Control, Descriptors, Errors, Observe, Before, Sample, Goto, Fail,
       PrepareObservation, HookChanges,
     SampleRunStart, watched, launchVars, telemetryVars, presentationVars
<1>2. \A s \in Streams : opened[s] = 0
  BY <1>1 DEF LeakInv, Descriptors, Holding
<1>3. child.st = "none" /\ child = NoChild
  BY <1>1 DEF LeakInv, Offspring, Unborn, NoChild
<1> QED
  BY <1>1, <1>2, <1>3 DEF LeakInv, Control, Descriptors, Offspring, Unborn, Holding, Collected,
       Final, Live

LEMMA OpenPathsLeaks == ASSUME LeakInv, OpenPaths PROVE LeakInv'
<1>1. CASE UNCHANGED launchVars
  <2>1. /\ pc = "open" /\ UNCHANGED << opts, result, raised, answer >>
        /\ error' \in Errors /\ pc' \in {"flush", "open", "release"} /\ (IF pc' = "release" THEN error' # "none" ELSE error' = error)
    BY <1>1 DEF LeakInv, Control, OpenPaths, Goto, Fail, Errors
  <2> QED
    BY <1>1, <2>1, LeakQuiet DEF LeakInv, Control, Unborn, Holding, Collected, Final, Live
<1>2. CASE Free # {} /\ OpenOwnedPath(NextOwned) /\ Goto("open") /\ UNCHANGED watched /\ Owned(NextOwned)
  <2>1. Lowest \in Numbers /\ fds[Lowest] = "free" /\ Lowest # 0
    BY <1>2, LowestFree, LaunchAssumption DEF LeakInv
  <2>2. PICK s : s = NextOwned
    OBVIOUS
  <2>3. s \in Streams /\ opened[s] = 0
    BY <1>2, <2>2 DEF NextOwned, Streams, Owned
  <2>4. PICK n : n = Lowest
    OBVIOUS
  <2>5. /\ fds' = [fds EXCEPT ![n] = "run"] /\ opened' = [opened EXCEPT ![s] = n]
        /\ UNCHANGED << foreign, child, executed, planned, session, result, error, raised, answer >>
        /\ pc = "open" /\ pc' = "open"
    BY <1>2, <2>2, <2>4 DEF OpenPaths, OpenOwnedPath, Goto, watched, telemetryVars,
         presentationVars
  <2>6. /\ \A m \in Numbers : fds'[m] = IF m = n THEN "run" ELSE fds[m]
        /\ \A z \in Streams : opened'[z] = IF z = s THEN n ELSE opened[z]
        /\ fds' \in [Numbers -> {"free", "run", "caller", "other"}]
        /\ opened' \in [Streams -> Numbers \cup {0}]
    BY <2>1, <2>3, <2>4, <2>5 DEF LeakInv, Descriptors
  <2>7. ASSUME NEW z \in Streams, opened'[z] # 0 PROVE fds'[opened'[z]] = "run"
    BY <2>1, <2>3, <2>4, <2>5, <2>6, <2>7 DEF LeakInv, Descriptors
  <2>8. ASSUME NEW m \in Numbers, fds'[m] = "run" PROVE \E z \in Streams : opened'[z] = m
    <3>1. CASE m = n
      BY <2>3, <2>6, <3>1
    <3>2. CASE m # n
      <4>1. fds[m] = "run" /\ m # 0
        BY <2>6, <2>8, <3>2, LaunchAssumption
      <4>2. PICK z \in Streams : opened[z] = m
        BY <4>1 DEF LeakInv, Descriptors
      <4> QED
        BY <2>3, <2>6, <4>1, <4>2
    <3> QED
      BY <3>1, <3>2
  <2>9. Descriptors'
    BY <2>5, <2>6, <2>7, <2>8 DEF LeakInv, Descriptors, Holding
  <2> QED
    BY <2>5, <2>9 DEF LeakInv, Control, Offspring, Unborn, Holding, Collected, Final, Live,
         NoChild
<1>3. (\E s \in Streams : Owned(s)) => Owned(NextOwned)
  BY DEF Streams, NextOwned
<1> QED
  BY <1>1, <1>2, <1>3 DEF OpenPaths, quiet

LEMMA FlushLeaks == ASSUME LeakInv, Flush PROVE LeakInv'
<1>1. /\ pc = "flush" /\ UNCHANGED << opts, result, raised, answer, fds, opened, foreign, child, executed >>
      /\ error' \in Errors /\ pc' \in {"popen", "release"} /\ (IF pc' = "release" THEN error' # "none" ELSE error' = error)
  BY DEF LeakInv, Control, Errors, Flush, FlushBorrowed, Goto, Fail, launchVars
<1>2. child.st = "none" /\ child = NoChild /\ error = "none"
  BY <1>1 DEF LeakInv, Offspring, Unborn, NoChild
<1> QED
  BY <1>1, <1>2 DEF LeakInv, Control, Descriptors, Offspring, Unborn, Holding, Collected,
       Final, Live

LEMMA PopenLeaks == ASSUME LeakInv, Popen PROVE LeakInv'
<1>1. /\ pc = "popen" /\ UNCHANGED << opts, result, raised, answer, fds, opened, foreign >>
      /\ \/ pc' = "release" /\ error' = "error" /\ child' = child
         \/ pc' = "connect" /\ error' = error /\ child' = [NoChild EXCEPT !.st = "running"]
  BY DEF Popen, Spawn, Goto, Fail, launchVars
<1>2. error = "none" /\ child.st = "none"
  BY <1>1 DEF LeakInv, Offspring, Unborn, NoChild
<1>3. child' = [NoChild EXCEPT !.st = "running"] => child'.st = "running" /\ ~ child'.session /\ ~ child'.killed
         /\ child' \in [st : {"none", "running", "exited", "reaped"}, session : BOOLEAN, killed : BOOLEAN]
  BY DEF NoChild
<1> QED
  BY <1>1, <1>2, <1>3 DEF LeakInv, Control, Descriptors, Offspring, Unborn, Holding, Collected,
       Final, Live, Errors

LEMMA ConnectLeaks == ASSUME LeakInv, Connect PROVE LeakInv'
<1>1. /\ pc = "connect" /\ UNCHANGED << opts, result, raised, answer, fds, opened, foreign >> /\ pc' = "release"
      /\ \/ error' \in {"error", "cancelled"} /\ child' = [child EXCEPT !.st = "reaped", !.killed = child.killed \/ TRUE]
         \/ error' = error /\ child' = child
  BY DEF Connect, SettleSpawnedChild, Reaped, Goto, Fail, launchVars
<1> QED
  BY <1>1, ZenonT(60) DEF LeakInv, Control, Descriptors, Offspring, Unborn, Holding, Collected,
       Final, Live, NoChild, Errors

LEMMA ReleaseLeaks == ASSUME LeakInv, Release PROVE LeakInv'
<1> DEFINE mine == {opened[s] : s \in Streams} \ {0}
<1>1. /\ pc = "release" /\ UNCHANGED << opts, result, raised, answer, error, child >>
      /\ pc' = (IF error = "none" THEN "start" ELSE "close")
      /\ fds' = [n \in Numbers |-> IF n \in mine THEN "free" ELSE fds[n]]
      /\ foreign' = (foreign \/ \E n \in mine : fds[n] # "run")
      /\ opened' = [s \in Streams |-> 0]
  BY DEF Release, CloseOwned, Goto
<1>2. \A n \in mine : n \in Numbers /\ fds[n] = "run"
  BY DEF LeakInv, Descriptors
<1>3. \A n \in Numbers : fds[n] = "run" => n \in mine
  BY LaunchAssumption DEF LeakInv, Descriptors
<1>4. /\ \A n \in Numbers : fds'[n] # "run"
      /\ fds' \in [Numbers -> {"free", "run", "caller", "other"}]
      /\ opened' \in [Streams -> Numbers \cup {0}]
      /\ \A s \in Streams : opened'[s] = 0
  <2> HIDE DEF mine
  <2> QED
    BY <1>1, <1>3 DEF LeakInv, Descriptors
<1>5. ~ foreign'
  <2> HIDE DEF mine
  <2> QED
    BY <1>1, <1>2 DEF LeakInv, Descriptors
<1>6. Descriptors'
  BY <1>4, <1>5 DEF Descriptors
<1> QED
  BY <1>1, <1>6 DEF LeakInv, Control, Offspring, Unborn, Holding, Collected, Final, Live,
       NoChild, Errors

\* While the child runs.
LEMMA StartLeaks == ASSUME LeakInv, Start \/ Monitor PROVE LeakInv'
<1>1. /\ pc \in {"start", "monitor"} /\ UNCHANGED << opts, launchVars, result, answer >>
      /\ error' \in Errors /\ raised \subseteq raised'
      /\ \/ pc' = "close" /\ "start" \in raised'
         \/ pc' \in {"monitor", "live"} /\ error' = error
  BY DEF LeakInv, Control, Errors, Start, Monitor, Goto
<1> QED
  BY <1>1, LeakQuiet DEF LeakInv, Control, Unborn, Holding, Collected, Final, Live

\* The child is killed, or has exited, and has been waited for.
LEMMA ReapedLeaks ==
    ASSUME LeakInv, pc \in {"start", "attach", "live"}, pc' \in {"close", "stop", "expired"},
           UNCHANGED << answer, fds, opened, foreign >>, NEW killed \in BOOLEAN, Reaped(killed),
           error' \in Errors, result' \in {"none", "zero", "nonzero"}
    PROVE  LeakInv'
<1>1. /\ child' = [child EXCEPT !.st = "reaped", !.killed = child.killed \/ killed]
  BY DEF Reaped
<1>2. /\ child'.st = "reaped"
      /\ child' \in [st : {"none", "running", "exited", "reaped"}, session : BOOLEAN, killed : BOOLEAN]
  BY <1>1 DEF LeakInv, Offspring
<1> QED
  BY <1>2 DEF LeakInv, Control, Descriptors, Offspring, Unborn, Holding, Collected, Final, Live

LEMMA StartHandleLeaks == ASSUME LeakInv, StartHandle PROVE LeakInv'
<1>1. CASE UNCHANGED launchVars /\ Goto("attach")
  <2>1. pc = "start" /\ pc' = "attach" /\ UNCHANGED << opts, launchVars, result, error, raised, answer >>
    BY <1>1 DEF StartHandle, Goto
  <2> QED
    BY <1>1, <2>1, LeakQuiet DEF LeakInv, Control, Unborn, Holding, Collected, Final, Live
<1>2. CASE Fail("error", "close") /\ SettleSpawnedChild
  <2>1. /\ pc = "start" /\ pc' = "close" /\ error' = "error" /\ Reaped(TRUE)
        /\ UNCHANGED << result, answer, fds, opened, foreign >>
    BY <1>2 DEF StartHandle, Fail, SettleSpawnedChild
  <2> QED
    BY <2>1, ReapedLeaks DEF LeakInv, Control, Errors
<1> QED
  BY <1>1, <1>2 DEF StartHandle

LEMMA AttachLeaks == ASSUME LeakInv, AttachRunTasks PROVE LeakInv'
<1>1. CASE UNCHANGED launchVars /\ Answer("handle")
  <2>1. /\ pc = "attach" /\ pc' = "done" /\ answer' = "handle"
        /\ UNCHANGED << opts, result, error, raised, fds, opened, foreign, child >>
    BY <1>1 DEF AttachRunTasks, Answer, launchVars
  <2> QED
    BY <2>1 DEF LeakInv, Control, Descriptors, Offspring, Unborn, Holding, Collected, Final, Live
<1>2. CASE Fail("error", "close") /\ SettleSpawnedChild
  <2>1. /\ pc = "attach" /\ pc' = "close" /\ error' = "error" /\ Reaped(TRUE)
        /\ UNCHANGED << result, answer, fds, opened, foreign >>
    BY <1>2 DEF AttachRunTasks, Fail, SettleSpawnedChild
  <2> QED
    BY <2>1, ReapedLeaks DEF LeakInv, Control, Errors
<1> QED
  BY <1>1, <1>2 DEF AttachRunTasks

LEMMA LineLeaks == ASSUME LeakInv, Line PROVE LeakInv'
<1>1. CASE UNCHANGED launchVars /\ Goto("live")
  <2>1. pc = "live" /\ pc' = "live" /\ UNCHANGED << opts, launchVars, result, error, raised, answer >>
    BY <1>1 DEF Line, Goto
  <2> QED
    BY <1>1, <2>1, LeakQuiet DEF LeakInv, Control, Unborn, Holding, Collected, Final, Live
<1>2. CASE Fail("error", "stop") /\ ChildEnds(TRUE)
  <2>1. /\ pc = "live" /\ pc' = "stop" /\ error' = "error" /\ Reaped(TRUE)
        /\ UNCHANGED << result, answer, fds, opened, foreign >>
    BY <1>2 DEF Line, Fail, ChildEnds
  <2> QED
    BY <2>1, ReapedLeaks DEF LeakInv, Control, Errors
<1> QED
  BY <1>1, <1>2 DEF Line

LEMMA EndingLeaks == ASSUME LeakInv, Ending PROVE LeakInv'
<1>1. /\ pc = "live" /\ pc' \in {"stop", "expired"} /\ error' \in Errors
      /\ result' \in {"none", "zero", "nonzero"} /\ \E killed \in BOOLEAN : Reaped(killed)
      /\ UNCHANGED << answer, fds, opened, foreign >>
  BY DEF LeakInv, Control, Errors, Ending, Exits, Cancelled, Expires, ChildEnds, Goto, Fail
<1> QED
  BY <1>1, ReapedLeaks

\* After the child.
LEMMA AfterLeaks == ASSUME LeakInv, ExitOfExpired \/ Stop \/ Stopped \/ Exit \/ After PROVE LeakInv'
<1>1. /\ pc \in {"expired", "stop", "stopping", "exit", "after"}
      /\ UNCHANGED << opts, launchVars, result, raised, answer >>
      /\ error' \in Errors /\ pc' \in {"stop", "stopping", "usage", "after", "close"}
  BY DEF LeakInv, Control, Errors, ExitOfExpired, Stop, Stopped, Exit, After, Goto, Fail, quiet
<1>2. child.st = "reaped"
  BY <1>1 DEF LeakInv, Offspring, Collected
<1> QED
  BY <1>1, <1>2, LeakQuiet DEF LeakInv, Control, Unborn, Holding, Collected, Final, Live

LEMMA UsageLeaks == ASSUME LeakInv, Usage PROVE LeakInv'
<1>1. /\ pc = "usage" /\ pc' = "exit"
      /\ UNCHANGED << opts, result, raised, answer, error, fds, opened, foreign, child >>
  BY DEF Usage, ResourceUsage, Goto
<1> QED
  BY <1>1 DEF LeakInv, Control, Descriptors, Offspring, Unborn, Holding, Collected, Final, Live

LEMMA FinalLeaks ==
    ASSUME LeakInv, Close \/ CloseRaises \/ Settle \/ Drain \/ DrainFailed
    PROVE  LeakInv'
<1>1. /\ pc \in Final /\ pc' \in Final \cup {"done"} /\ pc' # "request"
      /\ UNCHANGED << opts, launchVars, result, error >> /\ raised \subseteq raised'
      /\ pc' # "done" => answer' = answer
      /\ pc' = "done" => answer' \in {"raised", "result", "error", "timeout", "cancelled"}
  BY DEF LeakInv, Control, Errors, Close, CloseRaises, Settle, Drain, DrainFailed, Goto,
       Answer, Final, quiet
<1> QED
  BY <1>1, LeakQuiet DEF LeakInv, Control, Unborn, Holding, Collected, Final, Live

\* The detached launch.
LEMMA DetachLeaks == ASSUME LeakInv, Detach \/ Reclaim \/ Receipt PROVE LeakInv'
<1> DEFINE Child == [st : {"none", "running", "exited", "reaped"}, session : BOOLEAN, killed : BOOLEAN]
<1>1. /\ pc \in {"detach", "reclaim", "receipt"}
      /\ UNCHANGED << opts, result, error, raised, fds, opened, foreign >>
  BY DEF Detach, Reclaim, Receipt, SpawnDetached, PartialSpawn, ReclaimPartialSpawn,
       AbandonDetached, launchVars,
     Goto, Answer
<1>2. child \in Child /\ (pc = "detach" => child = NoChild)
  BY DEF LeakInv, Offspring, Unborn
<1>3. /\ child' \in Child
      /\ \/ pc' = "receipt" /\ answer' = answer /\ child'.st = "running" /\ ~ child'.killed
         \/ pc' = "reclaim" /\ answer' = answer
         \/ pc' = "done" /\ answer' = "receipt" /\ pc = "receipt" /\ child' = child
         \/ pc' = "done" /\ answer' \in {"error", "cancelled"} /\ child'.st \in {"none", "reaped"}
  <2>1. CASE SpawnDetached /\ Goto("receipt")
    <3>1. child' = [NoChild EXCEPT !.st = "running", !.session = TRUE]
      BY <2>1 DEF SpawnDetached
    <3>2. child' \in Child /\ child'.st = "running" /\ ~ child'.killed
      BY <3>1 DEF NoChild
    <3> QED
      BY <2>1, <3>2 DEF Goto
  <2>2. CASE pc = "detach" /\ Answer("error") /\ UNCHANGED launchVars
    <3>1. child' = NoChild /\ NoChild \in Child /\ NoChild.st = "none"
      BY <1>2, <2>2 DEF launchVars, NoChild
    <3> QED
      BY <2>2, <3>1 DEF Answer
  <2>3. CASE \E st \in {"running", "exited", "reaped"}, own \in BOOLEAN : PartialSpawn(st, own) /\ Goto("reclaim")
    BY <2>3 DEF PartialSpawn, Goto
  <2>4. CASE pc = "reclaim" /\ ReclaimPartialSpawn /\ Answer("error")
    <3>1. /\ child' = CASE child.st = "running" -> [[child EXCEPT !.killed = child.session \/ TRUE] EXCEPT !.st = "reaped"]
                         [] child.st = "exited" -> [child EXCEPT !.st = "reaped"]
                         [] OTHER -> child
      BY <2>4 DEF ReclaimPartialSpawn, KillPartial, Signalled
    <3>2. child' \in Child /\ child'.st \in {"none", "reaped"}
      BY <1>2, <3>1
    <3> QED
      BY <2>4, <3>2 DEF Answer
  <2>5. CASE pc = "receipt" /\ Answer("receipt") /\ UNCHANGED launchVars
    BY <1>2, <2>5 DEF Answer, launchVars
  <2>6. CASE \E e \in {"error", "cancelled"} : Answer(e) /\ AbandonDetached
    <3>1. child' = [child EXCEPT !.st = "reaped", !.killed = TRUE]
      BY <2>6 DEF AbandonDetached
    <3>2. child' \in Child /\ child'.st = "reaped"
      BY <1>2, <3>1
    <3> QED
      BY <2>6, <3>2 DEF Answer
  <2> QED
    BY <2>1, <2>2, <2>3, <2>4, <2>5, <2>6 DEF Detach, Reclaim, Receipt
<1> QED
  BY <1>1, <1>2, <1>3 DEF LeakInv, Control, Descriptors, Offspring, Unborn, Holding, Collected,
       Final, Live

\* The environment.
LEMMA OutsideLeaks == ASSUME LeakInv, Outside PROVE LeakInv'
<1>1. UNCHANGED << opts, controlVars, executed, session, planned, opened, foreign >>
  BY DEF Outside, KeepsControl, OtherOpens, OtherReaped, ChildFiles, DetachedExits,
       AsideLooksUp, AsideWrites,
     watched, launchVars, telemetryVars, presentationVars
<1>2. CASE fds' = fds /\ child' = child
  BY <1>1, <1>2 DEF LeakInv, Control, Descriptors, Offspring, controlVars
<1>3. CASE OtherOpens
  <2>1. PICK n : n = Lowest
    OBVIOUS
  <2>2. n \in Numbers /\ fds[n] = "free" /\ fds' = [fds EXCEPT ![n] = "other"] /\ child' = child
    BY <1>3, <2>1, LowestFree DEF OtherOpens, LeakInv
  <2> QED
    BY <1>1, <2>2 DEF LeakInv, Control, Descriptors, Offspring, controlVars
<1>4. CASE DetachedExits
  <2>1. /\ child.st = "running" /\ child.session /\ child'.st = "exited" /\ child'.session = child.session
        /\ child'.killed = child.killed /\ fds' = fds
        /\ child' \in [st : {"none", "running", "exited", "reaped"}, session : BOOLEAN, killed : BOOLEAN]
    BY <1>4 DEF DetachedExits, LeakInv, Offspring
  <2>2. pc \notin Unborn
    BY <2>1 DEF LeakInv, Offspring, NoChild
  <2> QED
    BY <1>1, <2>1, <2>2 DEF LeakInv, Control, Descriptors, Offspring, controlVars, Live
<1> QED
  BY <1>2, <1>3, <1>4 DEF Outside, OtherReaped, ChildFiles, launchVars

LEMMA BesideLeaks ==
    ASSUME LeakInv, Display \/ MonitorEnds \/ HookTasks \/ Beside \/ UNCHANGED vars
    PROVE  LeakInv'
<1>1. UNCHANGED << opts, controlVars, launchVars, planned >> /\ session'.st = session.st
  BY DEF Display, MonitorEnds, HookTasks, Beside, KeepsControl, IdleEnds, ChildWrites, Tick,
       IdleWakes, TaskEnds,
     quiet, watched, telemetryVars, presentationVars, vars
<1> QED
  BY <1>1 DEF LeakInv, Control, Descriptors, Offspring, controlVars, launchVars

LEMMA LeakStep == ASSUME LeakInv, [Next]_vars PROVE LeakInv'
  BY RequestLeaks, PrepareLeaks, ObserveLeaks, OpenPathsLeaks, FlushLeaks, PopenLeaks,
       ConnectLeaks, ReleaseLeaks,
     StartLeaks, StartHandleLeaks, AttachLeaks, LineLeaks, EndingLeaks, AfterLeaks, UsageLeaks, FinalLeaks,
     DetachLeaks, OutsideLeaks, BesideLeaks
  DEF Next, Run

\* Who owns descriptors and child is known at every await of a run and of a
\* detached launch.
THEOREM LeakInvariance == Spec => []LeakInv
<1>1. LeakInv /\ [Next]_vars => LeakInv'
  BY LeakStep
<1> QED
  BY <1>1, LeakInitial, PTL DEF Spec

\* When the caller has its answer the run has closed each descriptor it opened
\* once and nobody else's, whichever step of the launch failed, and left no child
\* that nobody holds but one whose start hook raised; a launch that raised has
\* killed and reaped its child, and one with a receipt has not touched it.
THEOREM NothingIsLeaked == Spec => []NothingLeaked
<1>1. LeakInv => NothingLeaked
  BY LaunchAssumption DEF LeakInv, Control, Descriptors, Offspring, NothingLeaked, Done,
       Holding, Live
<1> QED
  BY <1>1, LeakInvariance, PTL

-----------------------------------------------------------------------------
(* The log. *)

\* What anybody but the session writes changes no lease, group or count, and a
\* lease keeps it from being obeyed.
LEMMA ReadOutput ==
    ASSUME NEW l \in LogRecord, NEW text \in {"text", "part", "command"}
    PROVE  /\ Read(l, text) \in LogRecord
           /\ Read(l, text).lease = l.lease /\ Read(l, text).group = l.group
           /\ Read(l, text).errors = l.errors
           /\ l.lease \/ text # "command" => Read(l, text).obeyed = l.obeyed
           /\ Read(l, text).open <=> text = "part"
  BY DEF Read, LogRecord

\* At the beginning of a line the frame is opened...
LEMMA ReadFrame ==
    ASSUME NEW l \in LogRecord, ~ l.open, ~ l.lease
    PROVE  LET f == Read(Read(l, "group"), "stop")
           IN  f \in LogRecord /\ f.lease /\ f.group /\ ~ f.open /\ f.errors = l.errors /\ f.obeyed = l.obeyed
<1>1. PICK m : m = Read(l, "group")
  OBVIOUS
<1>2. m \in LogRecord /\ m.group /\ ~ m.open /\ ~ m.lease /\ m.errors = l.errors /\ m.obeyed = l.obeyed
  BY <1>1 DEF Read, LogRecord
<1>3. PICK f : f = Read(m, "stop")
  OBVIOUS
<1>4. f \in LogRecord /\ f.lease /\ f.group /\ ~ f.open /\ f.errors = l.errors /\ f.obeyed = l.obeyed
  BY <1>2, <1>3 DEF Read, LogRecord
<1> QED
  BY <1>1, <1>3, <1>4

\* ...and closed.
LEMMA ReadUnframe ==
    ASSUME NEW l \in LogRecord, ~ l.open
    PROVE  LET f == Read(Read(l, "token"), "endgroup")
           IN  f \in LogRecord /\ ~ f.lease /\ ~ f.group /\ ~ f.open /\ f.errors = l.errors /\ f.obeyed = l.obeyed
<1>1. PICK m : m = Read(l, "token")
  OBVIOUS
<1>2. m \in LogRecord /\ ~ m.open /\ ~ m.lease /\ m.errors = l.errors /\ m.obeyed = l.obeyed
  BY <1>1 DEF Read, LogRecord
<1>3. PICK f : f = Read(m, "endgroup")
  OBVIOUS
<1>4. f \in LogRecord /\ ~ f.lease /\ ~ f.group /\ ~ f.open /\ f.errors = l.errors /\ f.obeyed = l.obeyed
  BY <1>2, <1>3 DEF Read, LogRecord
<1> QED
  BY <1>1, <1>3, <1>4

LEMMA ReadError ==
    ASSUME NEW l \in LogRecord
    PROVE  LET f == Read(l, "error")
           IN  /\ f \in LogRecord /\ ~ f.open /\ f.lease = l.lease /\ f.group = l.group /\ f.obeyed = l.obeyed
               /\ ~ l.open /\ ~ l.lease => f.errors = l.errors + 1
<1>1. CASE l.open \/ l.lease
  <2>1. Read(l, "error") = [l EXCEPT !.open = FALSE]
    BY <1>1 DEF Read
  <2> QED
    BY <1>1, <2>1 DEF LogRecord
<1>2. CASE ~ (l.open \/ l.lease)
  <2>1. Read(l, "error") = [l EXCEPT !.errors = l.errors + 1]
    BY <1>2 DEF Read
  <2>2. l.errors + 1 \in Nat
    BY DEF LogRecord
  <2> QED
    BY <1>2, <2>1, <2>2 DEF LogRecord
<1> QED
  BY <1>1, <1>2

LEMMA LogInitial == Init => LogInv
<1> SUFFICES ASSUME Init PROVE LogInv
  OBVIOUS
<1>1. pc = "request" /\ opts \in Requests /\ raised = {}
  BY DEF Init
<1>2. /\ clock = 0 /\ midLine = FALSE /\ beat = NoBeat /\ log = NoLog /\ torn = FALSE
      /\ idle = [task |-> "none", started |-> 0, activity |-> 0, deadline |-> 0, wake |-> 0, stopped |-> FALSE]
      /\ session = [st |-> "none", outcome |-> "none"]
  BY DEF Init, PresentationInit
<1>3. LogTypes
  <2>1. beat \in [at : Int, silent : Int, gap : Int, fresh : BOOLEAN, live : BOOLEAN]
    BY <1>2 DEF NoBeat
  <2>2. log \in LogRecord
    BY <1>2 DEF NoLog, LogRecord
  <2>3. session \in [st : {"none", "open", "closed"}, outcome : Outcomes \cup {"none", "unwritten"}]
    BY <1>2
  <2>4. idle \in [task : {"none", "asleep", "cancelled", "ended"}, started : Nat, activity : Nat,
                 deadline : Int, wake : Int, stopped : BOOLEAN]
    BY <1>2
  <2> QED
    BY <1>1, <1>2, <2>1, <2>2, <2>3, <2>4 DEF LogTypes
<1>4. Schedule
  BY <1>1, <1>2 DEF Schedule, NoBeat, Late, Collected, Final
<1>5. Cursor /\ Framing
  BY <1>1, <1>2 DEF Cursor, Framing, NoLog
<1> QED
  BY <1>3, <1>4, <1>5 DEF LogInv

\* A step that shows nothing.
LEMMA LogQuiet ==
    ASSUME LogInv, UNCHANGED << opts, presentationVars >>, raised \subseteq raised',
           pc \in Late => pc' \in Late, pc \in Over => pc' \in Over,
           pc' \in {"request", "session"} => pc \in {"request", "session"}
    PROVE  LogInv'
<1>1. UNCHANGED << opts, clock, idle, midLine, beat, log, session, torn >>
  BY DEF presentationVars
<1>2. LogTypes' /\ Cursor' /\ Schedule'
  BY <1>1 DEF LogInv, LogTypes, Cursor, Schedule
<1>3. Framing'
  BY <1>1 DEF LogInv, Framing, Frames, Annotates
<1> QED
  BY <1>2, <1>3 DEF LogInv

\* The steps of the run that show nothing.
LEMMA SilentSteps ==
    ASSUME LogInv,
           \/ Request \/ Observe \/ Plan \/ Before \/ Build \/ Sample \/ OpenPaths \/ Flush \/ Popen
           \/ Connect \/ Release \/ Start \/ StartHandle \/ AttachRunTasks \/ ExitOfExpired \/ Stopped
           \/ Usage \/ Exit \/ After \/ Settle \/ Drain \/ DrainFailed \/ Detach \/ Reclaim \/ Receipt
           \/ Line \/ Ending \/ Outside \/ HookTasks \/ Beside \/ UNCHANGED vars
    PROVE  LogInv'
<1> USE DEF quiet, watched, Goto, Fail, Answer, Late, Over, Collected, Final
<1>1. CASE Request \/ Observe \/ Plan \/ Before \/ Build \/ Sample \/ OpenPaths \/ Flush \/ Popen
  BY <1>1, LogQuiet DEF Request, Observe, Plan, Before, Build, Sample, OpenPaths, Flush, Popen,
       ReportStdio
<1>2. CASE Connect \/ Release \/ Start \/ StartHandle \/ AttachRunTasks \/ Line \/ Ending
  BY <1>2, LogQuiet DEF Connect, Release, Start, StartHandle, AttachRunTasks, Line, Ending,
       Exits, Cancelled, Expires
<1>3. CASE ExitOfExpired \/ Stopped \/ Usage \/ Exit \/ After \/ Settle \/ Drain \/ DrainFailed
  BY <1>3, LogQuiet DEF ExitOfExpired, Stopped, Usage, Exit, After, Settle, Drain, DrainFailed
<1>4. CASE Detach \/ Reclaim \/ Receipt
  BY <1>4, LogQuiet DEF Detach, Reclaim, Receipt
<1>5. CASE Outside \/ HookTasks \/ Beside \/ UNCHANGED vars
  BY <1>5, LogQuiet DEF Outside, HookTasks, Beside, KeepsControl, controlVars, vars
<1> QED
  BY <1>1, <1>2, <1>3, <1>4, <1>5

LEMMA OpenLogs == ASSUME LogInv, Open PROVE LogInv'
<1>1. /\ pc = "session" /\ pc' = "observe" /\ UNCHANGED << opts, raised, clock, idle, midLine, beat, torn >>
      /\ session' = [session EXCEPT !.st = IF HasSession(opts) THEN "open" ELSE "none"]
      /\ log' = IF HasSession(opts) /\ Frames THEN Read(Read(log, "group"), "stop") ELSE log
  BY DEF Open, OpenSession, Goto
<1>2. log = NoLog /\ log \in LogRecord /\ ~ log.open /\ ~ log.lease /\ ~ log.group /\ log.errors = 0 /\ ~ log.obeyed
  BY <1>1 DEF LogInv, LogTypes, Framing, NoLog
<1>3. /\ session' \in [st : {"none", "open", "closed"}, outcome : Outcomes \cup {"none", "unwritten"}]
      /\ session'.st = IF HasSession(opts) THEN "open" ELSE "none"
  BY <1>1 DEF LogInv, LogTypes
<1>4. PICK f : f = Read(Read(log, "group"), "stop")
  OBVIOUS
<1>5. f \in LogRecord /\ f.lease /\ f.group /\ ~ f.open /\ f.errors = 0 /\ ~ f.obeyed
  BY <1>2, <1>4, ReadFrame
<1>6. /\ log' \in LogRecord /\ ~ log'.open /\ log'.errors = 0 /\ ~ log'.obeyed
      /\ HasSession(opts) /\ Frames => log'.lease /\ log'.group
      /\ ~ (HasSession(opts) /\ Frames) => ~ log'.lease /\ ~ log'.group
  BY <1>1, <1>2, <1>4, <1>5
<1>7. Frames' <=> Frames
  BY <1>1 DEF Frames
<1>8. LogTypes'
  BY <1>1, <1>3, <1>6 DEF LogInv, LogTypes
<1>9. Schedule'
  BY <1>1 DEF LogInv, Schedule, Late, Collected, Final
<1>10. Cursor' /\ Framing'
  BY <1>1, <1>3, <1>6, <1>7 DEF Cursor, Framing, Late, Over, Collected, Final
<1> QED
  BY <1>8, <1>9, <1>10 DEF LogInv

\* The session writes the end of the frame and its annotation.
LEMMA CloseLogs == ASSUME LogInv, Control, Close PROVE LogInv'
<1>1. pc = "close" /\ pc' = "settle" /\ UNCHANGED << opts, raised >> /\ CloseSession(Outcome)
  BY DEF Close, Goto
<1>2. CASE session.st # "open"
  BY <1>1, <1>2, LogQuiet DEF CloseSession, Late, Over, Collected, Final
<1>3. CASE session.st = "open"
  <2>1. /\ session' = [st |-> "closed", outcome |-> Outcome]
        /\ log' = ClosingLines(Outcome) /\ torn' = log.open
        /\ UNCHANGED << clock, idle, midLine, beat >>
    BY <1>1, <1>3 DEF CloseSession
  <2>2. /\ log \in LogRecord /\ log.errors = 0 /\ (Frames => ~ log.obeyed)
        /\ ~ Frames => ~ log.lease /\ ~ log.group
    BY <1>3 DEF LogInv, LogTypes, Framing
  <2>3. PICK u : u = IF Frames THEN Read(Read(log, "token"), "endgroup") ELSE log
    OBVIOUS
  <2>4. log' = IF Annotates /\ Outcome # "exit_zero" THEN Read(u, "error") ELSE u
    BY <2>1, <2>3 DEF ClosingLines
  <2>5. u \in LogRecord /\ (~ log.open => ~ u.open /\ ~ u.lease /\ ~ u.group /\ u.errors = 0 /\ (Frames => ~ u.obeyed))
    <3>1. CASE log.open
      BY <2>2, <2>3, <3>1 DEF Read, LogRecord
    <3>2. CASE ~ log.open
      BY <2>2, <2>3, <3>2, ReadUnframe
    <3> QED
      BY <3>1, <3>2
  <2>6. log' \in LogRecord /\ (~ Frames => ~ log'.lease /\ ~ log'.group)
    BY <2>2, <2>3, <2>4, <2>5, ReadError
  <2>7. ~ log.open => /\ ~ log'.lease /\ ~ log'.group /\ (Frames => ~ log'.obeyed) /\ ~ log'.open
                      /\ log'.errors = IF Annotates /\ Outcome # "exit_zero" THEN 1 ELSE 0
    BY <2>4, <2>5, ReadError
  <2>8. Outcome \in Outcomes
    BY DEF Control, Errors, Outcome, Outcomes
  <2>9. (Frames' <=> Frames) /\ (Annotates' <=> Annotates)
    BY <1>1 DEF Frames, Annotates
  <2>10. session' \in [st : {"none", "open", "closed"}, outcome : Outcomes \cup {"none", "unwritten"}] /\ torn' \in BOOLEAN
    BY <2>1, <2>2, <2>8 DEF LogRecord
  <2>11. LogTypes' /\ Schedule'
    BY <1>1, <2>1, <2>6, <2>10 DEF LogInv, LogTypes, Schedule, Late, Collected, Final
  <2>12. Cursor'
    BY <1>1, <2>1, <2>7 DEF LogInv, Cursor
  <2>13. Framing'
    BY <1>1, <2>1, <2>6, <2>7, <2>9 DEF LogInv, Framing, Late, Over, Collected, Final
  <2> QED
    BY <2>11, <2>12, <2>13 DEF LogInv
<1> QED
  BY <1>2, <1>3

LEMMA CloseRaisesLogs == ASSUME LogInv, CloseRaises PROVE LogInv'
<1>1. /\ pc = "close" /\ pc' = "done" /\ raised' = raised \cup {"close"}
      /\ UNCHANGED << opts, clock, idle, midLine, beat, log, torn >>
      /\ session' = [st |-> "closed", outcome |-> "unwritten"]
  BY DEF CloseRaises, CloseSessionRaises
<1>2. Frames' <=> Frames
  BY <1>1 DEF Frames
<1>3. LogTypes' /\ Schedule' /\ Cursor'
  BY <1>1 DEF LogInv, LogTypes, Schedule, Cursor, Late, Collected, Final
<1>4. Framing'
  BY <1>1, <1>2 DEF LogInv, Framing, Late, Over, Collected, Final
<1> QED
  BY <1>3, <1>4 DEF LogInv

LEMMA MonitorLogs == ASSUME LogInv, Monitor \/ Stop \/ MonitorEnds PROVE LogInv'
<1>1. /\ UNCHANGED << opts, raised, clock, midLine, beat, log, session, torn >>
      /\ \/ pc = "monitor" /\ pc' = "live"
         \/ pc = "stop" /\ pc' = "stopping"
         \/ pc' = pc
  BY DEF Monitor, Stop, MonitorEnds, LaunchIdle, StopIdle, IdleEnds, Goto, KeepsControl,
       controlVars
<1>2. (Frames' <=> Frames) /\ (Annotates' <=> Annotates)
  BY <1>1 DEF Frames, Annotates
<1>3. opts.idleAfter \in Int /\ clock \in Nat
  BY RequestAssumption DEF LogInv, LogTypes
<1>4. CASE Monitor
  <2>1. pc = "monitor" /\ pc' = "live" /\ beat = NoBeat
    BY <1>4 DEF Monitor, Goto, LogInv, Schedule, Late, Collected, Final
  <2>2. \/ idle' = idle
        \/ /\ opts.idleAfter > 0
           /\ idle' = [task |-> "asleep", started |-> clock, activity |-> clock,
                        deadline |-> clock + opts.idleAfter, wake |-> clock + opts.idleAfter, stopped |-> FALSE]
    BY <1>4 DEF Monitor, LaunchIdle
  <2>3. beat.at = -1
    BY <2>1 DEF NoBeat
  <2>4. CASE idle' = idle
    <3>1. Schedule'
      BY <1>1, <2>1, <2>4 DEF LogInv, Schedule, Late, Collected, Final
    <3>2. LogTypes' /\ Cursor'
      BY <1>1, <2>4 DEF LogInv, LogTypes, Cursor
    <3>3. Framing'
      BY <1>1, <1>2, <2>1 DEF LogInv, Framing, Late, Over, Collected, Final
    <3> QED
      BY <3>1, <3>2, <3>3 DEF LogInv
  <2>5. CASE idle' # idle
    <3>1. /\ idle' \in [task : {"none", "asleep", "cancelled", "ended"}, started : Nat, activity : Nat,
                         deadline : Int, wake : Int, stopped : BOOLEAN]
          /\ opts.idleAfter > 0 /\ idle'.activity = clock /\ idle'.deadline = clock + opts.idleAfter
      <4>1. PICK due \in Int : due = clock + opts.idleAfter
        BY <1>3
      <4>2. /\ opts.idleAfter > 0
            /\ idle' = [task |-> "asleep", started |-> clock, activity |-> clock, deadline |-> due, wake |-> due,
                        stopped |-> FALSE]
        BY <2>2, <2>5, <4>1
      <4> QED
        BY <1>3, <4>1, <4>2
    <3>2. Schedule'
      BY <1>1, <1>3, <2>1, <2>3, <3>1 DEF LogInv, LogTypes, Schedule, Late, Collected, Final
    <3>3. LogTypes' /\ Cursor'
      BY <1>1, <3>1 DEF LogInv, LogTypes, Cursor
    <3>4. Framing'
      BY <1>1, <1>2, <2>1 DEF LogInv, Framing, Late, Over, Collected, Final
    <3> QED
      BY <3>2, <3>3, <3>4 DEF LogInv
  <2> QED
    BY <2>4, <2>5
<1>5. CASE Stop \/ MonitorEnds
  <2>1. \/ idle' = [idle EXCEPT !.stopped = TRUE, !.task = IF idle.task = "asleep" THEN "cancelled" ELSE idle.task]
        \/ idle.task = "cancelled" /\ idle' = [idle EXCEPT !.task = "ended"]
    BY <1>5 DEF Stop, MonitorEnds, StopIdle, IdleEnds
  <2>2. /\ idle' \in [task : {"none", "asleep", "cancelled", "ended"}, started : Nat, activity : Nat,
                       deadline : Int, wake : Int, stopped : BOOLEAN]
        /\ idle'.task # "asleep" /\ idle'.activity = idle.activity /\ (idle.task = "none" => idle'.task = "none")
    BY <2>1 DEF LogInv, LogTypes
  <2>3. pc \in Late <=> pc' \in Late
    BY <1>5 DEF Stop, MonitorEnds, Goto, KeepsControl, controlVars, Late, Collected
  <2>4. (pc \in Over => pc' \in Over) /\ (pc' \in {"request", "session"} => pc' = pc)
    BY <1>1 DEF Over
  <2>5. Schedule'
    BY <1>1, <2>2, <2>3 DEF LogInv, Schedule
  <2>6. LogTypes' /\ Cursor'
    BY <1>1, <2>2 DEF LogInv, LogTypes, Cursor
  <2>7. Framing'
    BY <1>1, <1>2, <2>3, <2>4 DEF LogInv, Framing
  <2> QED
    BY <2>5, <2>6, <2>7 DEF LogInv
<1> QED
  BY <1>4, <1>5

\* A chunk of the child's, noted and echoed.
LEMMA WritesLog ==
    ASSUME LogInv, pc = "live", KeepsControl, NEW s \in Streams, NEW text \in {"text", "part", "command"},
           ChildWrites(s, text)
    PROVE  LogInv'
<1>1. /\ UNCHANGED << opts, pc, raised, clock, beat, session, torn >>
      /\ idle' = IF idle.task = "asleep" /\ ~idle.stopped
                 THEN [idle EXCEPT !.activity = clock, !.deadline = clock + opts.idleAfter] ELSE idle
      /\ log' = IF Echoes(opts, s) /\ ToLog(s) THEN Read(log, text) ELSE log
      /\ midLine' = IF Echoes(opts, s) /\ Mirrored(s) THEN text = "part" ELSE midLine
  BY DEF ChildWrites, KeepsControl, controlVars
<1>2. opts.idleAfter \in Int /\ clock \in Nat /\ log \in LogRecord
  BY RequestAssumption DEF LogInv, LogTypes
<1>3. /\ idle' \in [task : {"none", "asleep", "cancelled", "ended"}, started : Nat, activity : Nat,
                     deadline : Int, wake : Int, stopped : BOOLEAN]
      /\ idle'.task = idle.task
      /\ \/ idle'.activity = idle.activity /\ idle'.deadline = idle.deadline
         \/ idle'.activity = clock /\ idle'.deadline = clock + opts.idleAfter
  <2>1. CASE idle.task = "asleep" /\ ~idle.stopped
    <3>1. idle' = [idle EXCEPT !.activity = clock, !.deadline = clock + opts.idleAfter]
      BY <1>1, <2>1
    <3>2. /\ clock \in Nat /\ clock + opts.idleAfter \in Int
          /\ idle \in [task : {"none", "asleep", "cancelled", "ended"}, started : Nat, activity : Nat,
                       deadline : Int, wake : Int, stopped : BOOLEAN]
      BY <1>2 DEF LogInv, LogTypes
    <3> QED
      BY <3>1, <3>2
  <2>2. CASE ~ (idle.task = "asleep" /\ ~idle.stopped)
    BY <1>1, <2>2 DEF LogInv, LogTypes
  <2> QED
    BY <2>1, <2>2
<1>4. /\ log' \in LogRecord /\ log'.lease = log.lease /\ log'.group = log.group /\ log'.errors = log.errors
      /\ log.lease => log'.obeyed = log.obeyed
  BY <1>1, <1>2, ReadOutput
<1>5. opts.idleAfter > 0 /\ log'.open => midLine'
  <2>1. CASE Echoes(opts, s) /\ ToLog(s)
    BY <1>1, <1>2, <2>1, ReadOutput DEF Mirrored
  <2>2. CASE ~ (Echoes(opts, s) /\ ToLog(s))
    BY <1>1, <2>2 DEF LogInv, Cursor, Mirrored
  <2> QED
    BY <2>1, <2>2
<1>6. midLine' \in BOOLEAN
  BY <1>1 DEF LogInv, LogTypes
<1>7. (Frames' <=> Frames) /\ (Annotates' <=> Annotates)
  BY <1>1 DEF Frames, Annotates
<1>8. LogTypes' /\ Cursor'
  BY <1>1, <1>3, <1>4, <1>5, <1>6 DEF LogInv, LogTypes, Cursor
<1>9. Schedule'
  BY <1>1, <1>2, <1>3 DEF LogInv, LogTypes, Schedule, Late
<1>10. Framing'
  BY <1>1, <1>4, <1>7 DEF LogInv, Framing, Late, Over
<1> QED
  BY <1>8, <1>9, <1>10 DEF LogInv

\* The monitor wakes: it sleeps on, or shows one heartbeat at a line's start.
LEMMA WakesLog == ASSUME LogInv, KeepsControl, IdleWakes PROVE LogInv'
<1> DEFINE IdleRecord == [task : {"none", "asleep", "cancelled", "ended"}, started : Nat, activity : Nat,
                          deadline : Int, wake : Int, stopped : BOOLEAN]
<1>1. /\ UNCHANGED << opts, pc, raised, clock, midLine, session, torn >> /\ idle.task = "asleep"
  BY DEF IdleWakes, KeepsControl, controlVars
<1>2. /\ opts.idleAfter \in Int /\ clock \in Nat /\ log \in LogRecord /\ idle \in IdleRecord
      /\ beat.at \in Int /\ clock + opts.idleAfter \in Int
  BY RequestAssumption DEF LogInv, LogTypes
<1>3. (Frames' <=> Frames) /\ (Annotates' <=> Annotates)
  BY <1>1 DEF Frames, Annotates
<1>4. pc \in Late /\ opts.idleAfter > 0 /\ idle.activity <= clock
  BY <1>1 DEF LogInv, Schedule
<1>5. CASE log' = log /\ beat' = beat
  <2>1. /\ idle' \in IdleRecord /\ idle'.activity = idle.activity
        /\ \/ idle'.deadline = idle.deadline
           \/ idle'.deadline = clock + opts.idleAfter
           \/ idle'.task = "ended"
    <3>1. \/ idle' = [idle EXCEPT !.wake = idle.deadline]
          \/ idle' = [[idle EXCEPT !.deadline = clock + opts.idleAfter] EXCEPT !.wake = clock + opts.idleAfter]
          \/ idle' = [idle EXCEPT !.stopped = TRUE, !.task = "ended"]
      BY <1>2 DEF IdleWakes, SleepAgain
    <3> QED
      BY <1>2, <3>1, ZenonT(60)
  <2>2. Schedule'
    BY <1>1, <1>2, <1>4, <1>5, <2>1 DEF LogInv, LogTypes, Schedule
  <2>3. LogTypes' /\ Cursor'
    BY <1>1, <1>5, <2>1 DEF LogInv, LogTypes, Cursor
  <2>4. Framing'
    BY <1>1, <1>3, <1>5 DEF LogInv, Framing
  <2> QED
    BY <2>2, <2>3, <2>4 DEF LogInv
<1>6. CASE Due /\ Diagnose /\ idle' = SleepAgain([idle EXCEPT !.deadline = clock + opts.idleAfter])
  <2>1. ~ idle.stopped /\ clock >= idle.deadline
    BY <1>6 DEF Due
  <2>2. /\ idle' \in IdleRecord /\ idle'.activity = idle.activity /\ idle'.deadline = clock + opts.idleAfter
    <3>1. idle' = [[idle EXCEPT !.deadline = clock + opts.idleAfter] EXCEPT !.wake = clock + opts.idleAfter]
      BY <1>2, <1>6 DEF SleepAgain
    <3> QED
      BY <1>2, <3>1
  <2>3. /\ log' \in LogRecord /\ log'.lease = log.lease /\ log'.group = log.group
        /\ log'.errors = log.errors /\ log'.obeyed = log.obeyed /\ ~ log'.open
    <3>1. PICK m : m = Read(log, "text")
      OBVIOUS
    <3>2. m \in LogRecord /\ m.lease = log.lease /\ m.group = log.group /\ m.errors = log.errors
             /\ m.obeyed = log.obeyed /\ ~ m.open
      BY <1>2, <3>1, ReadOutput
    <3>3. PICK n : n = Read(m, "text")
      OBVIOUS
    <3>4. n \in LogRecord /\ n.lease = log.lease /\ n.group = log.group /\ n.errors = log.errors
             /\ n.obeyed = log.obeyed /\ ~ n.open
      BY <3>2, <3>3, ReadOutput
    <3>5. log' = m \/ log' = n
      BY <1>6, <3>1, <3>3 DEF Diagnose
    <3> QED
      BY <3>2, <3>4, <3>5
  <2>4. /\ beat'.at = clock /\ beat'.silent = clock - idle.activity
        /\ beat'.gap = (IF beat.at < 0 THEN opts.idleAfter ELSE clock - beat.at)
        /\ beat'.fresh = (midLine \/ ~ log.open) /\ beat'.live = ~ idle.stopped
    BY <1>6 DEF Diagnose
  <2>5. /\ beat'.silent \in Int /\ beat'.gap \in Int /\ beat'.fresh \in BOOLEAN /\ beat'.live \in BOOLEAN
    BY <1>2, <2>4 DEF LogInv, LogTypes
  <2>6. beat' \in [at : Int, silent : Int, gap : Int, fresh : BOOLEAN, live : BOOLEAN]
    BY <1>2, <1>6, <2>4, <2>5 DEF Diagnose
  <2>7. beat'.silent >= opts.idleAfter /\ beat'.gap >= opts.idleAfter
    BY <1>1, <1>2, <1>4, <2>1, <2>4 DEF LogInv, Schedule
  <2>8. beat'.fresh /\ beat'.live
    BY <1>4, <2>1, <2>4 DEF LogInv, Cursor
  <2>9. Schedule'
    BY <1>1, <1>2, <1>4, <2>2, <2>4, <2>7, <2>8 DEF Schedule
  <2>10. LogTypes' /\ Cursor'
    BY <1>1, <2>2, <2>3, <2>6 DEF LogInv, LogTypes, Cursor
  <2>11. Framing'
    BY <1>1, <1>3, <1>4, <2>3 DEF LogInv, Framing, Late, Collected, Final
  <2> QED
    BY <2>9, <2>10, <2>11 DEF LogInv
<1> QED
  BY <1>5, <1>6 DEF IdleWakes

LEMMA DisplayLogs == ASSUME LogInv, Display PROVE LogInv'
<1>1. CASE pc = "live" /\ Tick
  <2>1. UNCHANGED << opts, pc, raised, idle, midLine, beat, log, session, torn >> /\ clock' = clock + 1
    BY <1>1 DEF Display, KeepsControl, controlVars, Tick
  <2>2. clock \in Nat /\ beat.at \in Int /\ idle.activity \in Nat
    BY DEF LogInv, LogTypes
  <2>3. Schedule'
    BY <2>1, <2>2 DEF LogInv, Schedule
  <2>4. LogTypes' /\ Cursor'
    BY <2>1 DEF LogInv, LogTypes, Cursor
  <2>5. (Frames' <=> Frames) /\ (Annotates' <=> Annotates)
    BY <2>1 DEF Frames, Annotates
  <2>6. Framing'
    BY <2>1, <2>5 DEF LogInv, Framing
  <2> QED
    BY <2>3, <2>4, <2>6 DEF LogInv
<1> QED
  BY <1>1, WritesLog, WakesLog DEF Display

LEMMA LogStep == LogInv /\ Control /\ [Next]_vars => LogInv'
  BY SilentSteps, OpenLogs, CloseLogs, CloseRaisesLogs, MonitorLogs, DisplayLogs DEF Next, Run

\* The schedule, the cursor and the frame agree at every step of the run and of
\* its child, however late the monitor is woken.
THEOREM LogInvariance == Spec => []LogInv
<1>1. LogInv /\ LeakInv /\ [Next]_vars => LogInv'
  BY LogStep DEF LeakInv
<1> QED
  BY <1>1, LogInitial, LeakInvariance, PTL DEF Spec

\* A heartbeat reports a whole interval of silence, on a line of its own and
\* never after the stop, and the runner obeys nothing of the child's while a
\* framing session is open; once it is closed the frame is undone, with the
\* annotation the outcome asks for.
THEOREM LogIsHonest == Spec => []LogHonest
<1>1. LogInv => LogHonest
  BY DEF LogInv, Schedule, Framing, LogHonest
<1> QED
  BY <1>1, LogInvariance, PTL

-----------------------------------------------------------------------------
(* The observers. *)

Phases == {"plan", "start", "stdout", "stdio_error", "timeout", "exit"}

\* An event before the terminal one: a span is opened or written to, and an
\* execution is counted with the start.
LEMMA Emission ==
    ASSUME SettleTypes, Spanned, terminal = "none", NEW phase \in Phases, NEW r, Emit(phase, r)
    PROVE  /\ SettleTypes' /\ Spanned' /\ terminal' = terminal /\ planned' = (planned \/ phase = "plan")
           /\ count'["outcomes"] = count["outcomes"] /\ count'["failures"] = count["failures"]
           /\ phase # "start" => count'["executions"] = count["executions"]
           /\ phase = "start" /\ r # "raises" => count'["executions"] = count["executions"] + 1
<1> DEFINE Spans == [st : {"none", "open", "ended"}, ok : BOOLEAN, ends : Nat, events : Nat, sealed : Nat]
<1>1. /\ terminal' = terminal /\ planned' = (planned \/ phase = "plan")
      /\ IF Reached(phase, r) THEN Trace(phase, "none") /\ Measure(phase, "none")
         ELSE UNCHANGED << span, active, count >>
  BY DEF Emit, Dispatch
<1>2. /\ span' \in Spans /\ active' \in BOOLEAN
      /\ \/ span' = span /\ active' = active
         \/ span'.st = "open" /\ span'.ends = 0 /\ active'
  <2>1. CASE ~ Reached(phase, r) \/ phase = "plan"
    BY <1>1, <2>1 DEF Trace, SettleTypes
  <2>2. CASE Reached(phase, r) /\ phase = "start"
    <3>1. span' = [NoSpan EXCEPT !.st = "open"] /\ active' = TRUE
      BY <1>1, <2>2 DEF Trace, HandleStart
    <3> QED
      BY <3>1 DEF NoSpan
  <2>3. CASE Reached(phase, r) /\ phase \notin {"plan", "start"}
    <3>1. span' = (IF active THEN AddEvent(span) ELSE span) /\ active' = active
      BY <1>1, <2>3 DEF Trace, RecordSpanEvent, Phases
    <3>2. CASE active
      <4>1. span' = [span EXCEPT !.events = span.events + 1]
        BY <3>1, <3>2 DEF AddEvent, Spanned
      <4> QED
        BY <3>1, <3>2, <4>1 DEF SettleTypes, Spanned
    <3> QED
      BY <3>1, <3>2 DEF SettleTypes
  <2> QED
    BY <2>1, <2>2, <2>3
<1>3. Spanned'
  BY <1>1, <1>2 DEF Spanned
<1>4. CASE ~ Reached(phase, r)
  BY <1>1, <1>2, <1>3, <1>4 DEF SettleTypes, Reached
<1>5. CASE Reached(phase, r)
  <2>1. PICK ops : ops = MetricOperations(phase, "none")
    OBVIOUS
  <2>2. "outcomes" \notin ops /\ "failures" \notin ops /\ ("executions" \in ops <=> phase = "start")
    BY <2>1 DEF MetricOperations, Phases
  <2>3. count' = [m \in DOMAIN count |-> IF m \in ops THEN count[m] + 1 ELSE count[m]]
    BY <1>1, <1>5, <2>1 DEF Measure
  <2>4. /\ count' \in [{"executions", "outcomes", "failures", "stdio_errors", "lines"} -> Nat]
        /\ \A m \in {"executions", "outcomes", "failures"} :
               count'[m] = IF m \in ops THEN count[m] + 1 ELSE count[m]
    BY <2>3 DEF SettleTypes
  <2>5. SettleTypes'
    BY <1>1, <1>2, <2>4 DEF SettleTypes
  <2> QED
    BY <1>1, <1>3, <2>2, <2>4, <2>5
<1> QED
  BY <1>4, <1>5

\* The terminal event ends the span that is open and counts the outcome.
LEMMA Termination ==
    ASSUME SettleTypes, Spanned, terminal = "none", planned, NEW outcome \in Outcomes, NEW r,
           EmitTerminal(outcome, r)
    PROVE  /\ SettleTypes' /\ Spanned' /\ terminal' = outcome /\ planned' = planned
           /\ count'["executions"] = count["executions"] /\ count'["outcomes"] = count["outcomes"] + 1
           /\ count'["failures"] = IF outcome = "exit_zero" THEN count["failures"] ELSE count["failures"] + 1
<1>1. /\ terminal' = outcome /\ planned' = planned
      /\ HandleSettled(outcome) /\ Measure("settled", outcome)
  BY DEF EmitTerminal, Dispatch, Reached, Trace
<1>2. /\ span' \in [st : {"none", "open", "ended"}, ok : BOOLEAN, ends : Nat, events : Nat, sealed : Nat]
      /\ active' = FALSE
      /\ \/ active /\ span'.st = "ended" /\ span'.ends = 1 /\ span'.events = span'.sealed
            /\ (span'.ok <=> outcome = "exit_zero")
         \/ ~ active /\ span' = span
  <2>1. CASE active
    <3>1. PICK ok \in BOOLEAN : ok <=> outcome = "exit_zero"
      OBVIOUS
    <3>2. span' = [span EXCEPT !.st = "ended", !.ok = ok, !.ends = span.ends + 1, !.sealed = span.events]
      BY <1>1, <2>1, <3>1 DEF HandleSettled, EndSpan, Spanned
    <3>3. /\ span \in [st : {"none", "open", "ended"}, ok : BOOLEAN, ends : Nat, events : Nat, sealed : Nat]
          /\ span.ends = 0
      BY <2>1 DEF SettleTypes, Spanned
    <3>4. PICK held \in Nat : held = span.events
      BY <3>3
    <3>5. span' = [span EXCEPT !.st = "ended", !.ok = ok, !.ends = 1, !.sealed = held]
      BY <3>2, <3>3, <3>4
    <3>6. /\ span' \in [st : {"none", "open", "ended"}, ok : BOOLEAN, ends : Nat, events : Nat, sealed : Nat]
          /\ span'.st = "ended" /\ span'.ends = 1 /\ span'.events = span'.sealed /\ span'.ok = ok
      BY <3>3, <3>4, <3>5
    <3> QED
      BY <1>1, <2>1, <3>1, <3>6 DEF HandleSettled
  <2>2. CASE ~ active
    BY <1>1, <2>2 DEF HandleSettled, SettleTypes
  <2> QED
    BY <2>1, <2>2
<1>3. Spanned'
  BY <1>1, <1>2 DEF Spanned, Outcomes
<1>4. count' = [m \in DOMAIN count |-> IF m \in MetricOperations("settled", outcome) THEN count[m] + 1 ELSE count[m]]
  BY <1>1 DEF Measure
<1>5. /\ count' \in [{"executions", "outcomes", "failures", "stdio_errors", "lines"} -> Nat]
      /\ count'["executions"] = count["executions"] /\ count'["outcomes"] = count["outcomes"] + 1
      /\ count'["failures"] = IF outcome = "exit_zero" THEN count["failures"] ELSE count["failures"] + 1
  BY <1>4 DEF SettleTypes, MetricOperations
<1> QED
  BY <1>1, <1>2, <1>3, <1>5 DEF SettleTypes

LEMMA SettleInitial == Init => SettleInv
<1> SUFFICES ASSUME Init PROVE SettleInv
  OBVIOUS
<1>1. /\ pc = "request" /\ result = "none" /\ error = "none" /\ raised = {} /\ terminal = "none"
      /\ planned = FALSE /\ active = FALSE /\ span = NoSpan
      /\ count = [executions |-> 0, outcomes |-> 0, failures |-> 0, stdio_errors |-> 0, lines |-> 0]
  BY DEF Init, TelemetryInit
<1>2. /\ span \in [st : {"none", "open", "ended"}, ok : BOOLEAN, ends : Nat, events : Nat, sealed : Nat]
      /\ span.st = "none" /\ span.ends = 0
  BY <1>1 DEF NoSpan
<1>3. SettleTypes
  <2>1. count = [m \in {"executions", "outcomes", "failures", "stdio_errors", "lines"} |-> 0]
    BY <1>1
  <2>2. count \in [{"executions", "outcomes", "failures", "stdio_errors", "lines"} -> Nat]
    BY <2>1
  <2> QED
    BY <1>1, <1>2, <2>2 DEF SettleTypes
<1>4. Spanned
  BY <1>1, <1>2 DEF Spanned
<1>5. Counted
  BY <1>1 DEF Counted, Started
<1>6. Settlement
  BY <1>1 DEF Settlement, Decided, Final
<1> QED
  BY <1>3, <1>4, <1>5, <1>6 DEF SettleInv

\* A step to another part of the run, before anything is settled.
LEMMA Going ==
    ASSUME Settlement, terminal' = terminal, pc \notin Over, pc' \notin {"settle", "drain", "drainFailed"},
           pc' \in Early => ~ planned', pc' \in Decided => error' # "none" \/ result' # "none",
           pc' # "done" => raised' \ {"start"} \subseteq raised,
           pc' = "done" => ~ planned' \/ "close" \in raised' \/ answer' = "handle"
    PROVE  Settlement' /\ terminal = "none"
  BY DEF Settlement, Over

\* A step nobody is told of.
LEMMA Untold ==
    ASSUME SettleTypes, Spanned, Counted, UNCHANGED << planned, terminal, span, active, count >>,
           pc' \in Fresh => pc \in Fresh,
           pc' \in Started \/ result' # "none" => pc \in Started \/ result # "none"
    PROVE  SettleTypes' /\ Spanned' /\ Counted'
  BY DEF SettleTypes, Spanned, Counted

LEMMA SettleUntold ==
    ASSUME SettleInv, UNCHANGED << telemetryVars, result >>, error' = error \/ error' # "none",
           \/ Request \/ Open \/ Observe \/ Before \/ Build \/ Sample \/ OpenPaths \/ Flush \/ Popen
           \/ Connect \/ Release \/ AttachRunTasks \/ Monitor \/ Stop \/ Stopped \/ Usage \/ After
           \/ CloseRaises \/ Detach \/ Reclaim \/ Receipt
    PROVE  SettleInv'
<1> USE DEF Goto, Fail, Answer
<1>1. UNCHANGED << planned, terminal, span, active, count >>
  BY DEF telemetryVars
<1>2. /\ pc \notin Over /\ pc' \notin {"settle", "drain", "drainFailed"}
      /\ pc' # "done" => raised' = raised
      /\ pc' \in Early => pc \in Early
      /\ pc' = "done" => pc \in Early \/ "close" \in raised' \/ answer' = "handle"
      /\ pc' \in Decided => error' # "none" \/ pc \in Decided
      /\ pc' \in Fresh => pc \in Fresh
      /\ pc' \in Started => pc \in Started
  <2> USE DEF Over, Early, Decided, Final, Fresh, Unborn, Started
  <2>1. CASE Request \/ Open \/ Observe \/ Before \/ Build \/ Sample
    BY <2>1 DEF Request, Open, Observe, Before, Build, Sample
  <2>2. CASE OpenPaths \/ Flush \/ Popen \/ Connect \/ Release \/ AttachRunTasks
    BY <2>2 DEF OpenPaths, Flush, Popen, Connect, Release, AttachRunTasks
  <2>3. CASE Monitor \/ Stop \/ Stopped \/ Usage \/ After
    BY <2>3 DEF Monitor, Stop, Stopped, Usage, After
  <2>4. CASE CloseRaises \/ Detach \/ Reclaim \/ Receipt
    BY <2>4 DEF CloseRaises, Detach, Reclaim, Receipt
  <2> QED
    BY <2>1, <2>2, <2>3, <2>4
<1>3. Settlement'
  BY <1>1, <1>2, Going DEF SettleInv, Settlement
<1>4. SettleTypes' /\ Spanned' /\ Counted'
  BY <1>1, <1>2, Untold DEF SettleInv
<1> QED
  BY <1>3, <1>4 DEF SettleInv

\* The steps that emit an event: a hook may raise, and then the run fails.
LEMMA SettleTold ==
    ASSUME SettleInv, UNCHANGED << result, answer >>, NEW phase \in Phases, NEW r, Emit(phase, r),
           pc \notin Over, pc' \notin Over, pc' \notin Early, raised' \ {"start"} \subseteq raised,
           pc' \in Decided => error' # "none" \/ result # "none",
           phase = "start" => pc = "start" /\ pc' \notin Fresh /\ (pc' \in Started => r # "raises"),
           phase # "start" => (pc' \in Fresh => pc \in Fresh) /\ (pc' \in Started => pc \in Started),
           result # "none" => pc \notin Fresh
    PROVE  SettleInv'
<1>1. terminal = "none"
  BY DEF SettleInv, Settlement, Over
<1>2. /\ SettleTypes' /\ Spanned' /\ terminal' = terminal
      /\ count'["outcomes"] = count["outcomes"] /\ count'["failures"] = count["failures"]
      /\ phase # "start" => count'["executions"] = count["executions"]
      /\ phase = "start" /\ r # "raises" => count'["executions"] = count["executions"] + 1
  BY <1>1, Emission DEF SettleInv
<1>3. Settlement'
  BY <1>2, Going DEF SettleInv, Over
<1>4. Counted'
  BY <1>1, <1>2 DEF SettleInv, Counted, Fresh
<1> QED
  BY <1>2, <1>3, <1>4 DEF SettleInv

LEMMA SettleSteps ==
    ASSUME SettleInv,
           \/ Request \/ Open \/ Observe \/ Before \/ Build \/ Sample \/ Popen
           \/ Connect \/ Release \/ AttachRunTasks \/ Monitor \/ Stop \/ Stopped \/ Usage \/ After
           \/ CloseRaises \/ Detach \/ Reclaim \/ Receipt
    PROVE  SettleInv'
<1> USE DEF Goto, Fail, Answer, quiet, watched
<1>1. UNCHANGED << telemetryVars, result >> /\ (error' = error \/ error' # "none")
  <2>1. CASE Request \/ Open \/ Observe \/ Before \/ Build \/ Sample \/ Popen
    BY <2>1 DEF Request, Open, Observe, Before, Build, Sample, Popen
  <2>2. CASE Connect \/ Release \/ AttachRunTasks \/ Monitor \/ Stop \/ Stopped \/ Usage \/ After
    BY <2>2 DEF Connect, Release, AttachRunTasks, Monitor, Stop, Stopped, Usage, After
  <2>3. CASE CloseRaises \/ Detach \/ Reclaim \/ Receipt
    BY <2>3 DEF CloseRaises, Detach, Reclaim, Receipt
  <2> QED
    BY <2>1, <2>2, <2>3
<1> QED
  BY <1>1, SettleUntold

LEMMA SettleEmits ==
    ASSUME SettleInv, Plan \/ Start \/ StartHandle \/ Line \/ Expires \/ ExitOfExpired \/ Exit
    PROVE  SettleInv'
<1> USE DEF Goto, Fail, Phases, Over, Early, Decided, Final, Fresh, Unborn, Started
<1>0. pc \in Fresh => result = "none"
  BY DEF SettleInv, Counted
<1>1. CASE Plan
  BY <1>0, <1>1, SettleTold DEF Plan
<1>2. CASE Start
  <2>1. PICK r : /\ Emit("start", r) /\ pc = "start" /\ UNCHANGED << result, answer >>
                 /\ raised' \ {"start"} \subseteq raised
                 /\ IF r = "raises" THEN pc' = "close" /\ error' = "error" ELSE pc' = "monitor"
    BY <1>2 DEF Start
  <2> QED
    BY <1>0, <2>1, SettleTold
<1>3. CASE StartHandle
  <2>1. PICK r : /\ Emit("start", r) /\ pc = "start" /\ UNCHANGED << result, answer, raised >>
                 /\ IF r = "raises" THEN pc' = "close" /\ error' = "error" ELSE pc' = "attach"
    BY <1>3 DEF StartHandle
  <2> QED
    BY <1>0, <2>1, SettleTold
<1>4. CASE Line
  <2>1. PICK r : /\ Emit("stdout", r) /\ pc = "live" /\ UNCHANGED << result, answer, raised >>
                 /\ IF r = "raises" THEN pc' = "stop" /\ error' = "error" ELSE pc' = "live"
    BY <1>4 DEF Line
  <2> QED
    BY <2>1, SettleTold
<1>5. CASE Expires
  <2>1. PICK r : /\ Emit("timeout", r) /\ pc = "live" /\ pc' = "expired"
                 /\ UNCHANGED << result, answer, raised >>
    BY <1>5 DEF Expires
  <2> QED
    BY <2>1, SettleTold
<1>6. CASE ExitOfExpired
  <2>1. PICK r : /\ Emit("exit", r) /\ pc = "expired" /\ pc' = "stop" /\ error' # "none"
                 /\ UNCHANGED << result, answer, raised >>
    BY <1>6 DEF ExitOfExpired
  <2> QED
    BY <2>1, SettleTold
<1>7. CASE Exit
  <2>1. PICK r : /\ Emit("exit", r) /\ pc = "exit" /\ pc' \in {"close", "after"}
                 /\ (error' = error \/ error' = "error") /\ UNCHANGED << result, answer, raised >>
    BY <1>7 DEF Exit
  <2>2. error' # "none" \/ result # "none"
    BY <2>1 DEF SettleInv, Settlement
  <2> QED
    BY <2>1, <2>2, SettleTold
<1> QED
  BY <1>1, <1>2, <1>3, <1>4, <1>5, <1>6, <1>7

LEMMA SettleSpawns == ASSUME SettleInv, OpenPaths \/ Flush PROVE SettleInv'
<1> USE DEF Goto, Fail, quiet, watched
<1>1. CASE ReportStdio
  <2>1. /\ pc \in {"open", "flush"} /\ pc' \in {"flush", "open", "popen", "release"}
        /\ UNCHANGED << result, answer, raised >>
    BY DEF OpenPaths, Flush
  <2>2. PICK r : Emit("stdio_error", r)
    BY <1>1 DEF ReportStdio
  <2>3. result = "none"
    BY <2>1 DEF SettleInv, Counted, Fresh, Unborn
  <2> QED
    BY <2>1, <2>2, <2>3, SettleTold DEF Phases, Over, Early, Decided, Final, Fresh, Unborn,
         Started
<1>2. CASE ~ ReportStdio
  <2>1. UNCHANGED << telemetryVars, result >> /\ error' = error
    BY <1>2 DEF OpenPaths, Flush
  <2> QED
    BY <2>1, SettleUntold
<1> QED
  BY <1>1, <1>2

\* The child's end.
LEMMA SettleEnds == ASSUME SettleInv, (\E status \in {"zero", "nonzero"} : Exits(status)) \/ Cancelled PROVE SettleInv'
<1>1. /\ pc = "live" /\ pc' = "stop" /\ UNCHANGED << planned, terminal, span, active, count, raised >>
      /\ \/ error' # "none" /\ result' = result
         \/ error' = error /\ result' # "none"
  BY DEF Exits, Cancelled, Fail, watched, telemetryVars
<1>2. Settlement'
  BY <1>1, Going DEF SettleInv, Over, Early
<1>3. SettleTypes' /\ Spanned' /\ Counted'
  BY <1>1, Untold DEF SettleInv, Fresh, Unborn, Started
<1> QED
  BY <1>2, <1>3 DEF SettleInv

\* The session is closed with the outcome.
LEMMA SettleCloses == ASSUME SettleInv, LogInv, Close PROVE SettleInv'
<1>1. /\ pc = "close" /\ pc' = "settle" /\ CloseSession(Outcome)
      /\ UNCHANGED << result, error, raised, answer, planned, terminal, span, active, count >>
  BY DEF Close, Goto, telemetryVars
<1>2. session.st # "closed"
  BY <1>1 DEF LogInv, Framing, Over
<1>3. session'.st = "closed" => session'.outcome = Outcome
  BY <1>1, <1>2 DEF CloseSession, presentationVars
<1>4. Outcome' = Outcome
  BY <1>1 DEF Outcome
<1>5. Settlement'
  BY <1>1, <1>3, <1>4 DEF SettleInv, Settlement, Early, Decided, Final
<1>6. SettleTypes' /\ Spanned' /\ Counted'
  BY <1>1, Untold DEF SettleInv, Fresh, Unborn, Started
<1> QED
  BY <1>5, <1>6 DEF SettleInv

\* All observers are told the outcome.
LEMMA SettleTells == ASSUME SettleInv, Control, Settle PROVE SettleInv'
<1>1. PICK r : /\ pc = "settle" /\ pc' \in {"drain", "drainFailed"} /\ EmitTerminal(Outcome, r)
               /\ pc' = "drainFailed" => r = "raises"
               /\ UNCHANGED << result, error, raised, answer, session >>
  BY DEF Settle, presentationVars
<1>2. Outcome' = Outcome /\ Outcome \in Outcomes
  BY <1>1 DEF Outcome, Control, Errors, Outcomes
<1>3. terminal = "none"
  BY <1>1 DEF SettleInv, Settlement
<1>4. CASE ~ planned
  <2>1. UNCHANGED << planned, terminal, span, active, count >> /\ pc' = "drain"
    BY <1>1, <1>4 DEF EmitTerminal, telemetryVars, Settle
  <2>2. Settlement'
    BY <1>1, <1>2, <1>3, <1>4, <2>1 DEF SettleInv, Settlement, Early, Decided, Final
  <2>3. SettleTypes' /\ Spanned' /\ Counted'
    BY <1>1, <2>1, Untold DEF SettleInv, Fresh, Unborn, Started
  <2> QED
    BY <2>2, <2>3 DEF SettleInv
<1>5. CASE planned
  <2>1. /\ SettleTypes' /\ Spanned' /\ terminal' = Outcome /\ planned' = planned
        /\ count'["executions"] = count["executions"] /\ count'["outcomes"] = count["outcomes"] + 1
        /\ count'["failures"] = IF Outcome = "exit_zero" THEN count["failures"] ELSE count["failures"] + 1
    BY <1>1, <1>2, <1>3, <1>5, Termination DEF SettleInv
  <2>2. Settlement'
    BY <1>1, <1>2, <2>1 DEF SettleInv, Settlement, Early, Decided, Final, Outcomes
  <2>3. Counted'
    BY <1>1, <1>2, <1>3, <2>1 DEF SettleInv, Counted, Fresh, Unborn, Started, Outcomes
  <2> QED
    BY <2>1, <2>2, <2>3 DEF SettleInv
<1> QED
  BY <1>4, <1>5

\* Every hook task is awaited before the answer.
LEMMA SettleAnswers == ASSUME SettleInv, Control, Drain \/ DrainFailed PROVE SettleInv'
<1>1. /\ pc \in {"drain", "drainFailed"} /\ pc' = "done"
      /\ UNCHANGED << result, error, raised, session, tasks, planned, terminal, span, active, count >>
      /\ TasksEnded /\ (TaskFailed => answer' = "raised") /\ (answer' = "result" => error = "none")
  BY DEF Control, Errors, Drain, DrainFailed, Answer, quiet, watched, telemetryVars,
       presentationVars
<1>2. Outcome' = Outcome /\ TasksEnded' /\ (TaskFailed' <=> TaskFailed)
  BY <1>1 DEF Outcome, TasksEnded, TaskFailed
<1>3. Settlement'
  BY <1>1, <1>2 DEF SettleInv, Settlement, Early, Decided, Final
<1>4. SettleTypes' /\ Spanned' /\ Counted'
  BY <1>1, Untold DEF SettleInv, Fresh, Unborn, Started
<1> QED
  BY <1>3, <1>4 DEF SettleInv

\* Whatever happens beside the run.
LEMMA SettleBeside ==
    ASSUME SettleInv, Outside \/ Display \/ MonitorEnds \/ HookTasks \/ Beside \/ UNCHANGED vars
    PROVE  SettleInv'
<1>1. /\ UNCHANGED << pc, result, error, raised, answer, planned, terminal, active, count >>
      /\ session' = session
      /\ span' = span \/ span' = AddEvent(span)
      /\ tasks' = tasks \/ ~ TasksEnded
  <2>1. CASE Outside
    BY <2>1 DEF Outside, KeepsControl, controlVars, watched, telemetryVars, presentationVars,
         AsideLooksUp, AsideWrites
  <2>2. CASE Display \/ MonitorEnds
    BY <2>2 DEF Display, MonitorEnds, KeepsControl, controlVars, telemetryVars, ChildWrites,
         Tick, IdleWakes, IdleEnds
  <2>3. CASE HookTasks
    BY <2>3 DEF HookTasks, KeepsControl, controlVars, presentationVars, TaskEnds, TasksEnded
  <2>4. CASE Beside \/ UNCHANGED vars
    BY <2>4 DEF Beside, vars, controlVars, quiet, watched, telemetryVars, presentationVars
  <2> QED
    BY <2>1, <2>2, <2>3, <2>4
<1>2. /\ span' \in [st : {"none", "open", "ended"}, ok : BOOLEAN, ends : Nat, events : Nat, sealed : Nat]
      /\ span'.st = span.st /\ span'.ends = span.ends /\ span'.ok = span.ok /\ span'.sealed = span.sealed
      /\ span.st = "ended" => span'.events = span.events
  BY <1>1 DEF SettleInv, SettleTypes, AddEvent
<1>3. SettleTypes' /\ Spanned' /\ Counted'
  BY <1>1, <1>2 DEF SettleInv, SettleTypes, Spanned, Counted
<1>4. Outcome' = Outcome
  BY <1>1 DEF Outcome
<1>5. tasks' = tasks => (TasksEnded' <=> TasksEnded) /\ (TaskFailed' <=> TaskFailed)
  BY DEF TasksEnded, TaskFailed
<1>6. Settlement'
  BY <1>1, <1>4, <1>5 DEF SettleInv, Settlement
<1> QED
  BY <1>3, <1>6 DEF SettleInv

LEMMA SettleStep == SettleInv /\ LogInv /\ Control /\ [Next]_vars => SettleInv'
  BY SettleSteps, SettleEmits, SettleSpawns, SettleEnds, SettleCloses, SettleTells,
       SettleAnswers, SettleBeside
  DEF Next, Run, Ending

\* Span, counters, terminal event and session agree with the run's outcome
\* whichever hook raises, and while another thread writes to the span.
THEOREM SettleInvariance == Spec => []SettleInv
<1>1. SettleInv /\ LogInv /\ LeakInv /\ [Next]_vars => SettleInv'
  BY SettleStep DEF LeakInv
<1> QED
  BY <1>1, SettleInitial, LogInvariance, LeakInvariance, PTL DEF Spec

\* A planned run that has answered gave its observers one terminal event with
\* its outcome: the span was ended once with that status and got nothing after,
\* the counters agree with it, and no hook task still runs.
THEOREM ObserversSettleOnce == Spec => []SettledOnce
<1>1. ASSUME SettleInv, Control PROVE SettledOnce
  <2>1. span.ends <= 1 /\ (span.st = "ended" => span.events = span.sealed)
    BY <1>1 DEF SettleInv, SettleTypes, Spanned
  <2>2. ASSUME Done, planned, "close" \notin raised, answer # "handle"
        PROVE  /\ terminal # "none" /\ ~ active /\ span.st # "open"
               /\ span.st = "ended" => span.ok = (terminal = "exit_zero")
               /\ count.outcomes = 1 /\ count.failures = (IF terminal = "exit_zero" THEN 0 ELSE 1)
               /\ terminal \in {"exit_zero", "exit_nonzero"} => count.executions = 1
               /\ session.st = "closed" => session.outcome = terminal
               /\ TasksEnded /\ (TaskFailed => answer = "raised")
               /\ answer = "result" => terminal = Outcome /\ error = "none"
    <3>1. terminal # "none" /\ terminal = Outcome
      BY <1>1, <2>2 DEF SettleInv, Settlement, Done
    <3>2. ~ active /\ span.st # "open" /\ (span.st = "ended" => span.ok = (terminal = "exit_zero"))
      BY <1>1, <3>1 DEF SettleInv, SettleTypes, Spanned
    <3>3. count.outcomes = 1 /\ count.failures = (IF terminal = "exit_zero" THEN 0 ELSE 1)
      BY <1>1, <3>1 DEF SettleInv, Counted
    <3>4. terminal \in {"exit_zero", "exit_nonzero"} => count.executions = 1
      BY <1>1, <2>2, <3>1 DEF SettleInv, Counted, Settlement, Control, Errors, Outcome, Done
    <3>5. /\ session.st = "closed" => session.outcome = terminal
          /\ TasksEnded /\ (TaskFailed => answer = "raised")
          /\ answer = "result" => error = "none"
      BY <1>1, <2>2 DEF SettleInv, Settlement, Done
    <3> QED
      BY <3>1, <3>2, <3>3, <3>4, <3>5
  <2> QED
    BY <2>1, <2>2 DEF SettledOnce
<1>2. SettleInv /\ LeakInv => SettledOnce
  BY <1>1 DEF LeakInv
<1> QED
  BY <1>2, SettleInvariance, LeakInvariance, PTL

-----------------------------------------------------------------------------
(* The launch. *)

LEMMA StartInitial == Init => StartInv
<1> SUFFICES ASSUME Init PROVE StartInv
  OBVIOUS
<1>1. /\ pc = "request" /\ opts \in Requests /\ answer = "none"
      /\ scope = [exe |-> "answer", env |-> opts.scopeEnv, closed |-> FALSE] /\ executed = Nothing /\ child.st = "none" /\ file = << >> /\ usage = -1
      /\ bound = [s \in Streams |-> "none"] /\ cpu = [now |-> 0, before |-> 0]
      /\ pending = (\E s \in Streams : opts.target[s].kind = "object")
      /\ fds = [n \in Numbers |-> IF \E s \in Streams : opts.target[s].kind \in {"fd", "object"} /\ opts.target[s].fd = n
                                  THEN "caller" ELSE "free"]
  BY DEF Init, LaunchInit, NoChild
<1>2. Promised
  BY <1>1 DEF Promised, Announcing, Resolved, Spawned, Elsewhere
<1>3. Bound
  <2>1. ASSUME NEW s \in Streams, opts.target[s].kind \in {"fd", "object"}, opts.target[s].fd >= 0
        PROVE  fds[opts.target[s].fd] = "caller"
    <3>1. PICK n \in Numbers : n = opts.target[s].fd
      BY <1>1, <2>1, LaunchAssumption
    <3> QED
      BY <1>1, <2>1, <3>1
  <2> QED
    BY <1>1, <2>1 DEF Bound, Spawned
<1>4. Filed
  BY <1>1 DEF Filed
<1>5. Charged
  BY <1>1 DEF Charged, Collected
<1>6. Given
  BY <1>1 DEF Given
<1> QED
  BY <1>2, <1>3, <1>4, <1>5, <1>6 DEF StartInv

\* A step that leaves the streams, the file and what was announced alone.
LEMMA StartKept ==
    ASSUME StartInv, UNCHANGED << opts, scope, announced, executed, fds, opened, pending, file, bound >>,
           child'.st = "none" <=> child.st = "none", Charged', Given',
           pc' \in {"request", "session", "observe"} => pc \in {"request", "session", "observe"},
           pc' \in Announcing => pc \in Announcing,
           pc' \in Resolved => pc \in Resolved \/ Resolvable,
           pc' \in {"flush", "popen"} => pc \in {"flush", "popen"} \/ (\A s \in Streams : ~ Owned(s)),
           pc' = "popen" => pc = "popen",
           pc' \in {"detach", "receipt", "reclaim"} => opts.detached,
           pc' \notin Elsewhere => \/ pc \notin Elsewhere
                                   \/ ~ opts.detached /\ (opts.entry = "start" => HandleStreamsAllowed(opts)),
           pc' = "attach" => opts.entry = "start"
    PROVE  StartInv'
<1>1. Promised'
  BY DEF StartInv, Promised, Announced, Resolvable, Spawned
<1>2. Bound'
  BY DEF StartInv, Bound, NoObject, Owned, Spawned
<1>3. Filed'
  BY DEF StartInv, Filed
<1> QED
  BY <1>1, <1>2, <1>3 DEF StartInv

LEMMA ChargedKept ==
    ASSUME Charged, UNCHANGED << opts, cpu, usage >>, pc' \in Collected => pc \in Collected
    PROVE  Charged'
  BY DEF Charged

LEMMA GivenKept == ASSUME Given, UNCHANGED << opts, bound >>, answer' \in {answer, "none"} \/ answer' \notin {"handed on", "handle"}
                   PROVE  Given'
  BY DEF Given

\* A step that leaves the whole launch alone.
LEMMA StartQuiet ==
    ASSUME StartInv, UNCHANGED << opts, launchVars >>,
           answer' = answer \/ answer' \notin {"handed on", "handle"},
           pc' \in Elsewhere => pc' = "done" \/ pc' = pc, pc' \notin Elsewhere => pc \notin Elsewhere,
           pc' \in {"session", "observe"} => pc \in {"session", "observe"},
           pc' \in Announcing => pc \in Announcing,
           pc' \in Resolved => pc \in Resolved \/ Resolvable,
           pc' \in {"flush", "popen"} => pc \in {"flush", "popen"} \/ (\A s \in Streams : ~ Owned(s)),
           pc' = "popen" => pc = "popen",
           pc' \in Collected => pc \in Collected, pc' = "attach" => opts.entry = "start"
    PROVE  StartInv'
<1>1. UNCHANGED << scope, announced, executed, fds, opened, pending, file, bound, child, cpu, usage >>
  BY DEF launchVars
<1>2. Charged' /\ Given'
  BY <1>1, ChargedKept, GivenKept DEF StartInv
<1>3. pc' \in {"detach", "receipt", "reclaim"} => opts.detached
  BY DEF StartInv, Promised, Elsewhere
<1> QED
  BY <1>1, <1>2, <1>3, StartKept DEF Elsewhere

LEMMA RequestStarts == ASSUME StartInv, Request PROVE StartInv'
<1>1. /\ pc = "request" /\ UNCHANGED << opts, launchVars >>
      /\ \/ pc' = "done" /\ answer' \in {"refused", "forbidden"}
         \/ /\ pc' = "done" /\ answer' = "handed on" /\ opts.entry \in {"lines", "pipeline"}
            /\ ~ RefusedFirst(opts) /\ ~ RefusedThen(opts)
         \/ pc' = "detach" /\ opts.detached /\ answer' = answer
         \/ pc' = "session" /\ ~ opts.detached /\ answer' = answer /\ ~ RefusedThen(opts)
  BY DEF Request, Answer, Goto, quiet
<1>2. UNCHANGED << scope, announced, executed, fds, opened, pending, file, bound, child, cpu, usage >>
  BY <1>1 DEF launchVars
<1>3. Charged'
  BY <1>1, <1>2, ChargedKept DEF StartInv, Collected
<1>4. Given'
  <2>1. CASE answer' # "handed on"
    BY <1>1, <1>2, <2>1, GivenKept DEF StartInv
  <2>2. CASE answer' = "handed on" /\ pc' = "done"
    <3>1. opts.entry = "lines" => IsPipe(opts.target["stdout"])
      BY <1>1, <2>2 DEF RefusedThen, LinesStdoutAllowed
    <3>2. opts.entry = "pipeline" => \A s \in Streams : opts.target[s] = NoTarget
      BY <1>1, <2>2 DEF RefusedFirst, PipelineTargetsAllowed
    <3>3. IsPipe(NoTarget)
      BY DEF IsPipe, NoTarget
    <3>4. opts.entry = "pipeline" => IsPipe(opts.target["stdout"]) /\ IsPipe(opts.target["stderr"])
      BY <3>2, <3>3 DEF Streams
    <3>5. opts.entry \in {"lines", "pipeline"}
      BY <1>1, <2>2 DEF StartInv, Given
    <3> QED
      BY <1>1, <2>2, <3>1, <3>4, <3>5 DEF Given
  <2> QED
    BY <1>1, <1>2, <2>1, <2>2, GivenKept DEF StartInv
<1>5. pc' = "session" /\ opts.entry = "start" => HandleStreamsAllowed(opts)
  BY <1>1 DEF RefusedThen
<1> QED
  BY <1>1, <1>2, <1>3, <1>4, <1>5, StartKept DEF Announcing, Resolved, Elsewhere

\* The steps that leave the launch alone.
LEMMA StillStarts ==
    ASSUME StartInv, Control,
           \/ Open \/ Plan \/ Build \/ Start \/ Monitor \/ ExitOfExpired \/ Stop \/ Stopped \/ Exit \/ After
           \/ Close \/ CloseRaises \/ Settle \/ Drain \/ DrainFailed \/ Display \/ MonitorEnds \/ HookTasks
           \/ Beside \/ UNCHANGED vars
    PROVE  StartInv'
<1> USE DEF Goto, Fail, Answer, Elsewhere, Announcing, Resolved, Collected, quiet, watched
<1>1. CASE Open \/ Plan
  BY <1>1, StartQuiet DEF Open, Plan
<1>2. CASE Build
  BY <1>2, StartQuiet DEF Build
<1>3. CASE Start \/ Monitor
  BY <1>3, StartQuiet DEF Start, Monitor
<1>4. CASE ExitOfExpired \/ Stop \/ Stopped \/ Exit \/ After
  BY <1>4, StartQuiet DEF ExitOfExpired, Stop, Stopped, Exit, After
<1>5. CASE Close \/ CloseRaises \/ Settle
  BY <1>5, StartQuiet DEF Close, CloseRaises, Settle
<1>6. CASE Drain \/ DrainFailed
  <2>1. /\ pc' = "done" /\ pc \in {"drain", "drainFailed"} /\ UNCHANGED << opts, launchVars >>
        /\ answer' \notin {"handed on", "handle"}
    BY <1>6 DEF Drain, DrainFailed, Control, Errors
  <2> QED
    BY <2>1, StartQuiet
<1>7. CASE Display \/ MonitorEnds \/ HookTasks \/ Beside \/ UNCHANGED vars
  <2>1. UNCHANGED << opts, launchVars, pc, answer >>
    BY <1>7 DEF Display, MonitorEnds, HookTasks, Beside, vars, KeepsControl, controlVars
  <2>2. pc' = "attach" => opts.entry = "start"
    BY <2>1 DEF StartInv, Bound
  <2> QED
    BY <2>1, <2>2, StartQuiet
<1> QED
  BY <1>1, <1>2, <1>3, <1>4, <1>5, <1>6, <1>7

LEMMA ObserveStarts == ASSUME StartInv, LeakInv, Observe PROVE StartInv'
<1>1. CASE UNCHANGED launchVars /\ pc' = "close"
  BY <1>1, StartQuiet DEF Observe, Goto, Fail, Elsewhere, Announcing, Resolved, Collected
<1>2. CASE PrepareObservation /\ Goto("plan")
  <2>1. /\ pc = "observe" /\ pc' = "plan" /\ child.st = "none"
        /\ UNCHANGED << opts, answer, scope, executed, fds, opened, pending, file, bound, child, cpu, usage >>
        /\ announced' = [exe |-> ResolveExecutable, argv |-> Argv(opts.build),
                         env |-> RenderEnv(ResolveEnv(scope.env, opts.callEnv))]
    BY <1>2 DEF Observe, PrepareObservation, Goto, LeakInv, Offspring, Unborn, NoChild
  <2>2. scope.env = opts.scopeEnv
    BY <2>1 DEF StartInv, Promised
  <2>3. announced' = Announced'
    BY <2>1, <2>2 DEF Announced
  <2>4. Promised'
    BY <2>1, <2>3 DEF StartInv, Promised, Spawned, Elsewhere, Announcing, Resolved
  <2>5. Bound'
    BY <2>1 DEF StartInv, Bound, NoObject, Spawned
  <2>6. Filed' /\ Charged' /\ Given'
    BY <2>1 DEF StartInv, Filed, Charged, Given, Collected
  <2> QED
    BY <2>4, <2>5, <2>6 DEF StartInv
<1> QED
  BY <1>1, <1>2 DEF Observe, Fail

\* What a before hook changes: the resolver's answer, the scope, or the file.
LEMMA BeforeStarts == ASSUME StartInv, LeakInv, Before PROVE StartInv'
<1>1. CASE UNCHANGED launchVars
  BY <1>1, StartQuiet DEF Before, Goto, Fail, Elsewhere, Announcing, Resolved, Collected
<1>2. CASE opts.before \in {"env", "exe", "file"} /\ HookChanges(opts.before) /\ Goto("build")
  <2>1. /\ pc = "before" /\ pc' = "build" /\ child.st = "none"
        /\ UNCHANGED << opts, answer, announced, executed, opened, bound, child, cpu, usage >>
        /\ fds' = [n \in Numbers |-> IF opts.before = "file" /\ n \in Borrowed THEN "free" ELSE fds[n]]
        /\ pending' = (pending /\ opts.before # "file")
        /\ file' = IF opts.before = "file" /\ pending THEN Append(file, "caller") ELSE file
    BY <1>2 DEF Before, HookChanges, Goto, LeakInv, Offspring, Unborn, NoChild
  <2>2. PICK w : w = opts.before
    OBVIOUS
  <2>3. /\ w = "env" => scope' = [scope EXCEPT !.env = opts.hookEnv]
        /\ w = "exe" => scope' = [scope EXCEPT !.exe = "another"]
        /\ w = "file" => scope' = [scope EXCEPT !.closed = TRUE]
    BY <1>2, <2>2 DEF HookChanges
  <2>4. /\ scope' \in [exe : {"answer", "another"}, env : {opts.scopeEnv, opts.hookEnv}, closed : BOOLEAN]
        /\ w # "env" => scope'.env = scope.env
        /\ scope'.closed <=> scope.closed \/ w = "file"
    BY <1>2, <2>2, <2>3 DEF StartInv, Promised
  <2>5. Promised'
    BY <2>1, <2>2, <2>4 DEF StartInv, Promised, Announced, Spawned, Elsewhere, Announcing,
         Resolved
  <2>6. ASSUME NEW s \in Streams, opts.target[s].kind \in {"fd", "object"}, opts.target[s].fd >= 0,
               ~ scope'.closed \/ NoObject
        PROVE  fds'[opts.target[s].fd] = "caller"
    <3>1. PICK n \in Numbers : n = opts.target[s].fd
      BY <2>6, LaunchAssumption DEF StartInv, Promised
    <3>2. fds[n] = "caller"
      BY <2>4, <2>6, <3>1 DEF StartInv, Bound
    <3>3. w = "file" => Borrowed = {}
      BY <2>4, <2>6 DEF Borrowed, NoObject
    <3> QED
      BY <2>1, <2>2, <3>1, <3>2, <3>3
  <2>7. Bound'
    BY <2>1, <2>6 DEF StartInv, Bound, NoObject, Spawned
  <2>8. Filed'
    <3>1. CASE opts.before = "file" /\ pending
      <4>1. file' = Append(file, "caller") /\ pending' = FALSE /\ file \in Seq({"caller", "child"})
        BY <2>1, <3>1 DEF StartInv, Filed
      <4>2. \A k \in DOMAIN file : file[k] # "child"
        BY <3>1 DEF StartInv, Filed
      <4>3. file' \in Seq({"caller", "child"}) /\ \A k \in DOMAIN file' : file'[k] # "child"
        BY <4>1, <4>2
      <4> QED
        BY <2>1, <4>1, <4>3 DEF StartInv, Filed
    <3>2. CASE ~ (opts.before = "file" /\ pending)
      BY <2>1, <3>2 DEF StartInv, Filed
    <3> QED
      BY <3>1, <3>2
  <2>9. Charged' /\ Given'
    BY <2>1, ChargedKept, GivenKept DEF StartInv, Collected
  <2> QED
    BY <2>5, <2>7, <2>8, <2>9 DEF StartInv
<1> QED
  BY <1>1, <1>2 DEF Before

LEMMA SampleStarts == ASSUME StartInv, Sample PROVE StartInv'
<1>1. /\ pc = "sample" /\ pc' = "open" /\ cpu' = [cpu EXCEPT !.before = cpu.now]
      /\ UNCHANGED << opts, answer, scope, announced, executed, fds, opened, pending, file, bound, child, usage >>
  BY DEF Sample, SampleRunStart, Goto
<1>2. cpu' \in [now : Nat, before : Nat] /\ cpu'.before <= cpu'.now
  BY <1>1 DEF StartInv, Charged
<1>3. Charged'
  BY <1>1, <1>2 DEF StartInv, Charged, Collected
<1>4. Given'
  BY <1>1, GivenKept DEF StartInv
<1> QED
  BY <1>1, <1>3, <1>4, StartKept DEF Announcing, Resolved, Elsewhere

LEMMA OpenPathsStarts == ASSUME StartInv, LeakInv, OpenPaths PROVE StartInv'
<1>1. CASE UNCHANGED launchVars /\ pc' \in {"flush", "release"}
  <2>1. pc = "open" /\ UNCHANGED << opts, answer >> /\ (pc' = "flush" => \A s \in Streams : ~ Owned(s))
    BY <1>1 DEF OpenPaths, Goto, Fail
  <2> QED
    BY <1>1, <2>1, StartQuiet DEF Elsewhere, Announcing, Resolved, Collected
<1>2. CASE Free # {} /\ OpenOwnedPath(NextOwned) /\ Goto("open")
  <2>1. PICK n : n = Lowest
    OBVIOUS
  <2>2. n \in Numbers /\ fds[n] = "free"
    BY <1>2, <2>1, LowestFree DEF LeakInv
  <2>3. /\ pc = "open" /\ pc' = "open" /\ fds' = [fds EXCEPT ![n] = "run"] /\ child.st = "none"
        /\ UNCHANGED << opts, answer, scope, announced, executed, pending, file, bound, child, cpu, usage >>
    BY <1>2, <2>1 DEF OpenPaths, OpenOwnedPath, Goto, LeakInv, Offspring, Unborn, NoChild
  <2>4. \A m : fds[m] = "caller" /\ m \in Numbers => fds'[m] = "caller"
    BY <2>2, <2>3 DEF LeakInv, Descriptors
  <2>5. Promised'
    BY <2>3 DEF StartInv, Promised, Announced, Resolvable, Spawned
  <2>6. Bound'
    BY <2>3, <2>4, LaunchAssumption DEF StartInv, Bound, Promised, NoObject, Spawned
  <2>7. Filed' /\ Charged' /\ Given'
    BY <2>3, ChargedKept, GivenKept DEF StartInv, Filed
  <2> QED
    BY <2>5, <2>6, <2>7 DEF StartInv
<1> QED
  BY <1>1, <1>2 DEF OpenPaths, quiet, Goto, Fail

LEMMA FlushStarts == ASSUME StartInv, LeakInv, Flush PROVE StartInv'
<1>1. CASE UNCHANGED launchVars /\ pc' = "release"
  BY <1>1, StartQuiet DEF Flush, Fail, Goto, Elsewhere, Announcing, Resolved, Collected
<1>2. CASE FlushBorrowed /\ Goto("popen")
  <2>1. /\ pc = "flush" /\ pc' = "popen" /\ pending' = FALSE /\ child.st = "none"
        /\ file' = IF pending THEN Append(file, "caller") ELSE file
        /\ UNCHANGED << opts, answer, scope, announced, executed, fds, opened, bound, child, cpu, usage >>
    BY <1>2 DEF Flush, FlushBorrowed, Goto, LeakInv, Offspring, Unborn, NoChild
  <2>2. Promised'
    BY <2>1 DEF StartInv, Promised, Announced, Resolvable, Spawned, Elsewhere, Announcing,
         Resolved
  <2>3. Bound'
    BY <2>1 DEF StartInv, Bound, NoObject, Owned, Spawned
  <2>4. Filed'
    <3>1. CASE pending
      <4>1. file' = Append(file, "caller") /\ file \in Seq({"caller", "child"})
        BY <2>1, <3>1 DEF StartInv, Filed
      <4>2. \A k \in DOMAIN file : file[k] # "child"
        BY <3>1 DEF StartInv, Filed
      <4>3. file' \in Seq({"caller", "child"}) /\ \A k \in DOMAIN file' : file'[k] # "child"
        BY <4>1, <4>2
      <4> QED
        BY <2>1, <4>3 DEF StartInv, Filed
    <3>2. CASE ~ pending
      BY <2>1, <3>2 DEF StartInv, Filed
    <3> QED
      BY <3>1, <3>2
  <2>5. Charged' /\ Given'
    BY <2>1, ChargedKept, GivenKept DEF StartInv, Collected
  <2> QED
    BY <2>2, <2>3, <2>4, <2>5 DEF StartInv
<1> QED
  BY <1>1, <1>2 DEF Flush, Fail

\* A stream is a pipe if the run reads it, and else what the caller named.
LEMMA StreamsGiven ==
    ASSUME StartInv, Descriptors, pc = "popen", NEW s \in Streams
    PROVE  (OutputStdio(s) = "pipe" <=> Consumes(opts, s)) /\ OutputStdio(s) # "other"
<1>1. opts \in Requests /\ Resolvable /\ ~ Owned(s)
  BY DEF StartInv, Promised, Bound, Resolved
<1>2. opts.target[s].kind \in {"unset", "pipe", "inherit", "path", "fd", "object"}
  BY <1>1, RequestAssumption DEF Streams
<1>3. CASE IsPipe(opts.target[s])
  BY <1>3 DEF OutputStdio
<1>4. CASE ~ IsPipe(opts.target[s])
  <2>1. ~ Consumes(opts, s)
    BY <1>4 DEF Consumes
  <2>2. CASE opened[s] # 0
    BY <1>4, <2>1, <2>2 DEF OutputStdio, Descriptors
  <2>3. CASE opened[s] = 0 /\ opts.target[s].kind = "inherit"
    BY <1>4, <2>1, <2>3 DEF OutputStdio
  <2>4. CASE opened[s] = 0 /\ opts.target[s].kind # "inherit"
    <3>1. opts.target[s].kind \in {"fd", "object"}
      BY <1>1, <1>2, <1>4, <2>4 DEF Owned, IsPipe
    <3>2. opts.target[s].fd >= 0 /\ (~ scope.closed \/ NoObject)
      BY <1>1, <3>1 DEF Resolvable, UsableDescriptor, NoObject
    <3>3. fds[opts.target[s].fd] = "caller"
      BY <3>1, <3>2 DEF StartInv, Bound
    <3> QED
      BY <1>4, <2>1, <2>4, <3>3 DEF OutputStdio
  <2> QED
    BY <2>2, <2>3, <2>4
<1> QED
  BY <1>3, <1>4

LEMMA PopenStarts == ASSUME StartInv, LeakInv, Popen PROVE StartInv'
<1>1. CASE UNCHANGED launchVars /\ pc' = "release"
  BY <1>1, StartQuiet DEF Popen, Fail, Goto, Elsewhere, Announcing, Resolved, Collected
<1>2. CASE Spawn /\ Goto("connect")
  <2>1. /\ pc = "popen" /\ pc' = "connect"
        /\ bound' = [s \in Streams |-> OutputStdio(s)]
        /\ executed' = [exe |-> announced.exe, argv |-> Argv(opts.build),
                        env |-> RenderEnv(ResolveEnv(scope.env, opts.callEnv))]
        /\ child' = [NoChild EXCEPT !.st = "running"]
        /\ UNCHANGED << opts, answer, scope, announced, fds, opened, pending, file, cpu, usage >>
    BY <1>2 DEF Popen, Spawn, Goto
  <2>2. child'.st = "running"
    BY <2>1 DEF NoChild
  <2>3. announced = Announced /\ announced.argv = Argv(opts.build)
        /\ announced.env = RenderEnv(ResolveEnv(opts.scopeEnv, opts.callEnv))
    BY <2>1 DEF StartInv, Promised, Announced, Announcing
  <2>4. Announced' = Announced
    BY <2>1 DEF Announced
  <2>5. Promised'
    BY <2>1, <2>2, <2>3, <2>4 DEF StartInv, Promised, Spawned, Elsewhere, Announcing, Resolved
  <2>6. \A s \in Streams : (bound'[s] = "pipe" <=> Consumes(opts, s)) /\ bound'[s] # "other"
    BY <2>1, StreamsGiven DEF LeakInv
  <2>7. Bound'
    BY <2>1, <2>6 DEF StartInv, Bound, NoObject, Spawned
  <2>8. Filed' /\ Charged'
    BY <2>1, ChargedKept DEF StartInv, Filed, Collected
  <2>9. answer = "none"
    BY <2>1 DEF LeakInv, Control
  <2>10. Given'
    BY <2>1, <2>9 DEF Given
  <2> QED
    BY <2>5, <2>7, <2>8, <2>10 DEF StartInv
<1> QED
  BY <1>1, <1>2 DEF Popen, Fail

\* The child is stopped, or has exited, and has been waited for.
LEMMA ReapedStarts ==
    ASSUME StartInv, LeakInv, pc \in {"connect", "start", "attach", "live"}, answer' = answer,
           pc' \in {"release", "close", "stop", "expired"}, NEW killed \in BOOLEAN, Reaped(killed),
           UNCHANGED << opts, scope, announced, executed, fds, opened, pending, file, bound, usage >>
    PROVE  StartInv'
<1>1. child.st # "none" /\ child'.st = "reaped"
  BY DEF LeakInv, Offspring, Reaped
<1>2. cpu' \in [now : Nat, before : Nat] /\ cpu'.before + Own <= cpu'.now
  <2>1. cpu' = [cpu EXCEPT !.now = cpu.now + Own] /\ Own \in Nat
    BY LaunchAssumption DEF Reaped
  <2>2. cpu \in [now : Nat, before : Nat] /\ cpu.before <= cpu.now /\ cpu.now + Own \in Nat
    BY <2>1 DEF StartInv, Charged
  <2>3. cpu' \in [now : Nat, before : Nat] /\ cpu'.now = cpu.now + Own /\ cpu'.before = cpu.before
    BY <2>1, <2>2
  <2> QED
    BY <2>1, <2>2, <2>3
<1>3. Charged'
  BY <1>2, LaunchAssumption DEF StartInv, Charged
<1>4. Given'
  BY GivenKept DEF StartInv
<1> QED
  BY <1>1, <1>3, <1>4, StartKept DEF Announcing, Resolved, Elsewhere

LEMMA ConnectStarts == ASSUME StartInv, LeakInv, Connect \/ StartHandle PROVE StartInv'
<1>1. CASE UNCHANGED launchVars /\ (Goto("release") \/ Goto("attach"))
  <2>1. /\ UNCHANGED << opts, launchVars, answer >>
        /\ \/ pc = "connect" /\ pc' = "release"
           \/ pc = "start" /\ pc' = "attach" /\ opts.entry = "start"
    BY <1>1 DEF Connect, StartHandle, Goto, Fail
  <2> QED
    BY <2>1, StartQuiet DEF Elsewhere, Announcing, Resolved, Collected
<1>2. CASE SettleSpawnedChild /\ \E e : Fail(e, "release") \/ Fail(e, "close")
  <2>1. /\ pc \in {"connect", "start"} /\ pc' \in {"release", "close"} /\ Reaped(TRUE)
        /\ UNCHANGED << opts, answer, scope, announced, executed, fds, opened, pending, file, bound, usage >>
    BY <1>2 DEF Connect, StartHandle, SettleSpawnedChild, Goto, Fail
  <2> QED
    BY <2>1, ReapedStarts
<1> QED
  BY <1>1, <1>2 DEF Connect, StartHandle

\* A handle reads both streams, whatever capture the caller had switched off.
LEMMA HandleConsumes ==
    ASSUME opts \in Requests, opts.entry = "start", HandleStreamsAllowed(opts), NEW s \in Streams
    PROVE  Consumes(opts, s)
<1>1. IsPipe(opts.target[s])
  BY DEF HandleStreamsAllowed
<1>2. opts.captureOf[s] \in {"default", "on", "off"}
  BY RequestAssumption DEF Streams
<1>3. Captures(HandleCapture(opts), s)
  BY <1>2 DEF Captures, HandleCapture
<1> QED
  BY <1>1, <1>3 DEF Consumes, Effective

LEMMA AttachStarts == ASSUME StartInv, LeakInv, AttachRunTasks PROVE StartInv'
<1>1. CASE Answer("handle") /\ UNCHANGED launchVars
  <2>1. /\ pc = "attach" /\ pc' = "done" /\ answer' = "handle"
        /\ UNCHANGED << opts, scope, announced, executed, fds, opened, pending, file, bound, child, cpu, usage >>
    BY <1>1 DEF AttachRunTasks, Answer, launchVars
  <2>2. Spawned /\ opts \in Requests /\ opts.entry = "start" /\ HandleStreamsAllowed(opts)
    BY <2>1 DEF StartInv, Promised, Bound, LeakInv, Offspring, Spawned, Elsewhere
  <2>3. \A s \in Streams : bound[s] = "pipe"
    BY <2>2, HandleConsumes DEF StartInv, Bound
  <2>4. Given' /\ Charged'
    BY <2>1, <2>3, ChargedKept DEF StartInv, Given, Collected
  <2> QED
    BY <2>1, <2>4, StartKept DEF Announcing, Resolved, Elsewhere
<1>2. CASE Fail("error", "close") /\ SettleSpawnedChild
  <2>1. /\ pc = "attach" /\ pc' = "close" /\ Reaped(TRUE)
        /\ UNCHANGED << opts, answer, scope, announced, executed, fds, opened, pending, file, bound, usage >>
    BY <1>2 DEF AttachRunTasks, SettleSpawnedChild, Fail
  <2> QED
    BY <2>1, ReapedStarts
<1> QED
  BY <1>1, <1>2 DEF AttachRunTasks

LEMMA LiveStarts == ASSUME StartInv, LeakInv, Line \/ Ending PROVE StartInv'
<1>1. CASE UNCHANGED launchVars /\ Goto("live")
  <2>1. pc = "live" /\ pc' = "live" /\ UNCHANGED << opts, launchVars, answer >>
    BY <1>1 DEF Line, Ending, Exits, Cancelled, Expires, Goto
  <2> QED
    BY <2>1, StartQuiet DEF Elsewhere, Announcing, Resolved, Collected
<1>2. CASE \E killed \in BOOLEAN : ChildEnds(killed) /\ pc' \in {"stop", "expired"}
  <2>1. PICK killed \in BOOLEAN : Reaped(killed)
    BY <1>2 DEF ChildEnds
  <2>2. /\ pc = "live" /\ pc' \in {"stop", "expired"}
        /\ UNCHANGED << opts, answer, scope, announced, executed, fds, opened, pending, file, bound, usage >>
    BY <1>2 DEF Line, Ending, Exits, Cancelled, Expires, ChildEnds, Goto, Fail
  <2> QED
    BY <2>1, <2>2, ReapedStarts
<1> QED
  BY <1>1, <1>2 DEF Line, Ending, Exits, Cancelled, Expires, Goto, Fail

\* Closing the run's copies takes no number of the caller's.
LEMMA ReleaseStarts == ASSUME StartInv, LeakInv, Release PROVE StartInv'
<1> DEFINE mine == {opened[s] : s \in Streams} \ {0}
<1>1. /\ pc = "release" /\ pc' \in {"start", "close"}
      /\ fds' = [n \in Numbers |-> IF n \in mine THEN "free" ELSE fds[n]]
      /\ UNCHANGED << opts, answer, scope, announced, executed, pending, file, bound, child, cpu, usage >>
  BY DEF Release, CloseOwned, Goto
<1>2. \A n \in mine : fds[n] = "run"
  BY DEF LeakInv, Descriptors
<1>3. \A n \in Numbers : fds[n] = "caller" => fds'[n] = "caller"
  <2> HIDE DEF mine
  <2> QED
    BY <1>1, <1>2
<1> HIDE DEF mine
<1>4. Promised'
  BY <1>1 DEF StartInv, Promised, Announced, Resolvable, Spawned, Elsewhere, Announcing, Resolved
<1>5. Bound'
  BY <1>1, <1>3, LaunchAssumption, ZenonT(60) DEF StartInv, Bound, Promised, NoObject, Spawned
<1>6. Filed' /\ Charged' /\ Given'
  BY <1>1, ChargedKept, GivenKept DEF StartInv, Filed, Collected
<1> QED
  BY <1>4, <1>5, <1>6 DEF StartInv

LEMMA UsageStarts == ASSUME StartInv, LeakInv, Usage PROVE StartInv'
<1>1. /\ pc = "usage" /\ pc' = "exit" /\ usage' = IF opts.wait4 THEN Own ELSE cpu.now - cpu.before
      /\ UNCHANGED << opts, answer, scope, announced, executed, fds, opened, pending, file, bound, child, cpu >>
  BY DEF Usage, ResourceUsage, Goto
<1>2. /\ cpu.now \in Nat /\ cpu.before \in Nat /\ Own \in Nat /\ cpu.before + Own <= cpu.now
  BY <1>1, LaunchAssumption DEF StartInv, Charged, Collected
<1>3. Charged'
  BY <1>1, <1>2 DEF StartInv, Charged, Collected
<1>4. Given'
  BY <1>1, GivenKept DEF StartInv
<1> QED
  BY <1>1, <1>3, <1>4, StartKept DEF Announcing, Resolved, Elsewhere

\* A detached launch announces nothing.
LEMMA DetachStarts == ASSUME StartInv, LeakInv, Detach \/ Reclaim \/ Receipt PROVE StartInv'
<1>1. /\ pc \in {"detach", "reclaim", "receipt"} /\ pc' \in {"receipt", "reclaim", "done"}
      /\ UNCHANGED << opts, scope, announced, fds, opened, pending, file, cpu, usage >>
      /\ answer' = answer \/ answer' \notin {"handed on", "handle"}
  BY DEF Detach, Reclaim, Receipt, SpawnDetached, PartialSpawn, ReclaimPartialSpawn,
       AbandonDetached, launchVars,
     Goto, Answer
<1>2. opts.detached
  BY <1>1 DEF StartInv, Promised
<1>3. /\ executed' # executed => child'.st # "none"
      /\ child.st # "none" => child'.st # "none"
  <2>1. CASE SpawnDetached
    BY <2>1 DEF SpawnDetached, NoChild
  <2>2. CASE executed' = executed /\ (child' = child \/ child'.st \in {"running", "exited", "reaped"})
    BY <2>2
  <2>3. ReclaimPartialSpawn \/ AbandonDetached => child' = child \/ child'.st = "reaped"
    BY DEF ReclaimPartialSpawn, AbandonDetached, KillPartial, LeakInv, Offspring
  <2>4. ASSUME NEW st \in {"running", "exited", "reaped"}, NEW own \in BOOLEAN, PartialSpawn(st, own)
        PROVE  child'.st \in {"running", "exited", "reaped"} /\ executed' = executed
    BY <2>4 DEF PartialSpawn
  <2> QED
    BY <2>1, <2>2, <2>3, <2>4 DEF Detach, Reclaim, Receipt, ReclaimPartialSpawn,
         AbandonDetached, launchVars
<1>4. bound' = bound \/ bound' = [s \in Streams |-> "devnull"]
  BY DEF Detach, Reclaim, Receipt, SpawnDetached, PartialSpawn, ReclaimPartialSpawn,
       AbandonDetached, launchVars
<1>5. Promised'
  BY <1>1, <1>2, <1>3 DEF StartInv, Promised, Spawned, Elsewhere, Announcing, Resolved
<1>6. Bound'
  BY <1>1, <1>2 DEF StartInv, Bound, NoObject, Spawned
<1>7. Filed' /\ Charged'
  BY <1>1, <1>4, ChargedKept DEF StartInv, Filed, Collected
<1>8. answer = "none"
  BY <1>1 DEF LeakInv, Control
<1>9. Given'
  BY <1>1, <1>8 DEF Given
<1> QED
  BY <1>5, <1>6, <1>7, <1>9 DEF StartInv

\* Other threads open files, other children end, the child writes to its file.
LEMMA OutsideStarts == ASSUME StartInv, LeakInv, Outside PROVE StartInv'
<1>1. UNCHANGED << opts, pc, answer, scope, announced, executed, opened, pending, bound, usage >>
  BY DEF Outside, KeepsControl, controlVars, OtherOpens, OtherReaped, ChildFiles,
       DetachedExits, launchVars
<1>2. Given' /\ (pc' = "attach" => opts.entry = "start") /\ (pc' \in {"detach", "receipt", "reclaim"} => opts.detached)
  BY <1>1, GivenKept DEF StartInv, Bound, Promised
<1>3. CASE OtherOpens
  <2>1. PICK n : n = Lowest
    OBVIOUS
  <2>2. n \in Numbers /\ fds[n] = "free" /\ fds' = [fds EXCEPT ![n] = "other"] /\ UNCHANGED << file, child, cpu >>
    BY <1>3, <2>1, LowestFree DEF OtherOpens, LeakInv
  <2>3. \A m \in Numbers : fds[m] = "caller" => fds'[m] = "caller"
    BY <2>2 DEF LeakInv, Descriptors
  <2>4. Promised'
    BY <1>1, <2>2 DEF StartInv, Promised, Announced, Resolvable, Spawned
  <2>5. Bound'
    BY <1>1, <2>2, <2>3, LaunchAssumption DEF StartInv, Bound, Promised, NoObject, Owned, Spawned
  <2>6. Filed' /\ Charged'
    BY <1>1, <2>2, ChargedKept DEF StartInv, Filed
  <2> QED
    BY <1>2, <2>4, <2>5, <2>6 DEF StartInv
<1>4. CASE OtherReaped
  <2>1. cpu' = [cpu EXCEPT !.now = cpu.now + 1] /\ UNCHANGED << fds, file, child >>
    BY <1>4 DEF OtherReaped
  <2>2. cpu \in [now : Nat, before : Nat] /\ cpu.now + 1 \in Nat
    BY DEF StartInv, Charged
  <2>3. cpu' \in [now : Nat, before : Nat] /\ cpu'.now = cpu.now + 1 /\ cpu'.before = cpu.before
    BY <2>1, <2>2
  <2>4. Charged'
    BY <1>1, <2>2, <2>3, LaunchAssumption DEF StartInv, Charged
  <2> QED
    BY <1>1, <1>2, <2>1, <2>4, StartKept
<1>5. CASE ChildFiles
  <2>1. /\ file' = Append(file, "child") /\ UNCHANGED << fds, child, cpu >>
        /\ \E s \in Streams : bound[s] = "caller"
    BY <1>5 DEF ChildFiles
  <2>2. ~ pending /\ file \in Seq({"caller", "child"})
    BY <2>1 DEF StartInv, Filed
  <2>3. /\ file' \in Seq({"caller", "child"}) /\ DOMAIN file' = 1..(Len(file) + 1)
        /\ file'[Len(file) + 1] = "child" /\ \A k \in DOMAIN file : file'[k] = file[k]
        /\ DOMAIN file = 1..Len(file) /\ Len(file) \in Nat
    BY <2>1, <2>2
  <2>4. ASSUME NEW k \in DOMAIN file', NEW j \in DOMAIN file', file'[k] = "caller", file'[j] = "child"
        PROVE  k < j
    <3>1. k \in DOMAIN file /\ file[k] = "caller"
      BY <2>3, <2>4
    <3>2. CASE j = Len(file) + 1
      BY <2>3, <3>1, <3>2
    <3>3. CASE j # Len(file) + 1
      <4>1. j \in DOMAIN file /\ file[j] = "child"
        BY <2>3, <2>4, <3>3
      <4> QED
        BY <3>1, <4>1 DEF StartInv, Filed
    <3> QED
      BY <3>2, <3>3
  <2>5. Filed'
    BY <1>1, <2>2, <2>3, <2>4 DEF StartInv, Filed
  <2>6. Promised'
    BY <1>1, <2>1 DEF StartInv, Promised, Announced, Resolvable, Spawned
  <2>7. Bound' /\ Charged'
    BY <1>1, <2>1, ChargedKept DEF StartInv, Bound, NoObject, Owned, Spawned
  <2> QED
    BY <1>2, <2>5, <2>6, <2>7 DEF StartInv
<1>6. CASE DetachedExits
  <2>1. /\ UNCHANGED << fds, file, cpu >> /\ child.st = "running" /\ child'.st = "exited"
    BY <1>6 DEF DetachedExits, LeakInv, Offspring
  <2>2. Charged'
    BY <1>1, <2>1, ChargedKept DEF StartInv
  <2> QED
    BY <1>1, <1>2, <2>1, <2>2, StartKept
<1>7. CASE UNCHANGED launchVars
  BY <1>1, <1>2, <1>7, StartQuiet
<1> QED
  BY <1>3, <1>4, <1>5, <1>6, <1>7 DEF Outside

LEMMA StartStep == StartInv /\ LeakInv /\ [Next]_vars => StartInv'
<1> SUFFICES ASSUME StartInv, LeakInv, [Next]_vars PROVE StartInv'
  OBVIOUS
<1>1. Control
  BY DEF LeakInv
<1> QED
  BY <1>1, RequestStarts, StillStarts, ObserveStarts, BeforeStarts, SampleStarts,
       OpenPathsStarts, FlushStarts,
     PopenStarts, ConnectStarts, AttachStarts, LiveStarts, ReleaseStarts, UsageStarts, DetachStarts, OutsideStarts
  DEF Next, Run

\* What is announced is kept from the plan to the child through hooks that
\* change scope, resolver and files, and through another thread's descriptors.
THEOREM StartInvariance == Spec => []StartInv
<1>1. StartInv /\ LeakInv /\ [Next]_vars => StartInv'
  BY StartStep
<1> QED
  BY <1>1, StartInitial, LeakInvariance, PTL DEF Spec

\* The child was started with the executable, arguments, environment and streams
\* its observers were given, a borrowed file has its owner's text first, and the
\* usage reported is the child's.
THEOREM AnnouncedIsStarted == Spec => []StartedAsAnnounced
<1>1. ASSUME StartInv PROVE StartedAsAnnounced
  <2>1. ASSUME executed # Nothing, ~ opts.detached
        PROVE  /\ executed.exe = announced.exe /\ executed.argv = announced.argv
               /\ opts.before # "env" => executed.env = announced.env
               /\ \A s \in Streams : (bound[s] = "pipe") = Consumes(opts, s)
               /\ \A s \in Streams : bound[s] # "other"
    <3>1. Spawned
      BY <1>1, <2>1 DEF StartInv, Promised, Spawned
    <3>2. \A s \in Streams : Consumes(opts, s) \in BOOLEAN
      BY DEF Consumes
    <3> QED
      BY <1>1, <3>1, <3>2 DEF StartInv, Promised, Bound
  <2>2. "child" \in ToSet(file) => ~ pending
    BY <1>1 DEF StartInv, Filed, ToSet
  <2>3. \A i, j \in DOMAIN file : file[i] = "caller" /\ file[j] = "child" => i < j
    BY <1>1 DEF StartInv, Filed
  <2>4. usage >= 0 => IF opts.wait4 THEN usage = Own ELSE usage >= Own
    BY <1>1 DEF StartInv, Charged
  <2>5. /\ answer = "handed on" =>
               IsPipe(opts.target["stdout"]) /\ (opts.entry = "pipeline" => IsPipe(opts.target["stderr"]))
        /\ answer = "handle" => \A s \in Streams : bound[s] = "pipe"
    BY <1>1 DEF StartInv, Given
  <2> QED
    BY <2>1, <2>2, <2>3, <2>4, <2>5 DEF StartedAsAnnounced
<1> QED
  BY <1>1, StartInvariance, PTL

\* What the observers of a run were told, of its launch and of its end, is what
\* happened.
THEOREM ObserversAreTold == Spec => []RunAsTold
BY AnnouncedIsStarted, ObserversSettleOnce, PTL DEF RunAsTold
=============================================================================
