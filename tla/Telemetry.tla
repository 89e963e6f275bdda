------------------------------ MODULE Telemetry ------------------------------
(***************************************************************************)
(* What a run tells its observers: the phases of an execution are emitted  *)
(* to the observe hooks in order, hooks may raise or return an awaitable   *)
(* that becomes a task, and the tracing and metrics adapters are hooks     *)
(* (cuprum/_observability.py, _pipeline_types.py, adapters/).              *)
(*                                                                         *)
(* One hook of the caller stands before or after the two adapters.  The    *)
(* tracing hook keeps its active spans under a lock and each span under    *)
(* another: control, pump and line-stream observers reach a span from      *)
(* other threads, by looking it up and then writing to it.                 *)
(***************************************************************************)
EXTENDS RunOptions

VARIABLES planned,   \* _StageObservation._plan_emitted
          terminal,  \* _terminal_emitted
          misses,    \* how often the caller's hook may still raise
          tasks,     \* states of the tasks its awaitables became
          span,      \* the tracing hook's span of this execution
          active,    \* the span is in _active_spans
          exported,  \* the last event the caller's hook was given a copy of
          aside,     \* another thread's observer and the span it looked up
          count      \* the metrics collector

telemetryVars == <<planned, terminal, misses, tasks, span, active, exported, aside, count>>

Outcomes == {"exit_zero", "exit_nonzero", "timeout", "cancelled", "error"}
NoSpan == [st |-> "none", ok |-> FALSE, ends |-> 0, events |-> 0, sealed |-> 0]

TelemetryType ==
    /\ planned \in BOOLEAN /\ terminal \in Outcomes \cup {"none"}
    /\ misses \in Nat /\ tasks \in Seq({"running", "ok", "failed"})
    /\ span.st \in {"none", "open", "ended"} /\ active \in BOOLEAN /\ aside \in {"idle", "holding", "done"}
    /\ DOMAIN count = {"executions", "outcomes", "failures", "stdio_errors", "lines"}

TelemetryInit ==
    /\ planned = FALSE /\ terminal = "none" /\ misses = opts.misses /\ tasks = <<>>
    /\ span = NoSpan /\ active = FALSE /\ exported = <<>>
    /\ aside = (IF opts.aside THEN "idle" ELSE "done")
    /\ count = [executions |-> 0, outcomes |-> 0, failures |-> 0, stdio_errors |-> 0, lines |-> 0]

(* ------------------------------ adapters -------------------------------- *)

\* Something is written to a span, under its lock, unless it has ended.
AddEvent(s) == IF s.st = "open" THEN [s EXCEPT !.events = s.events + 1] ELSE s

\* Ending a span sets its status; sealed is what it held then.
EndSpan(s, outcome) ==
    IF s.st # "open" THEN s
    ELSE [s EXCEPT !.st = "ended", !.ok = outcome = "exit_zero", !.ends = s.ends + 1,
                   !.sealed = s.events]

\* The tracing hook: start opens and registers a span, settled takes it out
\* and ends it, the phases between write to it.
HandleStart == span' = [NoSpan EXCEPT !.st = "open"] /\ active' = TRUE

HandleSettled(outcome) ==
    /\ active' = FALSE
    /\ span' = IF active THEN EndSpan(span, outcome) ELSE span

RecordSpanEvent == span' = (IF active THEN AddEvent(span) ELSE span) /\ UNCHANGED active

Trace(phase, outcome) ==
    CASE phase = "start" -> HandleStart
      [] phase = "settled" -> HandleSettled(outcome)
      [] phase = "plan" -> UNCHANGED <<span, active>>
      [] OTHER -> RecordSpanEvent

\* The metrics hook: executions are counted at start, outcomes and failures at
\* settled.
MetricOperations(phase, outcome) ==
    CASE phase = "start" -> {"executions"}
      [] phase = "stdout" -> {"lines"}
      [] phase = "stdio_error" -> {"stdio_errors"}
      [] phase = "settled" -> {"outcomes"} \cup (IF outcome = "exit_zero" THEN {} ELSE {"failures"})
      [] OTHER -> {}

Measure(phase, outcome) ==
    count' = [m \in DOMAIN count |->
                IF m \in MetricOperations(phase, outcome) THEN count[m] + 1 ELSE count[m]]

(* ------------------------------ emission -------------------------------- *)

\* The caller's hook may be wrapped by redacting_hook ("copy") or be the
\* structured logging adapter ("log"); a rule that fails makes it raise.
LevelFor(phase) == CASE phase \in {"start", "exit", "settled"} -> 20
                     [] phase = "stdio_error" -> 30
                     [] OTHER -> 10

Exports(phase) == opts.export = "copy" \/ (opts.export = "log" /\ LevelFor(phase) >= opts.logLevel)

\* A log record has no environment, and a diagnostic no arguments.
BuildExtra(phase, event) ==
    [event EXCEPT !.env = <<>>, !.argv = IF phase = "stdio_error" THEN <<>> ELSE @]

\* Only an output event has a line.
Projected(phase, event) ==
    LET e == [event EXCEPT !.line = IF phase = "stdout" THEN @ ELSE <<>>]
    IN  IF opts.export = "log" THEN BuildExtra(phase, e) ELSE e

\* The copies of each request's text, and what they should be.
Copies == [o \in Requests |-> RedactEvent(o.policy, o.text)]
Expected == [o \in Requests |-> MaskedEvent(o.policy, o.text)]

Export(phase) ==
    exported' = IF ~Exports(phase) \/ RuleFails(opts.policy) THEN exported
                ELSE <<[phase |-> phase, copy |-> Projected(phase, Copies[opts])]>>

\* No letter a rule matched is in what was exported, and every other one is.
ExportedSafely == \A i \in DOMAIN exported :
                      exported[i].copy = Projected(exported[i].phase, Expected[opts])

\* What the caller's hook does with one event.
Reactions == {"returns"} \cup (IF misses > 0 \/ RuleFails(opts.policy) THEN {"raises"} ELSE {})
                         \cup (IF Len(tasks) < opts.tasks THEN {"awaits"} ELSE {})

ReactionsTo(phase) == IF Exports(phase) /\ RuleFails(opts.policy) THEN {"raises"}
                      ELSE Reactions \ (IF misses = 0 THEN {"raises"} ELSE {})

\* Hooks run in order and the first failure ends the loop, except for settled:
\* every hook is tried, because the adapters release their state there.
Reached(phase, r) == phase = "settled" \/ ~(opts.hookFirst /\ r = "raises")

Dispatch(phase, outcome, r) ==
    /\ IF Reached(phase, r) THEN Trace(phase, outcome) /\ Measure(phase, outcome)
       ELSE UNCHANGED <<span, active, count>>
    /\ misses' = IF r = "raises" /\ misses > 0 THEN misses - 1 ELSE misses
    /\ Export(phase)
    /\ tasks' = IF r = "awaits" THEN Append(tasks, "running") ELSE tasks
    /\ UNCHANGED aside

\* _StageObservation.emit; r tells the emitter whether it raised.
Emit(phase, r) ==
    /\ r \in ReactionsTo(phase) /\ planned' = (planned \/ phase = "plan")
    /\ Dispatch(phase, "none", r) /\ UNCHANGED terminal

\* emit_terminal: once, and only after a plan.
EmitTerminal(outcome, r) ==
    IF terminal # "none" \/ ~planned
    THEN r = "returns" /\ UNCHANGED telemetryVars
    ELSE /\ r \in ReactionsTo("settled") /\ terminal' = outcome
         /\ Dispatch("settled", outcome, r) /\ UNCHANGED planned

\* A task a hook's awaitable became ends.
TaskEnds(i) ==
    /\ tasks[i] = "running" /\ \E end \in {"ok", "failed"} : tasks' = [tasks EXCEPT ![i] = end]
    /\ UNCHANGED <<planned, terminal, misses, span, active, exported, aside, count>>

TasksEnded == \A i \in DOMAIN tasks : tasks[i] # "running"
TaskFailed == \E i \in DOMAIN tasks : tasks[i] = "failed"

(* -------------------- observers on other threads ------------------------ *)

AsideLooksUp ==
    /\ aside = "idle" /\ aside' = IF active THEN "holding" ELSE "done"
    /\ UNCHANGED <<planned, terminal, misses, tasks, span, active, exported, count>>

\* Under the span's lock: a span that has ended meanwhile is left alone.
AsideWrites ==
    /\ aside = "holding" /\ aside' = "done" /\ span' = AddEvent(span)
    /\ UNCHANGED <<planned, terminal, misses, tasks, active, exported, count>>
=============================================================================
