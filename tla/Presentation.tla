---------------------------- MODULE Presentation ----------------------------
(***************************************************************************)
(* What a reader of the log sees while a run is live: mirrored output, the *)
(* idle heartbeat, and the frame of a GitHub Actions session (cuprum/      *)
(* _idle_heartbeat.py, _idle_diagnostic.py, _stream_config.py,             *)
(* sinks/github_actions.py, _sink_lifecycle.py).                           *)
(*                                                                         *)
(* The log is one text stream, read line by line by the runner: a line     *)
(* that starts with a workflow command is obeyed, and while a              *)
(* stop-commands lease is held only the line that ends it.                 *)
(***************************************************************************)
EXTENDS RunOptions

CONSTANT MaxClock    \* bound on the time a run is followed

VARIABLES clock,     \* time.monotonic
          idle,      \* _IdleMonitor: its schedule and its task
          midLine,   \* _MirrorCursor.is_mid_line
          beat,      \* the latest heartbeat, as a reader would judge it
          log,       \* the log as the runner has read it
          session,   \* the GitHub Actions session
          torn,      \* the log was inside a line when the session closed
          chunks     \* chunks the child may still write

presentationVars == <<clock, idle, midLine, beat, log, session, torn, chunks>>

NoBeat == [at |-> -1, silent |-> 0, gap |-> 0, fresh |-> TRUE, live |-> TRUE]
NoLog == [open |-> FALSE, lease |-> FALSE, group |-> FALSE, errors |-> 0, obeyed |-> FALSE]

PresentationType ==
    /\ clock \in 0..MaxClock /\ midLine \in BOOLEAN /\ torn \in BOOLEAN
    /\ idle.task \in {"none", "asleep", "cancelled", "ended"}
    /\ session.st \in {"none", "open", "closed"} /\ chunks \in Nat

PresentationInit ==
    /\ clock = 0 /\ midLine = FALSE /\ beat = NoBeat /\ log = NoLog /\ torn = FALSE
    /\ idle = [task |-> "none", started |-> 0, activity |-> 0, deadline |-> 0, wake |-> 0, stopped |-> FALSE]
    /\ session = [st |-> "none", outcome |-> "none"] /\ chunks = opts.chunks

(* ------------------------- the runner's reading ------------------------- *)

\* The runner reads one line, or the beginning of one ("part").  Text that
\* follows an unfinished line belongs to that line and is never a command.
Read(l, text) ==
    IF text = "part" THEN [l EXCEPT !.open = TRUE]
    ELSE IF l.open \/ (l.lease /\ text # "token") THEN [l EXCEPT !.open = FALSE]
    ELSE CASE text = "group" -> [l EXCEPT !.group = TRUE]
           [] text = "stop" -> [l EXCEPT !.lease = TRUE]
           [] text = "token" -> [l EXCEPT !.lease = FALSE]
           [] text = "endgroup" -> [l EXCEPT !.group = FALSE]
           [] text = "error" -> [l EXCEPT !.errors = l.errors + 1]
           [] text = "command" -> [l EXCEPT !.obeyed = TRUE]
           [] OTHER -> l

(* ------------------------ GitHub Actions session ------------------------ *)

Frames == SynthesizeSink(opts).group
Annotates == SynthesizeSink(opts).annotate

OpenSession ==
    /\ session' = [session EXCEPT !.st = IF HasSession(opts) THEN "open" ELSE "none"]
    /\ log' = IF HasSession(opts) /\ Frames THEN Read(Read(log, "group"), "stop") ELSE log
    /\ UNCHANGED <<clock, idle, midLine, beat, torn, chunks>>

\* GitHubActionsSession.close, as the runner reads what it writes: the end of
\* the frame, then the annotation an outcome calls for.
ClosingLines(outcome) ==
    LET unframed == IF Frames THEN Read(Read(log, "token"), "endgroup") ELSE log
    IN  IF Annotates /\ outcome # "exit_zero" THEN Read(unframed, "error") ELSE unframed

CloseSession(outcome) ==
    IF session.st # "open" THEN UNCHANGED presentationVars
    ELSE /\ session' = [st |-> "closed", outcome |-> outcome]
         /\ log' = ClosingLines(outcome) /\ torn' = log.open
         /\ UNCHANGED <<clock, idle, midLine, beat, chunks>>

\* The destination is gone: nothing of the frame is written.
CloseSessionRaises ==
    /\ session.st = "open" /\ session' = [st |-> "closed", outcome |-> "unwritten"]
    /\ UNCHANGED <<clock, idle, midLine, beat, log, torn, chunks>>

(* ------------------------------- output --------------------------------- *)

\* A framing session takes both streams; otherwise each has its own sink, and
\* the two may be one object.  stderr's is the log.
ToLog(s) == s = "stderr" \/ (HasSession(opts) /\ Frames) \/ opts.oneSink

\* Fault: the cursor follows stderr alone.
MirroredStderr(s) == opts.idleAfter > 0 /\ s = "stderr"

\* The cursor follows the destination the heartbeat writes to.
Mirrored(s) == opts.idleAfter > 0 /\ ToLog(s)

\* The child writes a chunk: a whole line, a line the runner would obey, or
\* the beginning of a line.  A reader notes the activity and echoes it.
ChildWrites(s, text) ==
    /\ chunks > 0 /\ chunks' = chunks - 1 /\ Consumes(opts, s)
    /\ idle' = IF idle.task = "asleep" /\ ~idle.stopped
               THEN [idle EXCEPT !.activity = clock, !.deadline = clock + opts.idleAfter]
               ELSE idle
    /\ log' = IF Echoes(opts, s) /\ ToLog(s) THEN Read(log, text) ELSE log
    /\ midLine' = IF Echoes(opts, s) /\ Mirrored(s) THEN text = "part" ELSE midLine
    /\ UNCHANGED <<clock, beat, session, torn>>

(* ------------------------------ heartbeat ------------------------------- *)

LaunchIdle ==
    /\ idle' = IF \E s \in Streams : opts.idleAfter > 0 /\ Consumes(opts, s)
               THEN [task |-> "asleep", started |-> clock, activity |-> clock,
                     deadline |-> clock + opts.idleAfter, wake |-> clock + opts.idleAfter,
                     stopped |-> FALSE]
               ELSE idle
    /\ UNCHANGED <<clock, midLine, beat, log, session, torn, chunks>>

Due == ~idle.stopped /\ clock >= idle.deadline

\* The loop sleeps until what is then the deadline.
SleepAgain(i) == [i EXCEPT !.wake = i.deadline]

\* The line starts with a newline when the cursor says a line is open.
Diagnose == /\ log' = IF midLine /\ log.open THEN Read(Read(log, "text"), "text")
                      ELSE Read(log, "text")
            /\ beat' = [at |-> clock, silent |-> clock - idle.activity,
                        gap |-> IF beat.at < 0 THEN opts.idleAfter ELSE clock - beat.at,
                        fresh |-> midLine \/ ~log.open, live |-> ~idle.stopped]

\* The monitor wakes, possibly late, and notifies if no output came meanwhile.
\* A callback that raises or returns a value disables the heartbeat.
IdleWakes ==
    /\ idle.task = "asleep" /\ clock >= idle.wake
    /\ UNCHANGED <<clock, midLine, session, torn, chunks>>
    /\ IF ~Due THEN idle' = SleepAgain(idle) /\ UNCHANGED <<log, beat>>
       ELSE LET again == SleepAgain([idle EXCEPT !.deadline = clock + opts.idleAfter])
                broken == [idle EXCEPT !.stopped = TRUE, !.task = "ended"]
            IN  CASE opts.onIdle = "none" -> Diagnose /\ idle' = again
                  [] opts.onIdle = "works" -> idle' = again /\ UNCHANGED <<log, beat>>
                  [] OTHER -> idle' = broken /\ UNCHANGED <<log, beat>>

\* Fault: a monitor that sleeps is not cancelled.
StopIdleUncancelled ==
    /\ idle' = [idle EXCEPT !.stopped = TRUE]
    /\ UNCHANGED <<clock, midLine, beat, log, session, torn, chunks>>

\* _stop_idle_monitor: no further notification, then the task is cancelled...
StopIdle ==
    /\ idle' = [idle EXCEPT !.stopped = TRUE,
                            !.task = IF idle.task = "asleep" THEN "cancelled" ELSE idle.task]
    /\ UNCHANGED <<clock, midLine, beat, log, session, torn, chunks>>

\* ...and awaited.
IdleEnds ==
    /\ idle.task = "cancelled" /\ idle' = [idle EXCEPT !.task = "ended"]
    /\ UNCHANGED <<clock, midLine, beat, log, session, torn, chunks>>

Tick == /\ opts.idleAfter > 0 /\ clock < MaxClock /\ clock' = clock + 1
        /\ UNCHANGED <<idle, midLine, beat, log, session, torn, chunks>>
=============================================================================
