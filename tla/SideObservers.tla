--------------------------- MODULE SideObservers ---------------------------
(***************************************************************************)
(* The observation channels beside the execution events: echo, capture,    *)
(* pump, control, stream-operation and line-stream hooks, and the tracers  *)
(* of native pump hops (cuprum/echo_observation.py, capture_observation.py,*)
(* pump_observation.py, control_observation.py, stream_observation.py,     *)
(* line_stream_observation.py, pump_span_observation.py, and their bases   *)
(* in _scope_registration.py and _hook_disposal.py).                       *)
(*                                                                         *)
(* Each channel is a tuple of hooks in a context variable.  One context    *)
(* and one channel, the request's: its code registers and detaches hooks,  *)
(* in any order, while operations report to them.  A hook is a number with *)
(* a behaviour: it returns, raises, raises a shutdown signal ("signal"),   *)
(* returns a coroutine, or one whose close() raises ("stuck").             *)
(***************************************************************************)
EXTENDS RunOptions

VARIABLES ring,    \* the channel's tuple of hooks
          handles, \* the registrations, in the order they were made
          measure, \* a running operation's hooks, once it was started
          said     \* the last event: who was to hear it, who did, what escaped

sideVars == <<ring, handles, measure, said>>

Hooks == DOMAIN opts.hooks
MaxHandles == 3                        \* bound: registrations made in one context
TokenChannels == {"pump", "echo", "capture", "span"}
MeasuredChannels == {"control", "stream"}
Silence == [to |-> <<>>, heard |-> <<>>, escaped |-> "none", spans |-> <<>>, ended |-> <<>>]
NoMeasure == [on |-> FALSE, hooks |-> <<>>]

SideType == /\ ring \in Seq(Hooks) /\ measure.on \in BOOLEAN
            /\ \A i \in DOMAIN handles : handles[i].hook \in Hooks

SideInit == /\ ring = <<>> /\ handles = <<>>
            /\ measure = NoMeasure /\ said = Silence

(* ------------------------- registering, detaching ----------------------- *)

\* _TupleRegistration: the handle keeps the tuple it replaced, which is the
\* token of the channels that restore it, and the one it installed.
ObserveSide(h) ==
    /\ opts.channel # "none" /\ Len(handles) < MaxHandles
    /\ ring' = Append(ring, h)
    /\ handles' = Append(handles, [hook |-> h, prior |-> ring, installed |-> Append(ring, h),
                                   on |-> TRUE, early |-> FALSE])
    /\ UNCHANGED <<measure, said>>

\* The newest entry that is the hook is removed; the rest stay.
WithoutIdentity(hooks, h) ==
    LET mine == {i \in DOMAIN hooks : hooks[i] = h}
    IN  IF mine = {} THEN hooks
        ELSE RemoveAt(hooks, CHOOSE i \in mine : \A j \in mine : j <= i)

\* Restoring the token puts back the tuple the handle replaced, whatever was
\* registered since.
Released(handle) ==
    IF opts.channel \in TokenChannels THEN handle.prior ELSE WithoutIdentity(ring, handle.hook)

\* A hop tracer is not detached under a later one: the handle stays attached.
ReleaseRefused(handle) == opts.channel = "span" /\ ring # handle.installed

DetachSide(i) ==
    /\ handles[i].on /\ ~ReleaseRefused(handles[i])
    /\ ring' = Released(handles[i])
    /\ handles' = [handles EXCEPT ![i].on = FALSE,
                                  ![i].early = \E j \in DOMAIN handles : j > i /\ handles[j].on]
    /\ UNCHANGED <<measure, said>>

(* ------------------------------- delivering ----------------------------- *)

\* What leaves the call of one hook, by channel: an ordinary exception never
\* does, a signal does except on the control channel.
InvokeEcho(b) == IF b = "signal" THEN "signal" ELSE "none"
InvokePump(b) == IF b = "signal" THEN "signal" ELSE "none"
InvokeStream(b) == IF b = "signal" THEN "signal" ELSE "none"

\* These close a returned coroutine without a guard.
InvokeCapture(b) == CASE b = "signal" -> "signal" [] b = "stuck" -> "close" [] OTHER -> "none"
InvokeLine(b) == CASE b = "signal" -> "signal" [] b = "stuck" -> "close" [] OTHER -> "none"
InvokeControl(b) == IF b = "stuck" THEN "close" ELSE "none"

Escapes(b) == CASE opts.channel = "echo" -> InvokeEcho(b)
                [] opts.channel = "pump" -> InvokePump(b)
                [] opts.channel = "stream" -> InvokeStream(b)
                [] opts.channel = "capture" -> InvokeCapture(b)
                [] opts.channel = "line" -> InvokeLine(b)
                [] opts.channel = "control" -> InvokeControl(b)

\* Hooks are called in order until something escapes.
Deliver(hooks) ==
    LET leaks == {i \in DOMAIN hooks : Escapes(opts.hooks[hooks[i]]) # "none"}
        last == IF leaks = {} THEN Len(hooks) ELSE CHOOSE i \in leaks : \A j \in leaks : i <= j
    IN  [Silence EXCEPT !.to = hooks, !.heard = SubSeq(hooks, 1, last),
                        !.escaped = IF leaks = {} THEN "none" ELSE Escapes(opts.hooks[hooks[last]])]

\* Echo, capture, pump and line-stream events go to the hooks of the moment.
EmitSide ==
    /\ opts.channel \in {"echo", "capture", "pump", "line"} /\ ring # <<>>
    /\ said' = Deliver(ring) /\ UNCHANGED <<ring, handles, measure>>

\* A control or stream operation keeps the hooks it started under...
StartMeasure ==
    /\ opts.channel \in MeasuredChannels /\ ~measure.on /\ ring # <<>>
    /\ measure' = [on |-> TRUE, hooks |-> ring] /\ UNCHANGED <<ring, handles, said>>

\* ...and reports to them once.
CompleteMeasure ==
    /\ measure.on /\ measure' = NoMeasure
    /\ said' = Deliver(measure.hooks) /\ UNCHANGED <<ring, handles>>

(* ------------------------------- hop spans ------------------------------ *)

\* Each tracer opens a span; one that fails is passed over, and a signal ends
\* the spans that are open before it leaves.
OpenSpans(tracers) ==
    LET leaks == {i \in DOMAIN tracers : opts.hooks[tracers[i]] = "signal"}
        last == IF leaks = {} THEN Len(tracers) ELSE CHOOSE i \in leaks : \A j \in leaks : i <= j
        asked == SubSeq(tracers, 1, last)
    IN  [Silence EXCEPT !.to = tracers, !.heard = asked,
                        !.escaped = IF leaks = {} THEN "none" ELSE "signal",
                        !.spans = SelectSeq(asked, LAMBDA h : opts.hooks[h] \notin {"raises", "signal"})]

\* end() is called on every span, also on one whose attributes could not be
\* set ("stuck"); it may fail itself.
Ended(h) == opts.hooks[h] \in {"returns", "coroutine", "stuck"}
CloseSpans(spans) == SelectSeq(spans, Ended)

\* One hop: the spans are opened, the pump runs, they are closed.
SpanHop ==
    /\ opts.channel = "span" /\ ring # <<>>
    /\ said' = [OpenSpans(ring) EXCEPT !.ended = CloseSpans(OpenSpans(ring).spans)]
    /\ UNCHANGED <<ring, handles, measure>>

SideStep == \/ \E h \in Hooks : ObserveSide(h)
            \/ \E i \in DOMAIN handles : DetachSide(i)
            \/ EmitSide \/ StartMeasure \/ CompleteMeasure \/ SpanHop

(* ------------------------------ the reference --------------------------- *)

Attached == SelectSeq(handles, LAMBDA r : r.on)
AttachedHooks == [i \in DOMAIN Attached |-> Attached[i].hook]

\* No handle was detached while a later one was attached.
LastInFirstOut == \A i \in DOMAIN handles : ~handles[i].early

\* The hooks of a channel are the attached ones, and the last event reached
\* all it was meant for unless a signal, or an unguarded close(), left; every
\* hop span that was opened was ended.
SideChannelHonest ==
    /\ opts.channel \notin TokenChannels \/ LastInFirstOut =>
           \A h \in Hooks : Cardinality({i \in DOMAIN ring : ring[i] = h})
                               = Cardinality({i \in DOMAIN Attached : Attached[i].hook = h})
    /\ opts.channel = "span" => ring = AttachedHooks
    /\ said.escaped = "none" => said.heard = said.to
    /\ said.ended = said.spans
    /\ said.escaped # "none" => \/ said.escaped = "signal" /\ opts.channel # "control"
                                \/ said.escaped = "close" /\ opts.channel \in {"capture", "line", "control"}
=============================================================================
