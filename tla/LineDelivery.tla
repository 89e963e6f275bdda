----------------------------- MODULE LineDelivery -----------------------------
(***************************************************************************)
(* What SafeCmd.lines() promises its consumer, whatever readers, queue and  *)
(* coordinator stand between the child and the iteration: of every stream   *)
(* the consumer sees the lines that were written, each once and in order,   *)
(* and the stream is complete only when there is no further line to see.    *)
(***************************************************************************)
EXTENDS Naturals, Sequences

CONSTANT Streams

VARIABLES
    written,   \* the number of lines the child has written to every stream
    seen,      \* the lines the consumer was given, by number
    ended      \* "open", "complete" with a result, or "cut" short

vars == << written, seen, ended >>

Init ==
    /\ written = [s \in Streams |-> 0]
    /\ seen = [s \in Streams |-> << >>]
    /\ ended = "open"

Write(s) ==
    /\ ended # "complete"
    /\ written' = [written EXCEPT ![s] = @ + 1]
    /\ UNCHANGED << seen, ended >>

Deliver(s) ==
    /\ ended = "open"
    /\ Len(seen[s]) < written[s]
    /\ seen' = [seen EXCEPT ![s] = Append(@, Len(@) + 1)]
    /\ UNCHANGED << written, ended >>

Complete ==
    /\ ended = "open"
    /\ \A s \in Streams : Len(seen[s]) = written[s]
    /\ ended' = "complete"
    /\ UNCHANGED << written, seen >>

Cut ==
    /\ ended = "open"
    /\ ended' = "cut"
    /\ UNCHANGED << written, seen >>

Next == Complete \/ Cut \/ \E s \in Streams : Write(s) \/ Deliver(s)

Spec == Init /\ [][Next]_vars
=============================================================================
