----------------------------- MODULE OneOutcome -----------------------------
(***************************************************************************)
(* What a RunningCommand promises its callers (the docstrings of            *)
(* cuprum/_process_handle/state.py and settlement.py): one outcome, decided *)
(* once, which everybody who asks is told.  Only somebody who merely waits  *)
(* may leave before it is decided, by being cancelled; a stop never returns *)
(* before that.                                                             *)
(***************************************************************************)
CONSTANTS Callers, Ops

VARIABLES
    verdict,  \* how the run ended, once that is decided
    op,       \* what each caller asked for
    told      \* what each caller was told

vars == << verdict, op, told >>

Outcomes == {"own", "SIGTERM", "SIGKILL"}
Expiring == {"deadline", "elapsed"}
Leaving == {"leave", "leaveFailing"}

\* What a caller of operation o may be told.
Permitted(o) ==
    {v \in {"cancelled"} : verdict # "pending" \/ o \in {"wait"} \cup Expiring}
    \cup {v \in {verdict} : v # "pending" /\ (v = "failure" \/ o \notin Leaving)}
    \cup {v \in {"TimeoutExpired"} : verdict \in Outcomes /\ o \in Expiring}
    \cup {v \in {"left"} : verdict \in Outcomes /\ o = "leave"}
    \cup {v \in {"blockError"} : verdict # "pending" /\ o = "leaveFailing"}

Init ==
    /\ verdict = "pending"
    /\ op = [c \in Callers |-> "none"]
    /\ told = [c \in Callers |-> "none"]

Decide ==
    /\ verdict = "pending"
    /\ verdict' \in Outcomes \cup {"failure"}
    /\ UNCHANGED << op, told >>

\* A caller asks; one that comes after the outcome may be told at once.
Ask(c, o) ==
    /\ op[c] = "none"
    /\ op' = [op EXCEPT ![c] = o]
    /\ told' \in {told} \cup {[told EXCEPT ![c] = v] : v \in Permitted(o)}
    /\ UNCHANGED verdict

Tell(c) ==
    /\ op[c] # "none"
    /\ told[c] = "none"
    /\ \E v \in Permitted(op[c]) : told' = [told EXCEPT ![c] = v]
    /\ UNCHANGED << verdict, op >>

Next == Decide \/ \E c \in Callers : Tell(c) \/ \E o \in Ops : Ask(c, o)

Spec == Init /\ [][Next]_vars
=============================================================================
