----------------------------- MODULE Redaction -----------------------------
(***************************************************************************)
(* RedactionPolicy: the copies of events an observer is given have the     *)
(* text that literal and pattern rules match replaced by a mask            *)
(* (cuprum/redaction.py, used by redacting_hook and the log adapters).     *)
(*                                                                         *)
(* A text is a sequence of letters.  A span <<i, j>> holds the letters     *)
(* i + 1 to j, as Python's slices do; an empty span is a place.            *)
(***************************************************************************)
EXTENDS Integers, Sequences, FiniteSets, SequencesExt

Mask == "MASK"

(* -------------------------------- rules --------------------------------- *)

\* An empty literal would match everywhere and is refused.
PolicyAllowed(policy) == \A l \in policy.literals : l # <<>>

\* Every occurrence, also the ones that overlap: the search goes on one letter
\* after the start it found.
LiteralSpans(literal, value) ==
    {<<i, i + Len(literal)>> :
        i \in {k \in 0..(Len(value) - Len(literal)) :
                  SubSeq(value, k + 1, k + Len(literal)) = literal}}

\* finditer for the pattern x+ ("some"), x* ("any") or one that raises: runs of
\* the letter, and for x* the empty match wherever no run begins.
PatternSpans(pattern, value) ==
    LET n == Len(value)
        at(k) == k >= 1 /\ k <= n /\ value[k] = pattern.letter
        runs == {s \in (0..n) \X (0..n) :
                    /\ s[1] < s[2] /\ ~at(s[1]) /\ ~at(s[2] + 1)
                    /\ \A k \in (s[1] + 1)..s[2] : at(k)}
    IN  runs \cup (IF pattern.kind = "any" THEN {<<k, k>> : k \in {i \in 0..n : ~at(i + 1)}} ELSE {})

\* A rule that raises is reported without the text it was given.
RuleFails(policy) == \E p \in policy.patterns : p.kind = "raises"

RuleSpans(policy, value) == UNION ({LiteralSpans(l, value) : l \in policy.literals}
                                    \cup {PatternSpans(p, value) : p \in policy.patterns})

(* -------------------------------- merging ------------------------------- *)

Earlier(a, b) == a[1] < b[1] \/ (a[1] = b[1] /\ a[2] < b[2])
Sorted(spans) == [i \in 1..Cardinality(spans) |->
                    CHOOSE s \in spans : Cardinality({z \in spans : Earlier(z, s)}) = i - 1]

Indices(seq) == [i \in DOMAIN seq |-> i]
MaxEnd(spans, from, to) == CHOOSE e \in {spans[j][2] : j \in from..to} :
                              \A j \in from..to : spans[j][2] <= e

\* Overlapping or adjacent spans become one: a new one begins where every span
\* before has ended.
MergeNonzeroSpans(spans) ==
    LET begins == SelectSeq(Indices(spans), LAMBDA i : \A j \in 1..(i - 1) : spans[j][2] < spans[i][1])
        upTo(k) == IF k = Len(begins) THEN Len(spans) ELSE begins[k + 1] - 1
    IN  [k \in DOMAIN begins |-> <<spans[begins[k]][1], MaxEnd(spans, begins[k], upTo(k))>>]

\* Empty matches that no merged span holds or touches: the last span that
\* starts at or before the place ends before it.
StandaloneZeroWidth(places, merged) ==
    {p \in places :
        LET before == {i \in DOMAIN merged : merged[i][1] <= p}
        IN  before = {} \/ p > merged[Cardinality(before)][2]}

MergeOverlappingSpans(spans) ==
    LET merged == MergeNonzeroSpans(Sorted({s \in spans : s[1] # s[2]}))
        places == {s[1] : s \in {z \in spans : z[1] = z[2]}}
    IN  Sorted(ToSet(merged) \cup {<<p, p>> : p \in StandaloneZeroWidth(places, merged)})

(* ------------------------------- applying ------------------------------- *)

\* Each merged span gives one mask; the text between them is copied.
ApplyText(policy, value) ==
    LET merged == MergeOverlappingSpans(RuleSpans(policy, value))
        cursor(k) == IF k = 1 THEN 0 ELSE merged[k - 1][2]
    IN  FlattenSeq([k \in 1..(Len(merged) + 1) |->
            IF k > Len(merged) THEN SubSeq(value, cursor(k) + 1, Len(value))
            ELSE SubSeq(value, cursor(k) + 1, merged[k][1]) \o <<Mask>>])

\* A value that is not text, the marker that removes a key, is kept.
RedactMappingValues(policy, values) ==
    [k \in DOMAIN values |->
        IF values[k].text THEN [values[k] EXCEPT !.value = ApplyText(policy, @)] ELSE values[k]]

\* The copy of an event: arguments, environment and line; program and exit
\* status are not text of the caller's.
RedactEvent(policy, event) ==
    IF policy.literals = {} /\ policy.patterns = {} THEN event ELSE
    [argv |-> [i \in DOMAIN event.argv |-> ApplyText(policy, event.argv[i])],
     env |-> RedactMappingValues(policy, event.env),
     line |-> [i \in DOMAIN event.line |-> ApplyText(policy, event.line[i])]]

(***************************************************************************)
(* The reference, letter by letter: a letter some match covers is gone, a  *)
(* mask stands where such letters begin and at an empty match with no      *)
(* covered letter next to it, and every other letter is there.             *)
(***************************************************************************)
Masked(policy, value) ==
    LET n == Len(value)
        matches == UNION {PatternSpans(p, value) : p \in policy.patterns}
        covered(k) == \/ \E s \in matches : s[1] < k /\ k <= s[2]
                      \/ \E l \in policy.literals : \E i \in 1..Len(l) :
                            /\ k - i >= 0 /\ k - i + Len(l) <= n
                            /\ \A j \in DOMAIN l : value[k - i + j] = l[j]
        marks(k) == \/ covered(k + 1) /\ ~covered(k)
                    \/ <<k, k>> \in matches /\ ~covered(k) /\ ~covered(k + 1)
    IN  FlattenSeq([i \in 1..(n + 1) |->
            (IF marks(i - 1) THEN <<Mask>> ELSE <<>>)
                \o (IF i <= n /\ ~covered(i) THEN <<value[i]>> ELSE <<>>)])

MaskedEvent(policy, event) ==
    [argv |-> [i \in DOMAIN event.argv |-> Masked(policy, event.argv[i])],
     env |-> [k \in DOMAIN event.env |->
                IF event.env[k].text THEN [event.env[k] EXCEPT !.value = Masked(policy, @)]
                ELSE event.env[k]],
     line |-> [i \in DOMAIN event.line |-> Masked(policy, event.line[i])]]
=============================================================================
