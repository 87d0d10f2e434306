------------------------------ MODULE Probing ------------------------------
(***************************************************************************)
(* What a probe of the system can establish and how it is recorded         *)
(* (internal/providersupport/probe/dispatch).  A system says what each     *)
(* fact would read, NoValue where the thing is not there.  A probe tells   *)
(* the truth or fails.                                                     *)
(***************************************************************************)
EXTENDS FailureGraph

CONSTANTS
    Worlds,     \* the systems considered
    Failures    \* the ways a probe fails that are recorded

ASSUME ProbingAssumption ==
    /\ NoValue \notin Components
    /\ Worlds \subseteq [Components -> [Keys -> Values \cup {NoValue}]]
    /\ Failures \subseteq {"forbidden", "transient"}

Probes  == [on : Components, fact : Keys]
NoProbe == [on |-> NoValue, fact |-> NoValue]

NewFact(k, v, status, by) == [key |-> k, value |-> v, status |-> status, by |-> by]

\* dispatch.Record: a value, not found, or a failure recorded without a value.
Outcomes(w, p) ==
    LET v == w[p.on][p.fact] IN
    {NewFact(p.fact, v, IF v = NoValue THEN "not_found" ELSE "", "probe")}
      \cup {NewFact(p.fact, NoValue, s, "probe") : s \in Failures}

\* The facts the whole system would answer with if every probe succeeded.
Seen(w) ==
    [c \in Components |->
        [i \in DOMAIN TypeFacts[c] |->
            LET v == w[c][TypeFacts[c][i]] IN
            NewFact(TypeFacts[c][i], v, IF v = NoValue THEN "not_found" ELSE "", "probe")]]

\* Every component is there, with all its facts, or is not there at all.
WholeOrMissing ==
    \A w \in Worlds : \A c \in Components :
        \/ \A k \in Range(TypeFacts[c]) : w[c][k] = NoValue
        \/ \A k \in Range(TypeFacts[c]) : w[c][k] # NoValue

=============================================================================
