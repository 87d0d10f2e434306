---------------------------- MODULE IncidentFile ----------------------------
(***************************************************************************)
(* What an incident's state file says to the agent server (internal/mcp),  *)
(* and what each request makes of it.  A fact is reduced to its key, who   *)
(* collected it and the request it came from, whose identity stands for    *)
(* the rest; the component it is about is left out.  The moment an         *)
(* incident ended and its verdict are named by the request that set them.  *)
(***************************************************************************)
EXTENDS Naturals, Sequences, FiniteSets

CONSTANTS
    Incidents,      \* incident ids
    Requests,       \* the requests of a behaviour, each served by a goroutine
    Keys,           \* the facts the engine may want
    Held,           \* those whose probe is not runnable or refused by a gate
    MaxExecute,     \* max_execute_per_incident, 0 for no limit
    None            \* no request

ASSUME IncidentFileAssumption ==
    /\ None \notin Requests \cup Incidents
    /\ Held \subseteq Keys
    /\ MaxExecute \in Nat

Entry == [key : Keys, by : {"agent", "probe"}, from : Requests]

File == [started : BOOLEAN, facts : Seq(Entry),
         ended : Requests \cup {None}, verdict : Requests \cup {None}]

\* os.ReadFile fails.
NoFile == [started |-> FALSE, facts |-> <<>>, ended |-> None, verdict |-> None]

\* StartIsolated
NewFile == [started |-> TRUE, facts |-> <<>>, ended |-> None, verdict |-> None]

WithFact(f, k, who, r) ==
    [f EXCEPT !.facts = Append(@, [key |-> k, by |-> who, from |-> r])]

\* Mutant: the end moves each time the incident is ended.
LastEnd(f, r) == r

\* EndByID: the first end stands.
FirstEnd(f, r) == IF f.ended = None THEN r ELSE f.ended

\* A verdict replaces the one before; without one, that stays.
Closed(f, r, v) == [f EXCEPT !.ended = FirstEnd(f, r), !.verdict = v]

\* probeCollectedFactCount
Executed(f) == {i \in DOMAIN f.facts : f.facts[i].by = "probe"}

\* checkProbeGates, the budget.
BudgetSpent(f) == MaxExecute > 0 /\ Cardinality(Executed(f)) >= MaxExecute

\* What the engine may suggest next: a fact that is not collected.
Wanted(f) == {k \in Keys : \A i \in DOMAIN f.facts : f.facts[i].key # k}

Acknowledges(f, r) == \E i \in DOMAIN f.facts : f.facts[i].from = r

=============================================================================
