----------------------------- MODULE FactStore -----------------------------
(***************************************************************************)
(* The append-only fact store (internal/facts).  A store maps every        *)
(* component to the list of facts recorded for it, in append order;        *)
(* nothing is ever removed or rewritten, so every question is answered     *)
(* from the whole list, most of them from the last fact of a key.          *)
(*                                                                         *)
(* A fact keeps the fields the engine and the server read: its key, its    *)
(* value (NoValue is Go's nil), the status that explains a missing value   *)
(* and who collected it.  Time, note and raw output are left out.          *)
(***************************************************************************)
EXTENDS Naturals, Sequences, FiniteSetsExt, Functions

CONSTANTS
    Components,     \* the components of the model
    Keys,           \* fact keys
    Values,         \* what a probe can read
    NoValue         \* Go's nil: a fact recorded without a value

ASSUME NoValueAssumption == NoValue \notin Values

Statuses   == {"", "not_found", "forbidden", "transient"}
Collectors == {"probe", "operator", "manual", "agent"}

Fact == [key : Keys, value : Values \cup {NoValue}, status : Statuses, by : Collectors]

Store == [Components -> Seq(Fact)]

EmptyStore == [c \in Components |-> <<>>]

\* Store.Append
Appended(store, c, fact) == [store EXCEPT ![c] = Append(@, fact)]

-----------------------------------------------------------------------------
(* Questions about one component's list of facts.                          *)

Positions(facts, k) == {i \in DOMAIN facts : facts[i].key = k}

\* Store.Latest # nil: the key was recorded, with or without a value.
Collected(facts, k) == Positions(facts, k) # {}

\* Store.Latest
Latest(facts, k) == facts[Max(Positions(facts, k))]

\* Store.LookupValue: a fact recorded without a value reads as missing.
LookupValue(facts, k) == IF Collected(facts, k) THEN Latest(facts, k).value ELSE NoValue

\* Store.Unreadable: the keys whose last record says the value could not be read.
Unreadable(facts) ==
    {k \in Keys : Collected(facts, k) /\ Latest(facts, k).status \in {"forbidden", "transient"}}

\* Store.PartialVisibility counts these over all components.
PartialVisibility(store) == UNION {{c} \X Unreadable(store[c]) : c \in Components}

\* strategy.observed: some fact, at any time, resolved to a value.
Observed(facts) == \E i \in DOMAIN facts : facts[i].value # NoValue

\* Store.IsAbsent: something was not found and nothing was ever read.
IsAbsent(facts) ==
    /\ \E i \in DOMAIN facts : facts[i].status = "not_found"
    /\ ~Observed(facts)

=============================================================================
