----------------------------- MODULE GroupShape -----------------------------
(***************************************************************************)
(* Redundancy and a guard: web needs one of a and b, which both depend on  *)
(* db, and depends on spare only while db is stopped.  Two models share    *)
(* the shape: provider types only, and one with the model's own states,    *)
(* where a stopped b is healthy as long as it is parked.                   *)
(***************************************************************************)
EXTENDS Probing

Is(c, k, v) == [on |-> c, fact |-> k, holds |-> {v}]

On(targets, need, while) == [on |-> targets, need |-> need, while |-> while]

State(name, when, verdict, emits, triggeredBy) ==
    [name |-> name, when |-> when, verdict |-> verdict, emits |-> emits, triggeredBy |-> triggeredBy]

MCComponents == {"web", "a", "b", "db", "spare"}
MCOrder      == <<"web", "a", "b", "db", "spare">>
MCKeys       == {"up", "parked", "says", "skipped"}
MCValues     == {"yes", "no"}
MCDepends    ==
    [c \in MCComponents |->
        CASE c = "web"        -> <<On(<<"a", "b">>, 1, NoPredicate),
                                   On(<<"spare">>, 0, {{Is("db", StateRef, "stopped")}})>>
          [] c \in {"a", "b"} -> <<On(<<"db">>, 0, NoPredicate)>>
          [] OTHER            -> <<>>]
MCTypeFacts  == [c \in MCComponents |-> IF c = "b" THEN <<"parked", "up">> ELSE <<"up">>]
LiveState(c, verdict)    == State("live", {{Is(c, "up", "yes")}}, verdict, {}, {})
Stopped(c, verdict) == State("stopped", {{Is(c, "up", "no")}}, verdict, {"down"}, {})
Crashed(c)          == State("crashed", {{Is(c, "parked", "no"), Is(c, "up", "no")}}, "broken", {}, {})

MCStates  == [c \in MCComponents |-> <<LiveState(c, ""), Stopped(c, "")>>]
OwnStates ==    \* b may be stopped (healthy_in), but not while it is not parked
    [MCStates EXCEPT !["b"] = <<Crashed("b"), LiveState("b", ""), Stopped("b", "healthy")>>]
MCDefault    == [c \in MCComponents |-> "live"]
MCRules      == [c \in MCComponents |-> {{{Is(c, "up", "yes")}}}]

FactsOf(c) == {MCTypeFacts[c][i] : i \in DOMAIN MCTypeFacts[c]}

\* What a component can read; whole systems are absent or there.
Readings(c) ==
    {[k \in MCKeys |-> IF k \in FactsOf(c) THEN r[k] ELSE NoValue] : r \in [FactsOf(c) -> MCValues]}
      \cup {[k \in MCKeys |-> NoValue]}

\* The spare is up; anything else may fail or be missing.
MCWorlds ==
    {w \in [MCComponents -> UNION {Readings(c) : c \in MCComponents}] :
        /\ \A c \in MCComponents : w[c] \in Readings(c)
        /\ w["spare"]["up"] = "yes" /\ w["web"]["up"] # NoValue}

\* Those that tell the model with provider types only apart: how b is parked
\* does not matter there, and a and b differ in nothing else.  One of them, or
\* db, may be missing.
PlainWorlds ==
    {w \in MCWorlds : /\ w["b"]["parked"] # "no" /\ w["a"]["up"] # NoValue
                      /\ w["b"]["up"] # NoValue \/ w["db"]["up"] # NoValue}

=============================================================================
