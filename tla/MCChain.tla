------------------------------ MODULE MCChain -------------------------------
(***************************************************************************)
(* Three tiers and two generic components: web depends on api, cdn and dns,*)
(* api on db.  db can stop, api can be down or slow, cdn and dns are what  *)
(* the operator says they are, and web only shows what the others do.      *)
(* Provider types only: no state carries a verdict.                        *)
(***************************************************************************)
EXTENDS Diagnose

Is(c, k, v) == [on |-> c, fact |-> k, holds |-> {v}]

On(c) == [on |-> <<c>>, need |-> 0, while |-> NoPredicate]

State(name, when, emits, triggeredBy) ==
    [name |-> name, when |-> when, verdict |-> "", emits |-> emits, triggeredBy |-> triggeredBy]

MCComponents == {"web", "api", "db", "cdn", "dns"}
MCOrder      == <<"web", "api", "db", "cdn", "dns">>
MCKeys       == {"up", "ready", "says", "skipped"}
MCValues     == {"yes", "no"}
MCDepends    ==
    [c \in MCComponents |->
        CASE c = "web" -> <<On("api"), On("cdn"), On("dns")>>
          [] c = "api" -> <<On("db")>>
          [] OTHER     -> <<>>]
MCTypeFacts  ==
    [c \in MCComponents |->
        CASE c = "api" -> <<"ready", "up">>
          [] c \in {"cdn", "dns"} -> <<"says">>
          [] OTHER     -> <<"up">>]
MCStates     ==
    [c \in MCComponents |->
        CASE c = "web" -> <<State("live", {{Is(c, "up", "yes")}}, {}, {})>>
          [] c = "api" -> <<State("live", {{Is(c, "up", "yes"), Is(c, "ready", "yes")}}, {}, {}),
                            State("down", {{Is(c, "up", "no")}}, {"errors"}, {"refused"}),
                            State("slow", {{Is(c, "up", "yes"), Is(c, "ready", "no")}}, {"latency"}, {})>>
          [] c = "db"  -> <<State("live", {{Is(c, "up", "yes")}}, {}, {}),
                            State("stopped", {{Is(c, "up", "no")}}, {"refused"}, {})>>
          [] OTHER     -> <<State("live", {{Is(c, "says", "yes")}}, {}, {}),
                            State("stopped", {{Is(c, "says", "no")}}, {"errors"}, {})>>]
MCDefault    == [c \in MCComponents |-> "live"]
MCRules      ==
    [c \in MCComponents |->
        CASE c = "api" -> {{{Is(c, "up", "yes")}}, {{Is(c, "ready", "yes")}}}
          [] c = "cdn" -> {{{Is(c, "says", "yes")}}}
          [] OTHER     -> {{{Is(c, "up", "yes")}}}]
MCGeneric    == {"cdn", "dns"}
MCSuspects   == {[on |-> "cdn", state |-> ""]}

FactsOf(c) == {MCTypeFacts[c][i] : i \in DOMAIN MCTypeFacts[c]}

\* What a component can read: every fact of its type, or nothing at all.
Readings(c) ==
    {[k \in MCKeys |-> IF k \in FactsOf(c) THEN r[k] ELSE NoValue] : r \in [FactsOf(c) -> MCValues]}
      \cup (IF c \in MCGeneric THEN {} ELSE {[k \in MCKeys |-> NoValue]})

\* Every system of such components.
MCWorlds ==
    {w \in [MCComponents -> UNION {Readings(c) : c \in MCComponents}] :
        \A c \in MCComponents : w[c] \in Readings(c)}

\* A few of them, for the runs that interleave more than one session: db is
\* stopped or missing, and takes api and web with it.
FewWorlds ==
    {w \in MCWorlds : /\ w["web"]["up"] = "no" /\ w["api"]["up"] = "no"
                      /\ w["api"]["ready"] = "yes" /\ w["db"]["up"] # "yes"
                      /\ w["dns"]["says"] = "yes" /\ w["cdn"]["says"] = "yes"}

\* Ways to start a run.
Attended   == [terminal |-> TRUE, scenarios |-> TRUE, onWrite |-> "run"]
Unattended == [terminal |-> FALSE, scenarios |-> TRUE, onWrite |-> "pause"]

OnlyAttended == {Attended}
AnyOptions   == {Attended, Unattended}

\* What the theorems ask of a model, this one meets.
ASSUME ChainIsPlain == PlainModel(ReadKeys) /\ WholeOrMissing /\ Grounded /\ NamedOnce

=============================================================================
