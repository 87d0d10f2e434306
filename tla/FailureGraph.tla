---------------------------- MODULE FailureGraph ----------------------------
(***************************************************************************)
(* The enumeration graph (internal/scenarios) and what the strategies make *)
(* of it (internal/engine/strategy): the chains a failure can travel, which*)
(* of them the collected facts leave live, and what to ask or conclude     *)
(* next.                                                                   *)
(*                                                                         *)
(* A chain runs from its root (first) to the symptom it ends at (last).    *)
(* Chains are listed here; the code counts the same chains by dynamic      *)
(* programming.  Ties that the code breaks by name are left open.          *)
(***************************************************************************)
EXTENDS Health

CONSTANT Suspects   \* operator hints [on, state]; state "" is any state

-----------------------------------------------------------------------------
(* BuildGraph.                                                             *)

\* A state that is neither the default nor healthy is a failure.
IsFailure(c, s) == s.name # DefaultState[c] /\ s.verdict # "healthy"

Nodes == UNION {{[on |-> c, state |-> s.name] :
                    s \in {t \in Range(States[c]) : IsFailure(c, t)}} : c \in Components}

\* The states of a component go by different names.
NamedOnce ==
    \A c \in Components : \A i, j \in DOMAIN States[c] : States[c][i].name = States[c][j].name => i = j

StateOf(node) ==
    States[node.on][Min({i \in DOMAIN States[node.on] : States[node.on][i].name = node.state})]

\* dependencyClosure: everything a component depends on, however far.
Behind ==
    LET upTo[n \in Nat] ==
          IF n = 0 THEN [c \in Components |-> {d \in Components : DependsOn(c, d)}]
          ELSE [c \in Components |-> upTo[n - 1][c] \cup UNION {upTo[n - 1][d] : d \in upTo[n - 1][c]}]
    IN  upTo[Cardinality(Components)]

\* No component depends on itself, however far.
ASSUME AcyclicAssumption == \A c \in Components : c \notin Behind[c]

\* propagates: does root's failure, having reached child, break parent?
Carries(root, parent, child) ==
    \E i \in DOMAIN Depends[parent] :
        LET dep == Depends[parent][i]
            hit == {j \in DOMAIN dep.on : dep.on[j] = root \/ root \in Behind[dep.on[j]]}
        IN  /\ child \in Range(dep.on)
            /\ dep.need > 0 => Cardinality(hit) > Len(dep.on) - dep.need

\* matchEdgeLabel # "": no triggered_by accepts any label.
Triggers(emits, triggeredBy) == emits # {} /\ (triggeredBy = {} \/ emits \cap triggeredBy # {})

\* next: where root's failure goes on from node.
NextNodes(root, node) ==
    {m \in Nodes : /\ DependsOn(m.on, node.on)
                   /\ Carries(root, m.on, node.on)
                   /\ Triggers(StateOf(node).emits, StateOf(m).triggeredBy)}

Observable(c) == TypeFacts[c] # <<>>

\* A failure's walks: root breaks the next component, and so on.
Walks(root) ==
    {w \in UNION {[1..n -> Nodes] : n \in 2..Cardinality(Components)} :
        w[1] = root /\ \A i \in 1..(Len(w) - 1) : w[i + 1] \in NextNodes(root.on, w[i])}

\* Every walk that ends at something to observe, or the root alone when
\* there is none.
ChainsFrom(root) ==
    LET long == {w \in Walks(root) : Observable(w[Len(w)].on)}
    IN  IF long # {} THEN long ELSE {w \in [1..1 -> {root}] : Observable(root.on)}

\* Expand
Chains == UNION {ChainsFrom(r) : r \in Nodes}

Touches(chain, c) == \E i \in DOMAIN chain : chain[i].on = c

-----------------------------------------------------------------------------
(* FilterLive.                                                             *)

StepLive(store, node) ==
    LET when == StateOf(node).when IN
    \/ store[node.on] = <<>>
    \/ IsAbsent(store[node.on]) /\ node.state # DefaultState[node.on]
    \/ ~IsAbsent(store[node.on]) /\ ~Refuted(when, store)

ChainLive(store, chain) ==
    /\ \A i \in DOMAIN chain : StepLive(store, chain[i])
    /\ \A i \in DOMAIN chain \ {Len(chain)} :
          ~SatisfiedGroup(store, chain[i + 1].on, chain[i].on)

Live(store) == {chain \in Chains : ChainLive(store, chain)}

-----------------------------------------------------------------------------
(* Occam: the shortest live chain first, verified from symptom to root.    *)

Firsts(S) == {i \in S : \A j \in S : i <= j}
Lasts(S)  == {i \in S : \A j \in S : j <= i}

\* Mutant: a probe that failed is tried again.
Unresolved(store, c, wanted) ==
    {i \in DOMAIN TypeFacts[c] : TypeFacts[c][i] \in wanted /\ LookupValue(store[c], TypeFacts[c][i]) = NoValue}

Uncollected(store, c, wanted) ==
    {i \in DOMAIN TypeFacts[c] : TypeFacts[c][i] \in wanted /\ ~Collected(store[c], TypeFacts[c][i])}

\* firstUncollectedFact, nextFactToProbe: at most one probe; TypeFacts is
\* sorted by name.
FirstUncollected(store, c, wanted) ==
    {[on |-> c, fact |-> TypeFacts[c][i]] : i \in Firsts(Uncollected(store, c, wanted))}

\* validStepFacts: the symptom wants every fact of its type, a step inside
\* the chain those its when reads, or all of them when it reads none.
StepFacts(chain, i) ==
    LET all   == Range(TypeFacts[chain[i].on])
        reads == {a.fact : a \in {b \in UNION StateOf(chain[i]).when : b.on = chain[i].on}}
    IN  IF i = Len(chain) \/ reads \cap all = {} THEN all ELSE reads \cap all

\* pickSymptomInward: at most one probe, for the step nearest the symptom
\* that still wants one.
ProbeFor(store, chain) ==
    LET open == {i \in DOMAIN chain : Uncollected(store, chain[i].on, StepFacts(chain, i)) # {}}
    IN  UNION {FirstUncollected(store, chain[i].on, StepFacts(chain, i)) : i \in Lasts(open)}

TouchesSuspect(chain) ==
    \E h \in Suspects : \E i \in DOMAIN chain :
        chain[i].on = h.on /\ h.state \in {"", chain[i].state}

\* How many other live chains the chain's next probe speaks about.
Eliminates(store, live, chain) ==
    SumSet({Cardinality({w \in live : Touches(w, p.on)}) - 1 : p \in ProbeFor(store, chain)})

Better(gain, a, b) ==
    \/ Len(a) < Len(b)
    \/ /\ Len(a) = Len(b)
       /\ \/ TouchesSuspect(a) /\ ~TouchesSuspect(b)
          \/ TouchesSuspect(a) = TouchesSuspect(b) /\ gain[a] > gain[b]

\* (A set of one lets TLC compute the live chains once.)
ChosenAmong(store, live) ==
    UNION {{a \in live : \A b \in live : ~Better(gain, b, a)} :
             gain \in {[a \in live |-> Eliminates(store, live, a)]}}

Chosen(store) == UNION {ChosenAmong(store, live) : live \in {Live(store)}}

\* occamOnGraph's three ways out.
OccamDone(store)   == \E live \in {Live(store)} : \E chain \in live : live = {chain}
OccamProbes(store) == IF OccamDone(store) THEN {}
                      ELSE UNION {ProbeFor(store, a) : a \in Chosen(store)}
OccamStuck(store)  == ~OccamDone(store) /\ (\A a \in Chosen(store) : ProbeFor(store, a) = {})

-----------------------------------------------------------------------------
(* BFS: every fact of every component in play, then RootCause.             *)

\* Mutant: one fact of a component is enough.
BfsProbesOnce(store) ==
    LET walk == BfsWalk(store)
        open == {i \in DOMAIN walk : walk[i] \in Components /\ store[walk[i]] = <<>>}
    IN  UNION {FirstUncollected(store, walk[i], Keys) : i \in Firsts(open)}

\* firstUncollectedProbe
BfsProbes(store) ==
    LET walk == BfsWalk(store)
        open == {i \in DOMAIN walk : walk[i] \in Components /\ Uncollected(store, walk[i], Keys) # {}}
    IN  UNION {FirstUncollected(store, walk[i], Keys) : i \in Firsts(open)}

\* AutoSelect: occam when scenarios were loaded.
Suggested(store, scenarios) == IF scenarios THEN OccamProbes(store) ELSE BfsProbes(store)

=============================================================================
