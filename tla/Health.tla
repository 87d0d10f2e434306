------------------------------- MODULE Health -------------------------------
(***************************************************************************)
(* What the collected facts prove: three-valued predicates (internal/expr),*)
(* derived states (internal/state), the health verdict of a component, the *)
(* redundancy groups that absorb a failure, and the one rule that names a  *)
(* root cause (internal/engine/strategy).                                  *)
(*                                                                         *)
(* The loaded model is a set of constants.  A component's type is already  *)
(* the effective one (provider type plus the model's own states, healthy_in*)
(* and rules).  A predicate is in disjunctive normal form, a set of sets   *)
(* of comparisons; And and Or over unresolved operands follow Kleene's     *)
(* tables, which the normal form preserves.  NoPredicate is an absent      *)
(* expression.  A comparison is the set of values for which it holds.      *)
(***************************************************************************)
EXTENDS FactStore

CONSTANTS
    Order,          \* the components in declaration order
    Depends,        \* [Components -> Seq([on, need, while])]
    TypeFacts,      \* [Components -> Seq(Keys)], sorted by name
    States,         \* [Components -> Seq([name, when, verdict, emits, triggeredBy])]
    DefaultState,   \* [Components -> state name or ""]
    Rules           \* [Components -> set of predicates], the effective healthy rules

StateRef    == "state"      \* the pseudo-fact <component>.state
Unknown     == "unknown"
NoPredicate == {}

\* Validation rejects a dangling dependency, a group needing more members
\* than it has, and a dependency cycle; a rule that does not parse is refused.
ASSUME ModelAssumption ==
    /\ Order \in Seq(Components) /\ Range(Order) = Components
    /\ IsFiniteSet(Components) /\ Len(Order) = Cardinality(Components)
    /\ TypeFacts \in [Components -> Seq(Keys)]
    /\ \A c \in Components : States[c] \in Seq(Range(States[c]))
    /\ \A c \in Components : Depends[c] \in Seq(Range(Depends[c]))
    /\ \A c \in Components : \A i \in DOMAIN Depends[c] :
          /\ Depends[c][i].on \in Seq(Components)
          /\ Depends[c][i].need \in 0..Len(Depends[c][i].on)
    /\ \A c \in Components : NoPredicate \notin Rules[c]

-----------------------------------------------------------------------------
(* Predicates.                                                             *)

\* CmpNode.Eval: a missing fact or an underived state is unresolved.
AtomTruth(a, store, states) ==
    IF a.fact = StateRef
      THEN IF a.on \notin DOMAIN states THEN "unresolved"
           ELSE IF states[a.on] \in a.holds THEN "true" ELSE "false"
      ELSE IF LookupValue(store[a.on], a.fact) = NoValue THEN "unresolved"
           ELSE IF LookupValue(store[a.on], a.fact) \in a.holds THEN "true" ELSE "false"

\* AndNode.Eval and OrNode.Eval: one operand decides when it can.
Truth(p, store, states) ==
    IF \E conj \in p : \A a \in conj : AtomTruth(a, store, states) = "true" THEN "true"
    ELSE IF \A conj \in p : \E a \in conj : AtomTruth(a, store, states) = "false" THEN "false"
    ELSE "unresolved"

NoStates == [c \in {} |-> Unknown]

\* Mutant: what is not known to hold is refuted.
RefutedUnlessTrue(p, store) == p # NoPredicate /\ Truth(p, store, NoStates) # "true"

\* EvalStatePredicate: evaluated without derived states.
Holds(p, store)  == Truth(p, store, NoStates) = "true"
Refuted(p, store) == p # NoPredicate /\ Truth(p, store, NoStates) = "false"

-----------------------------------------------------------------------------
(* State derivation.                                                       *)

\* deriveOne: the first state whose when is definitely true.
StateIn(c, store, states) ==
    LET hits == {i \in DOMAIN States[c] : Truth(States[c][i].when, store, states) = "true"}
    IN  IF hits = {} THEN Unknown ELSE States[c][Min(hits)].name

\* Derive: in declaration order, each component seeing the states before it.
DerivedStates(store) ==
    LET upTo[n \in 0..Len(Order)] ==
          IF n = 0 THEN NoStates
          ELSE LET before == upTo[n - 1]
                   now    == StateIn(Order[n], store, before)
               IN  [c \in {Order[i] : i \in 1..n} |-> IF c = Order[n] THEN now ELSE before[c]]
    IN  upTo[Len(Order)]

\* stateVerdict: the verdict of the state the facts put the component in.
StateVerdict(c, store) ==
    LET hits == {i \in DOMAIN States[c] : Holds(States[c][i].when, store)}
    IN  IF hits = {} THEN "" ELSE States[c][Min(hits)].verdict

-----------------------------------------------------------------------------
(* The canonical health verdict.                                           *)

Unhealthy(store, c) ==
    \/ IsAbsent(store[c])
    \/ StateVerdict(c, store) = "broken"
    \/ StateVerdict(c, store) = "" /\ \E r \in Rules[c] : Truth(r, store, NoStates) = "false"

\* Mutant: a rule that cannot be decided does not stand in the way.
HealthyUnlessRefuted(store, c) ==
    Observed(store[c]) /\ \A r \in Rules[c] : Truth(r, store, NoStates) # "false"

Healthy(store, c) ==
    /\ ~IsAbsent(store[c])
    /\ \/ StateVerdict(c, store) = "healthy"
       \/ /\ StateVerdict(c, store) = ""
          /\ \A r \in Rules[c] : Holds(r, store)
          /\ Rules[c] = {} => Observed(store[c])

ComponentVerdict(store, c) ==
    IF Unhealthy(store, c) THEN "unhealthy" ELSE IF Healthy(store, c) THEN "healthy" ELSE Unknown

\* CannotRuleOut: undecided components with a fact that could not be read.
CannotRuleOut(store) ==
    {c \in Components : Unreadable(store[c]) # {} /\ ComponentVerdict(store, c) = Unknown}

\* A predicate that reads facts of c itself, or derived states.
Reads(p, c, K) ==
    \A conj \in p : \A a \in conj : a.fact = StateRef \/ (a.on = c /\ a.fact \in K)

\* A model of provider types only: its states carry no verdict of their own,
\* and every state and rule of a component reads that component's facts.
\* (A model's own states can mislead: the run ClearedWhileForbidden.)
PlainModel(K) ==
    \A c \in Components :
        /\ \A i \in DOMAIN States[c] :
              States[c][i].verdict = "" /\ Reads(States[c][i].when, c, K)
        /\ \A r \in Rules[c] : Reads(r, c, K) /\ {} \notin r

-----------------------------------------------------------------------------
(* Redundancy.                                                             *)

DependsOn(parent, child) == \E i \in DOMAIN Depends[parent] : child \in Range(Depends[parent][i].on)

\* Mutant: members seen, and not seen broken, count as healthy.
MembersNotBroken(store, dep) ==
    {j \in DOMAIN dep.on : Observed(store[dep.on[j]]) /\ ~Unhealthy(store, dep.on[j])}

HealthyMembers(store, dep) == {j \in DOMAIN dep.on : Healthy(store, dep.on[j])}

\* SatisfiedGroup: parent reaches child through a group with enough members
\* proven healthy, so child's failure stops there.
SatisfiedGroup(store, parent, child) ==
    \E i \in DOMAIN Depends[parent] :
        LET dep == Depends[parent][i] IN
        /\ dep.need > 0
        /\ child \in Range(dep.on)
        /\ Cardinality(HealthyMembers(store, dep)) >= dep.need

RedundancyCovered(store, c) ==
    LET dependents == {p \in Components : DependsOn(p, c)} IN
    /\ dependents # {}
    /\ \A p \in dependents : SatisfiedGroup(store, p, c)

\* Seen broken, but a group covers it: reported apart from a root cause.
RedundancyDegraded(store) ==
    {c \in Components : Unhealthy(store, c) /\ RedundancyCovered(store, c)}

-----------------------------------------------------------------------------
(* Which components are in play, and in which order bfsWalk visits them.   *)

\* EntryPoint: the first component nothing depends on.
Entry == Order[Min({i \in DOMAIN Order : \A p \in Components : ~DependsOn(p, Order[i])})]

\* whileGuardActive: only a definitely false guard closes the edge.
GuardActive(dep, store, states) ==
    dep.while = NoPredicate \/ Truth(dep.while, store, states) # "false"

\* The targets of c's open dependencies, in declaration order.
OpenTargets(c, store, states) ==
    LET upTo[n \in 0..Len(Depends[c])] ==
          IF n = 0 THEN <<>>
          ELSE IF GuardActive(Depends[c][n], store, states)
               THEN upTo[n - 1] \o Depends[c][n].on ELSE upTo[n - 1]
    IN  upTo[Len(Depends[c])]

\* One edge for every target of every dependency, open or not.
AllEdges == UNION {UNION {{<<c, i, j>> : j \in DOMAIN Depends[c][i].on} : i \in DOMAIN Depends[c]} :
                   c \in Components}

\* bfsWalk: one queue entry is taken per turn; a component already visited
\* is dropped.  Every edge enters the queue at most once.
BfsWalkFrom(entry, store) ==
    LET states == DerivedStates(store)
        turn[n \in Nat] ==
          IF n = 0 THEN [out |-> <<>>, queue |-> <<entry>>]
          ELSE LET w == turn[n - 1] IN
               IF w.queue = <<>> THEN w
               ELSE IF Head(w.queue) \in Range(w.out) THEN [w EXCEPT !.queue = Tail(@)]
               ELSE [out   |-> Append(w.out, Head(w.queue)),
                     queue |-> Tail(w.queue) \o OpenTargets(Head(w.queue), store, states)]
    IN  turn[1 + Cardinality(AllEdges)].out

BfsWalk(store) == BfsWalkFrom(Entry, store)

\* The components the entry reaches over dependencies without a guard: they
\* are in play whatever was read.
AlwaysInPlay ==
    {c \in Components : \A C \in SUBSET Components :
        (Entry \in C /\ \A p \in C : \A i \in DOMAIN Depends[p] :
             Depends[p][i].while = NoPredicate => Range(Depends[p][i].on) \subseteq C)
          => c \in C}

\* A model whose guards, groups and derived states look only at components
\* always in play (a component's own states may look at itself, too).
Grounded ==
    /\ Entry \in Components
    /\ \A c \in Components :
        /\ \A i \in DOMAIN Depends[c] :
              /\ \A conj \in Depends[c][i].while : \A a \in conj : a.on \in AlwaysInPlay
              /\ Depends[c][i].need > 0 => Range(Depends[c][i].on) \subseteq AlwaysInPlay
        /\ \A i \in DOMAIN States[c] : \A conj \in States[c][i].when : \A a \in conj :
              a.on \in {c} \cup AlwaysInPlay

-----------------------------------------------------------------------------
(* RootCause: the deepest broken component no other one could have broken. *)

Candidates(store, inPlay) ==
    {c \in inPlay : Unhealthy(store, c) /\ ~RedundancyCovered(store, c)}

\* The edges a failure may have come along: open, and not absorbed by a group.
ActiveEdges(store, inPlay) ==
    LET states == DerivedStates(store) IN
    [c \in inPlay |-> {t \in Range(OpenTargets(c, store, states)) \cap inPlay : ~SatisfiedGroup(store, c, t)}]

\* Where a failure of x could have come from, through components not proven
\* healthy.
Sources(x, active, opaque) ==
    LET upTo[n \in Nat] ==
          IF n = 0 THEN active[x]
          ELSE LET before == upTo[n - 1] IN before \cup UNION {active[y] : y \in before \cap opaque}
    IN  upTo[Cardinality(DOMAIN active)] \ {x}

\* The longest walk of active edges from the entry to each component.
Depths(entry, active) ==
    LET layer[n \in Nat] == IF n = 0 THEN {entry} ELSE UNION {active[y] : y \in layer[n - 1]}
    IN  [x \in DOMAIN active |-> Max({0} \cup {n \in 0..Cardinality(DOMAIN active) : x \in layer[n]})]

Deepest(S, depth) == {x \in S : \A y \in S : depth[y] <= depth[x]}

\* Those no other broken component could have broken, or all of them.
Causes(broken, active, opaque) ==
    LET causes == {x \in broken : Sources(x, active, opaque) \cap broken = {}}
    IN  IF causes # {} THEN causes ELSE broken

RootCauses(entry, store) ==
    LET inPlay == Range(BfsWalkFrom(entry, store))
        active == ActiveEdges(store, inPlay)
        opaque == {c \in inPlay : ComponentVerdict(store, c) # "healthy"}
    IN  Deepest(Causes(Candidates(store, inPlay), active, opaque), Depths(entry, active))

\* Ties go to the component declared first; NoValue stands for no cause.
RootCauseFrom(entry, store) ==
    LET best == RootCauses(entry, store) IN
    IF best = {} THEN NoValue
    ELSE Order[Min({i \in DOMAIN Order : Order[i] \in best})]

RootCause(store) == RootCauseFrom(Entry, store)

=============================================================================
