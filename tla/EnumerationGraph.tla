-------------------------- MODULE EnumerationGraph --------------------------
(***************************************************************************)
(* The failure graph as data (internal/scenarios): built from any model,   *)
(* listed chain by chain, and read without listing (graphdp.go, classes.go)*)
(* for how many chains are live, how many pass through each component, the *)
(* live ones layer by layer, and one chain for each root and symptom.      *)
(*                                                                         *)
(* A model here is [component -> [depends, failures, observes]]: its       *)
(* dependencies [on, need, while], the failure states [name, emits,        *)
(* triggeredBy] of its effective type, and whether it has facts.           *)
(***************************************************************************)
EXTENDS Naturals, FiniteSets, SequencesExt

\* The element of a set of one: {f(x) : x \in {e}} has TLC compute e once.
The(S) == CHOOSE x \in S : TRUE

\* A component in a failure state.
Node(c, s) == [on |-> c, state |-> s.name]

FailureAt(m, node) == CHOOSE s \in m[node.on].failures : s.name = node.state

\* inverseDeps: d declares c in a depends.
Dependent(m, d, c) == \E i \in DOMAIN m[d].depends : c \in Range(m[d].depends[i].on)

\* dependencyClosure: what is in every set that holds c's dependencies and
\* the dependencies of its members.
Closure(m) ==
    LET closed == {S \in SUBSET DOMAIN m : \A c \in S, d \in DOMAIN m : Dependent(m, c, d) => d \in S}
        over(c) == {S \in closed : \A d \in DOMAIN m : Dependent(m, c, d) => d \in S}
    IN  [c \in DOMAIN m |-> {d \in DOMAIN m : \A S \in over(c) : d \in S}]

\* propagates: a group breaks when the root is behind too many members.
Propagates(m, behind, root, parent, child) ==
    \E i \in DOMAIN m[parent].depends :
        LET dep == m[parent].depends[i]
            hit == {j \in DOMAIN dep.on : \/ dep.on[j] = root
                                          \/ dep.on[j] \in DOMAIN m /\ root \in behind[dep.on[j]]}
        IN  /\ child \in Range(dep.on)
            /\ dep.need > 0 => Cardinality(hit) > Len(dep.on) - dep.need

\* matchEdgeLabel: a state without triggered_by accepts any label.
Matches(emits, triggeredBy) == emits # {} /\ (triggeredBy = {} \/ emits \cap triggeredBy # {})

\* Whom each component's failure breaks, for each root it may have come from,
\* and where it goes on from each node.
GraphFrom(m, behind) ==
    LET nodes == UNION {{Node(c, s) : s \in m[c].failures} : c \in DOMAIN m}
        carried(root, c) == {d \in DOMAIN m : Dependent(m, d, c) /\ Propagates(m, behind, root, d, c)}
    IN  [nodes      |-> nodes,
         components |-> DOMAIN m,
         observes   |-> {c \in DOMAIN m : m[c].observes},
         dependents |-> [c \in DOMAIN m |-> {d \in DOMAIN m : Dependent(m, d, c)}],
         carried    |-> [r \in DOMAIN m |-> [c \in DOMAIN m |-> carried(r, c)]],
         next       |-> [r \in DOMAIN m |-> [n \in nodes |->
                            {k \in nodes : /\ k.on \in carried(r, n.on)
                                           /\ Matches(FailureAt(m, n).emits, FailureAt(m, k).triggeredBy)}]]]

BuildGraph(m) == The({GraphFrom(m, behind) : behind \in {Closure(m)}})

\* next: where root's failure goes on from n.
Onward(g, root, n) == g.next[root.on][n]

-----------------------------------------------------------------------------
(* Expand: every walk of a root's failure that ends where there is a fact  *)
(* to observe, or the root alone when there is none.                       *)

RootWalks(g, root) ==
    {w \in UNION {[1..n -> g.nodes] : n \in 2..Cardinality(g.components)} :
        w[1] = root /\ \A i \in 1..(Len(w) - 1) : w[i + 1] \in Onward(g, root, w[i])}

Expand(g) ==
    UNION {The({IF long # {} THEN long ELSE {w \in {<<r>>} : r.on \in g.observes} :
                   long \in {{w \in RootWalks(g, r) : w[Len(w)].on \in g.observes}}}) : r \in g.nodes}

\* What the facts allow: the nodes, and the edges, that are not contradicted.
AllLive(g) == [nodes |-> g.nodes, edges |-> g.components \X g.components]

Passes(live, n, k) == k \in live.nodes /\ <<n.on, k.on>> \in live.edges

LiveOf(chains, live) ==
    {w \in chains : w[1] \in live.nodes /\ \A i \in 1..(Len(w) - 1) : Passes(live, w[i], w[i + 1])}

-----------------------------------------------------------------------------
(* Count.                                                                  *)

OnTo(g, root, live, n) == {k \in Onward(g, root, n) : Passes(live, n, k)}

Sum(f, S) == MapThenSumSet(LAMBDA n : f[n], S)

\* suffixes: the live chain ends that start at each node.
SuffixesOf(g, root, live) ==
    LET suf[n \in g.nodes] ==
          (IF n.on \in g.observes THEN 1 ELSE 0) + Sum(suf, OnTo(g, root, live, n))
    IN  suf

\* Mutant: a root stands alone when nothing live goes on from it.
StandsAloneNow(g, root, live) ==
    root.on \in g.observes /\ Sum(SuffixesOf(g, root, live), OnTo(g, root, live, root)) = 0

\* rootStandsAlone: no chain goes on from the root at all, live or not.
StandsAlone(g, root, live) ==
    /\ root.on \in g.observes
    /\ Sum(SuffixesOf(g, root, AllLive(g)), OnTo(g, root, AllLive(g), root)) = 0

\* fromRoot
FromRoot(g, root, live) ==
    LET onward == Sum(SuffixesOf(g, root, live), OnTo(g, root, live, root)) IN
    IF root \notin live.nodes THEN 0
    ELSE IF onward = 0 /\ StandsAlone(g, root, live) THEN 1 ELSE onward

\* fromRoot's pre: the live ways from the root to each node.
PrefixesOf(g, root, live) ==
    LET pre[n \in g.nodes] ==
          IF n = root THEN 1 ELSE Sum(pre, {k \in g.nodes : n \in OnTo(g, root, live, k)})
    IN  pre

\* fromRoot's touch: the root's live chains through c.
Through(g, root, live, c) ==
    LET total == FromRoot(g, root, live)
        pre == PrefixesOf(g, root, live)
        suf == SuffixesOf(g, root, live)
        at == {n \in g.nodes : n.on = c}
    IN  IF total = 0 THEN 0
        ELSE IF c = root.on THEN total
        ELSE Sum([n \in at |-> pre[n] * suf[n]], at)

LiveCount(g, live) == Sum([r \in g.nodes |-> FromRoot(g, r, live)], g.nodes)

Touch(g, live) ==
    [c \in g.components |-> Sum([r \in g.nodes |-> Through(g, r, live, c)], g.nodes)]

CountChains(g) == LiveCount(g, AllLive(g))

-----------------------------------------------------------------------------
(* LiveByLength.                                                           *)

\* The n-th frontier: the live walks of n steps.
Frontier(g, live) ==
    LET upTo[n \in Nat] ==
          IF n <= 1 THEN {<<r>> : r \in live.nodes}
          ELSE UNION {{Append(w, k) : k \in OnTo(g, w[1], live, w[n - 1])} : w \in upTo[n - 1]}
    IN  upTo

\* The chains among them.
Layer(g, live, n) ==
    {w \in Frontier(g, live)[n] :
        IF n = 1 THEN StandsAlone(g, w[1], live) ELSE w[n].on \in g.observes}

\* The first layer that holds a chain.
ShortestLive(g, live) ==
    LET some == {n \in 1..Cardinality(g.components) : Layer(g, live, n) # {}}
    IN  IF some = {} THEN {} ELSE Layer(g, live, Min(some))

-----------------------------------------------------------------------------
(* Classes: one chain for each root and symptom, live and dead apart.      *)

\* The scenario order, here any order of the nodes.
RankIn(g) ==
    LET order == FoldSet(LAMBDA n, s : Append(s, n), <<>>, g.nodes)
    IN  [n \in g.nodes |-> CHOOSE i \in DOMAIN order : order[i] = n]

\* Less: shorter first, then by the steps' names, here by their rank.
Less(rank, a, b) ==
    \/ Len(a) < Len(b)
    \/ /\ Len(a) = Len(b)
       /\ \E i \in DOMAIN a : rank[a[i]] < rank[b[i]] /\ \A j \in 1..(i - 1) : a[j] = b[j]

Least(rank, S) == CHOOSE a \in S : \A b \in S \ {a} : Less(rank, a, b)

\* Mutant: a way is as dead as its last step.
StepForgets(live, k, n) == ~Passes(live, k[1], n)

\* step: dead once anything on the way is.
Step(live, k, n) == k[2] \/ ~Passes(live, k[1], n)

\* rootClasses' paths: how many ways lead to a node, dead or not, and the
\* least of them, each built from the least ways to where it came from.
Ways(g, rank, root, live) ==
    LET ways[s \in g.nodes \X BOOLEAN] ==
          LET from == {k \in g.nodes \X BOOLEAN : /\ s[1] \in Onward(g, root, k[1])
                                                  /\ s[2] = Step(live, k, s[1])
                                                  /\ ways[k].count > 0}
          IN  IF s = <<root, root \notin live.nodes>> THEN [count |-> 1, least |-> <<root>>]
              ELSE IF from = {} THEN [count |-> 0, least |-> <<>>]
              ELSE [count |-> Sum([k \in from |-> ways[k].count], from),
                    least |-> Least(rank, {Append(ways[k].least, s[1]) : k \in from})]
    IN  [s \in g.nodes \X BOOLEAN |-> ways[s]]

\* A Representative: its class, how many chains it stands for, and the least.
Class(root, at, dead, count, chain) ==
    [root |-> root, at |-> at, dead |-> dead, count |-> count, chain |-> chain]

RootClasses(g, rank, root, live, ways) ==
    LET ends(c, dead) == {n \in g.nodes \ {root} : n.on = c /\ ways[<<n, dead>>].count > 0}
        seen == {k \in g.observes \X BOOLEAN : ends(k[1], k[2]) # {}}
    IN  {Class(root, k[1], k[2],
               Sum([n \in ends(k[1], k[2]) |-> ways[<<n, k[2]>>].count], ends(k[1], k[2])),
               Least(rank, {ways[<<n, k[2]>>].least : n \in ends(k[1], k[2])})) : k \in seen}
        \cup {Class(root, root.on, root \notin live.nodes, 1, <<root>>) :
                 r \in {x \in {root} : StandsAlone(g, x, live)}}

Classes(g, rank, live) ==
    UNION {UNION {RootClasses(g, rank, r, live, ways) : ways \in {Ways(g, rank, r, live)}} : r \in g.nodes}

\* Representatives of a listing.
Representatives(rank, chains, dead) ==
    LET alike(w) == {v \in chains : v[1] = w[1] /\ v[Len(v)].on = w[Len(w)].on} IN
    {Class(w[1], w[Len(w)].on, dead, Cardinality(alike(w)), Least(rank, alike(w))) : w \in chains}

=============================================================================
