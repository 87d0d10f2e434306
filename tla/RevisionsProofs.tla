-------------------------- MODULE RevisionsProofs --------------------------
(***************************************************************************)
(* What the commands that read a model report, for every registry, every   *)
(* author and any number of edits.                                         *)
(***************************************************************************)
EXTENDS Revisions, EnumerationGraphProofs

-----------------------------------------------------------------------------
(* Dependencies.                                                           *)

\* The edge of d to its member t.
Edge(d, t) == [on |-> t, need |-> IF d.need > 0 THEN <<d.need, d.on>> ELSE <<>>, while |-> d.while]

\* An edge says which dependency it is of, up to the members of a dependency
\* that is no group.
LEMMA EdgeOf ==
    ASSUME NEW d, NEW t, NEW e, NEW u, Edge(d, t) = Edge(e, u)
    PROVE  /\ t = u /\ d.while = e.while
           /\ e.need > 0 => d.need > 0 /\ d.need = e.need /\ d.on = e.on
<1>1. t = u /\ d.while = e.while
  BY DEF Edge
<1>2. (IF d.need > 0 THEN <<d.need, d.on>> ELSE <<>>) = (IF e.need > 0 THEN <<e.need, e.on>> ELSE <<>>)
  BY DEF Edge
<1>3. \A x, y : <<x, y>> # <<>>
  OBVIOUS
<1>. QED  BY <1>1, <1>2, <1>3

\* Components with the same edges have the same dependencies: the targets,
\* the guards, and the groups with all their members.
LEMMA SameEdges ==
    ASSUME NEW a, NEW b, Edges(a) = Edges(b), NEW d \in Range(a.depends), NEW t \in Range(d.on)
    PROVE  \E e \in Range(b.depends) :
              /\ t \in Range(e.on) /\ d.while = e.while
              /\ e.need > 0 => d.need > 0 /\ d.need = e.need /\ d.on = e.on
<1>1. \A c : Edges(c) = UNION {{Edge(e, u) : u \in Range(e.on)} : e \in Range(c.depends)}
  BY DEF Edges, Edge
<1>2. Edge(d, t) \in Edges(b)
  BY <1>1
<1>3. PICK e \in Range(b.depends) : \E u \in Range(e.on) : Edge(d, t) = Edge(e, u)
  BY <1>1, <1>2
<1>. QED  BY <1>3, EdgeOf

-----------------------------------------------------------------------------
(* The failure graph.                                                      *)

\* Two revisions the failure graph does not tell apart: the same components
\* with the same edges and the same failures.
SameShape(m, k) ==
    /\ DOMAIN m = DOMAIN k
    /\ \A c \in DOMAIN m : /\ Edges(m[c]) = Edges(k[c])
                           /\ m[c].failures = k[c].failures /\ m[c].observes = k[c].observes

\* The order of the two does not matter.
LEMMA SameShapeIsSymmetric ==
    ASSUME NEW m, NEW k, SameShape(m, k) PROVE SameShape(k, m)
  BY DEF SameShape

\* A component that depends on another in one depends on it in the other.
LEMMA DependentAlike ==
    ASSUME NEW m, NEW k, SameShape(m, k), NEW d \in DOMAIN m, NEW c, Dependent(m, d, c)
    PROVE  Dependent(k, d, c)
<1>1. PICK i \in DOMAIN m[d].depends : c \in Range(m[d].depends[i].on)
  BY DEF Dependent
<1>2. m[d].depends[i] \in Range(m[d].depends)
  BY <1>1 DEF Range
<1>3. PICK e \in Range(k[d].depends) : c \in Range(e.on)
  BY <1>1, <1>2, SameEdges DEF SameShape
<1>. QED  BY <1>3 DEF Dependent, Range

\* A failure of root breaks a component through d.
Breaks(d, M, behind, root) ==
    LET hit == {j \in DOMAIN d.on : d.on[j] = root \/ (d.on[j] \in M /\ root \in behind[d.on[j]])}
    IN  d.need > 0 => Cardinality(hit) > Len(d.on) - d.need

\* Whether a failure reaches a dependent, dependency by dependency.
LEMMA PropagatesIs ==
    ASSUME NEW m, NEW behind, NEW root, NEW p, NEW c
    PROVE  Propagates(m, behind, root, p, c) <=>
              \E d \in Range(m[p].depends) : c \in Range(d.on) /\ Breaks(d, DOMAIN m, behind, root)
<1>1. Propagates(m, behind, root, p, c) <=>
         \E i \in DOMAIN m[p].depends :
             c \in Range(m[p].depends[i].on) /\ Breaks(m[p].depends[i], DOMAIN m, behind, root)
  BY Zenon DEF Propagates, Breaks
<1>2. Range(m[p].depends) = {m[p].depends[i] : i \in DOMAIN m[p].depends}
  BY DEF Range
<1>. QED  BY <1>1, <1>2

\* A group breaks in both or in neither.
LEMMA PropagatesAlike ==
    ASSUME NEW m, NEW k, SameShape(m, k), NEW behind, NEW root, NEW p \in DOMAIN m, NEW c,
           Propagates(m, behind, root, p, c)
    PROVE  Propagates(k, behind, root, p, c)
<1>1. PICK d \in Range(m[p].depends) : c \in Range(d.on) /\ Breaks(d, DOMAIN m, behind, root)
  BY PropagatesIs
<1>2. PICK e \in Range(k[p].depends) : /\ c \in Range(e.on)
                                       /\ e.need > 0 => d.need > 0 /\ d.need = e.need /\ d.on = e.on
  BY <1>1, SameEdges DEF SameShape
<1>3. Breaks(e, DOMAIN k, behind, root)
  <2>1. CASE e.need > 0
    <3>1. d.need > 0 /\ d.need = e.need /\ d.on = e.on /\ DOMAIN m = DOMAIN k
      BY <1>2, <2>1 DEF SameShape
    <3>. QED  BY <1>1, <3>1, Zenon DEF Breaks
  <2>2. CASE ~(e.need > 0)
    BY <2>2 DEF Breaks
  <2>. QED  BY <2>1, <2>2
<1>. QED  BY <1>2, <1>3, PropagatesIs

\* What is behind each component is the same.
LEMMA ClosureAlike ==
    ASSUME NEW m, NEW k, SameShape(m, k) PROVE Closure(m) = Closure(k)
<1>1. DOMAIN m = DOMAIN k /\ \A c, d \in DOMAIN m : Dependent(m, c, d) <=> Dependent(k, c, d)
  BY SameShapeIsSymmetric, DependentAlike DEF SameShape
<1>. QED  BY <1>1 DEF Closure

\* So is the graph over any closure.
LEMMA GraphAlike ==
    ASSUME NEW m, NEW k, SameShape(m, k), NEW behind PROVE GraphFrom(m, behind) = GraphFrom(k, behind)
<1>1. /\ DOMAIN m = DOMAIN k
      /\ \A c \in DOMAIN m : m[c].failures = k[c].failures /\ m[c].observes = k[c].observes
  BY DEF SameShape
<1>2. \A c, d \in DOMAIN m : Dependent(m, c, d) <=> Dependent(k, c, d)
  BY <1>1, SameShapeIsSymmetric, DependentAlike
<1>3. \A r, d, c \in DOMAIN m : Propagates(m, behind, r, d, c) <=> Propagates(k, behind, r, d, c)
  BY <1>1, SameShapeIsSymmetric, PropagatesAlike
<1> DEFINE nodes == UNION {{Node(c, s) : s \in m[c].failures} : c \in DOMAIN m}
           alsoNodes == UNION {{Node(c, s) : s \in k[c].failures} : c \in DOMAIN k}
           carried(x, r, c) == {d \in DOMAIN x : Dependent(x, d, c) /\ Propagates(x, behind, r, d, c)}
<1>4. nodes = alsoNodes
  BY <1>1
<1>5. \A r, c \in DOMAIN m : carried(m, r, c) = carried(k, r, c)
  BY <1>1, <1>2, <1>3
<1>6. ASSUME NEW n \in nodes PROVE n.on \in DOMAIN m /\ FailureAt(m, n) = FailureAt(k, n)
  <2>1. PICK c \in DOMAIN m : \E s \in m[c].failures : n = Node(c, s)
    OBVIOUS
  <2>2. n.on \in DOMAIN m
    BY <2>1 DEF Node
  <2>3. m[n.on].failures = k[n.on].failures
    BY <1>1, <2>2
  <2>. QED  BY <2>2, <2>3 DEF FailureAt
<1> DEFINE onward(x, ns, r, n) == {l \in ns : /\ l.on \in carried(x, r, n.on)
                                              /\ Matches(FailureAt(x, n).emits, FailureAt(x, l).triggeredBy)}
<1>7. ASSUME NEW r \in DOMAIN m, NEW n \in nodes PROVE onward(m, nodes, r, n) = onward(k, nodes, r, n)
  <2>1. n.on \in DOMAIN m /\ FailureAt(m, n) = FailureAt(k, n)
    BY <1>6
  <2>2. carried(m, r, n.on) = carried(k, r, n.on)
    BY <1>5, <2>1
  <2>3. \A l \in nodes : FailureAt(m, l) = FailureAt(k, l)
    BY <1>6
  <2> HIDE DEF carried, nodes
  <2>. QED  BY <2>1, <2>2, <2>3
<1> DEFINE graph(x, ns) ==
              [nodes      |-> ns,
               components |-> DOMAIN x,
               observes   |-> {c \in DOMAIN x : x[c].observes},
               dependents |-> [c \in DOMAIN x |-> {d \in DOMAIN x : Dependent(x, d, c)}],
               carried    |-> [r \in DOMAIN x |-> [c \in DOMAIN x |-> carried(x, r, c)]],
               next       |-> [r \in DOMAIN x |-> [n \in ns |-> onward(x, ns, r, n)]]]
<1>8. GraphFrom(m, behind) = graph(m, nodes) /\ GraphFrom(k, behind) = graph(k, alsoNodes)
  BY Zenon DEF GraphFrom
<1>9. /\ {c \in DOMAIN m : m[c].observes} = {c \in DOMAIN k : k[c].observes}
      /\ [c \in DOMAIN m |-> {d \in DOMAIN m : Dependent(m, d, c)}] =
            [c \in DOMAIN k |-> {d \in DOMAIN k : Dependent(k, d, c)}]
  BY <1>1, <1>2
<1>10. /\ [r \in DOMAIN m |-> [c \in DOMAIN m |-> carried(m, r, c)]] =
             [r \in DOMAIN k |-> [c \in DOMAIN k |-> carried(k, r, c)]]
       /\ [r \in DOMAIN m |-> [n \in nodes |-> onward(m, nodes, r, n)]] =
             [r \in DOMAIN k |-> [n \in nodes |-> onward(k, nodes, r, n)]]
  <2> HIDE DEF carried, nodes, onward
  <2>. QED  BY <1>1, <1>5, <1>7
<1> HIDE DEF carried, nodes, onward, alsoNodes
<1>11. graph(m, nodes) = graph(k, nodes)
  BY <1>1, <1>9, <1>10
<1>12. graph(k, nodes) = graph(k, alsoNodes)
  BY <1>4
<1> HIDE DEF graph
<1>. QED  BY <1>8, <1>11, <1>12

-----------------------------------------------------------------------------
(* Compare.                                                                *)

\* What the graph reads of a component but its dependencies hangs on its type
\* and on its own states, healthy_in and failure_modes.
LEMMA ProjectedAlike ==
    ASSUME NEW a, NEW b, a.type = b.type, OwnWord(a) = OwnWord(b)
    PROVE  /\ Projected(a).depends = a.depends
           /\ Projected(a).failures = Projected(b).failures
           /\ Projected(a).observes = Projected(b).observes
<1>1. ResolvedAs(a) = ResolvedAs(b)
  BY DEF ResolvedAs
<1>2. a.states = b.states /\ a.healthyIn = b.healthyIn /\ a.causes = b.causes
  BY DEF OwnWord
<1>3. \A t : ResolveType(a, t) = ResolveType(b, t)
  BY <1>2 DEF ResolveType
<1>4. \A c : Projected(c) =
         IF Resolved(c)
           THEN [depends  |-> c.depends,
                 failures |-> FailureModes(ResolveType(c, TypeOf(c))),
                 observes |-> TypeOf(c).facts # {}]
           ELSE [depends |-> c.depends, failures |-> {}, observes |-> FALSE]
  BY DEF Projected
<1>5. (Resolved(a) <=> Resolved(b)) /\ TypeOf(a) = TypeOf(b)
  BY <1>1 DEF Resolved, TypeOf
<1>6. ResolveType(a, TypeOf(a)) = ResolveType(b, TypeOf(b))
  BY <1>3, <1>5
<1>. QED  BY <1>4, <1>5, <1>6

\* Input is as the revision is.
LEMMA InputAlike ==
    ASSUME NEW a, NEW b, DOMAIN a = DOMAIN b,
           \A n \in DOMAIN a : /\ a[n].type = b[n].type /\ OwnWord(a[n]) = OwnWord(b[n])
                               /\ Edges(a[n]) = Edges(b[n])
    PROVE  SameShape(Input(a), Input(b))
<1>1. DOMAIN Input(a) = DOMAIN a /\ DOMAIN Input(b) = DOMAIN a
  BY DEF Input
<1>2. ASSUME NEW n \in DOMAIN a
      PROVE  /\ Edges(Input(a)[n]) = Edges(Input(b)[n])
             /\ Input(a)[n].failures = Input(b)[n].failures
             /\ Input(a)[n].observes = Input(b)[n].observes
  <2>1. Input(a)[n] = Projected(a[n]) /\ Input(b)[n] = Projected(b[n])
    BY <1>2 DEF Input
  <2>2. /\ Projected(a[n]).depends = a[n].depends /\ Projected(b[n]).depends = b[n].depends
        /\ Projected(a[n]).failures = Projected(b[n]).failures
        /\ Projected(a[n]).observes = Projected(b[n]).observes
    BY ProjectedAlike
  <2>3. \A c, d : c.depends = d.depends => Edges(c) = Edges(d)
    BY DEF Edges
  <2>. QED  BY <2>1, <2>2, <2>3
<1>. QED  BY <1>1, <1>2 DEF SameShape

\* Revisions of one shape have one failure graph.
LEMMA SameGraph ==
    ASSUME NEW a, NEW b, SameShape(Input(a), Input(b)) PROVE GraphOf(a) = GraphOf(b)
<1>1. \A m : BuildGraph(m) = GraphFrom(m, Closure(m))
  BY DEF BuildGraph, The
<1>2. \A m : GraphOf(m) = BuildGraph(Input(m))
  BY DEF GraphOf, The
<1>. QED  BY <1>1, <1>2, ClosureAlike, GraphAlike

\* Dependencies with the same edges are open under the same guards.
LEMMA OpenAlike ==
    ASSUME NEW a, NEW b, Edges(a) = Edges(b), NEW up PROVE OpenWhile(a, up) \subseteq OpenWhile(b, up)
<1>. SUFFICES ASSUME NEW d \in Range(a.depends), d.while \in up \cup {NoGuard}, NEW t \in Range(d.on)
              PROVE  t \in OpenWhile(b, up)
  BY DEF OpenWhile
<1>1. PICK e \in Range(b.depends) : t \in Range(e.on) /\ d.while = e.while
  BY SameEdges
<1>. QED  BY <1>1 DEF OpenWhile

-----------------------------------------------------------------------------
(* The commands.                                                           *)

\* A report of a comparison is about the two revisions there are.
DiffInv == Is("diff") => \E was, now : report = Compare(old, new, was, now)

\* A report is withdrawn whenever either revision changes.
LEMMA NextDiff == DiffInv /\ [Next]_vars => DiffInv'
<1>. SUFFICES ASSUME DiffInv, [Next]_vars PROVE DiffInv'
  OBVIOUS
<1>1. CASE Read \/ ModelValidate \/ ModelImpact \/ ListClasses
  BY <1>1 DEF Read, ModelValidate, ModelImpact, ListClasses, DiffInv, Is, NoReport
<1>2. CASE Write \/ Delete \/ Commit
  BY <1>2 DEF Write, Delete, Commit, DiffInv, Is, NoReport
<1>3. CASE ModelDiff
  BY <1>3 DEF ModelDiff, DiffInv
<1>4. CASE UNCHANGED vars
  BY <1>4 DEF vars, DiffInv, Is
<1>. QED  BY <1>1, <1>2, <1>3, <1>4 DEF Next

\* When `mgtt model diff` finds no difference, and no component's own states
\* changed, there is none: the two revisions have the same failure graph, so
\* the same chains, judge health alike and open the same dependencies under
\* the same guards.
THEOREM DiffIsHonest == Spec => []NoDifferenceIsNone
<1>1. Init => DiffInv
  BY DEF Init, DiffInv, Is, NoReport
<1>2. ASSUME DiffInv PROVE NoDifferenceIsNone
  <2>. SUFFICES ASSUME Is("diff"), Empty(report), \A n \in DOMAIN old : OwnWord(old[n]) = OwnWord(new[n])
                PROVE  /\ \A was \in {GraphOf(old)}, now \in {GraphOf(new)} : Expand(was) = Expand(now)
                       /\ \A n \in DOMAIN old :
                             LET guards == {d.while : d \in Range(old[n].depends \o new[n].depends)} IN
                             /\ HealthyRules(old[n]) = HealthyRules(new[n])
                             /\ \A up \in SUBSET guards : OpenWhile(old[n], up) = OpenWhile(new[n], up)
    BY DEF NoDifferenceIsNone
  <2>1. PICK was, now : report = Compare(old, new, was, now)
    BY <1>2 DEF DiffInv
  <2>2. /\ DOMAIN new \ DOMAIN old = {} /\ DOMAIN old \ DOMAIN new = {}
        /\ UNION {{<<n, x>> : x \in ComponentChanges(old[n], new[n])} : n \in DOMAIN old \cap DOMAIN new} = {}
    BY <2>1 DEF Compare, Empty
  <2>3. DOMAIN old = DOMAIN new
    BY <2>2
  <2>4. ASSUME NEW n \in DOMAIN old PROVE ComponentChanges(old[n], new[n]) = {}
    <3>1. {<<n, x>> : x \in ComponentChanges(old[n], new[n])} = {}
      BY <2>2, <2>3
    <3>. QED  BY <3>1
  <2>5. ASSUME NEW n \in DOMAIN old
        PROVE  /\ old[n].type = new[n].type /\ Edges(old[n]) = Edges(new[n])
               /\ HealthyRules(old[n]) = HealthyRules(new[n])
    <3> DEFINE a == old[n]
               b == new[n]
    <3>1. ComponentChanges(a, b) = {}
      BY <2>4
    <3> HIDE DEF a, b
    <3>2. /\ {k \in {"type", "resource", "vars"} : a[k] # b[k]} = {}
          /\ SymDiff(Edges(a), Edges(b)) = {} /\ SymDiff(HealthyRules(a), HealthyRules(b)) = {}
      BY <3>1 DEF ComponentChanges
    <3>3. \A S, T : SymDiff(S, T) = {} => S = T
      BY DEF SymDiff
    <3>4. a["type"] = b["type"]
      BY <3>2
    <3>5. a.type = b.type /\ Edges(a) = Edges(b) /\ HealthyRules(a) = HealthyRules(b)
      BY <3>2, <3>3, <3>4
    <3>. QED  BY <3>5 DEF a, b
  <2>6. GraphOf(old) = GraphOf(new)
    BY <2>3, <2>5, InputAlike, SameGraph
  <2>7. ASSUME NEW n \in DOMAIN old, NEW up PROVE OpenWhile(old[n], up) = OpenWhile(new[n], up)
    <3>1. Edges(old[n]) = Edges(new[n])
      BY <2>5
    <3>2. OpenWhile(old[n], up) \subseteq OpenWhile(new[n], up) /\ OpenWhile(new[n], up) \subseteq OpenWhile(old[n], up)
      BY <3>1, OpenAlike
    <3>. QED  BY <3>2
  <2>. QED  BY <2>5, <2>6, <2>7
<1>. QED  BY <1>1, <1>2, NextDiff, PTL DEF Spec

-----------------------------------------------------------------------------
(* A recursion of so many steps.                                           *)

\* What N steps from base lead to, step by step.
Iterates(f, N, S, base, step) ==
    /\ f \in [0..N -> S] /\ f[0] = base
    /\ \A n \in 1..N : f[n] = step[<<n, f[n - 1]>>]

\* A recursion from 0 to N has a solution.
LEMMA Iterated ==
    ASSUME NEW N \in Nat, NEW S, NEW base \in S, NEW step \in [(1..N) \X S -> S]
    PROVE  \E f : Iterates(f, N, S, base, step)
<1> DEFINE T == {n \in 0..N : \E f : Iterates(f, n, S, base, step)}
<1>1. 0 \in T
  <2>1. Iterates([i \in 0..0 |-> base], 0, S, base, step)
    BY DEF Iterates
  <2>. QED  BY <2>1
<1>2. ASSUME NEW n \in 1..N, n - 1 \in T PROVE n \in T
  <2>1. PICK f : Iterates(f, n - 1, S, base, step)
    BY <1>2
  <2> DEFINE g == [k \in 0..n |-> IF k = n THEN step[<<n, f[n - 1]>>] ELSE f[k]]
  <2>2. f \in [0..(n - 1) -> S] /\ f[n - 1] \in S /\ step[<<n, f[n - 1]>>] \in S
    BY <2>1 DEF Iterates
  <2>3. g \in [0..n -> S] /\ g[0] = base
    BY <2>1, <2>2 DEF Iterates
  <2>4. ASSUME NEW k \in 1..n PROVE g[k] = step[<<k, g[k - 1]>>]
    <3>1. k - 1 \in 0..n /\ k - 1 # n /\ g[k - 1] = f[k - 1] /\ (k = n \/ k \in 1..(n - 1))
      OBVIOUS
    <3>2. g[k] = IF k = n THEN step[<<n, f[n - 1]>>] ELSE f[k]
      OBVIOUS
    <3> HIDE DEF g
    <3>3. CASE k = n
      BY <3>1, <3>2, <3>3
    <3>4. CASE k \in 1..(n - 1)
      BY <2>1, <3>1, <3>2, <3>4 DEF Iterates
    <3>. QED  BY <3>1, <3>3, <3>4
  <2>5. Iterates(g, n, S, base, step)
    <3> HIDE DEF g
    <3>. QED  BY <2>3, <2>4 DEF Iterates
  <2>. QED  BY <2>5
<1> HIDE DEF T
<1>3. N \in T
  BY <1>1, <1>2, InductionTo
<1>. QED  BY <1>3 DEF T

-----------------------------------------------------------------------------
(* Sequences.                                                              *)

\* What a sequence of sequences flattens to.
LEMMA Flattened ==
    ASSUME NEW X, NEW s \in Seq(Seq(X))
    PROVE  /\ FlattenSeq(s) \in Seq(X)
           /\ Range(FlattenSeq(s)) = UNION {Range(s[i]) : i \in DOMAIN s}
<1>. DEFINE N == Len(s)
            step == [a \in (1..N) \X Seq(X) |-> IF a[1] = 1 THEN s[a[1]] ELSE a[2] \o s[a[1]]]
            sol(f) == f = [i \in 1..N |-> IF i = 1 THEN s[i] ELSE f[i - 1] \o s[i]]
<1>0. N \in Nat /\ DOMAIN s = 1..N /\ \A i \in 1..N : s[i] \in Seq(X)
  OBVIOUS
<1>1. CASE N = 0
  BY <1>0, <1>1 DEF FlattenSeq, Range
<1>3. FlattenSeq(s) = IF N = 0 THEN s ELSE (CHOOSE f : sol(f))[N]
  BY Zenon DEF FlattenSeq
<1>4. N \in Nat
  OBVIOUS
<1> HIDE DEF N
<1>2. CASE N # 0
  <2>1. step \in [(1..N) \X Seq(X) -> Seq(X)] /\ <<>> \in Seq(X)
    BY <1>0
  <2>2. PICK h : Iterates(h, N, Seq(X), <<>>, step)
    <3> HIDE DEF step
    <3>. QED  BY <1>0, <2>1, Iterated
  <2> DEFINE f0 == [i \in 1..N |-> h[i]]
  <2>3. sol(f0)
    <3>1. ASSUME NEW i \in 1..N PROVE h[i] = IF i = 1 THEN s[i] ELSE h[i - 1] \o s[i]
      <4>1. h[i] = step[<<i, h[i - 1]>>]
        BY <2>2 DEF Iterates
      <4>2. h[i - 1] \in Seq(X)
        <5>1. h \in [0..N -> Seq(X)] /\ i - 1 \in 0..N
          BY <1>0, <2>2 DEF Iterates
        <5>. QED  BY <5>1
      <4>3. TRUE
        BY <1>0, <2>2 DEF Iterates
      <4>. QED  BY <4>1, <4>2
    <3>2. ASSUME NEW i \in 1..N PROVE f0[i] = IF i = 1 THEN s[i] ELSE f0[i - 1] \o s[i]
      <4>1. CASE i = 1
        BY <3>1, <4>1
      <4>2. CASE i # 1
        <5>1. i - 1 \in 1..N
          BY <1>0, <4>2
        <5>. QED  BY <3>1, <4>2, <5>1
      <4>. QED  BY <4>1, <4>2
    <3> HIDE DEF f0
    <3>3. f0 = [i \in 1..N |-> f0[i]]
      BY DEF f0
    <3>. QED  BY <3>2, <3>3
  <2> DEFINE u == CHOOSE f : sol(f)
  <2>4. sol(u)
    <3> HIDE DEF sol, f0
    <3>. QED  BY <2>3
  <2>5. FlattenSeq(s) = u[N]
    BY <1>2, <1>3
  <2> HIDE DEF u
  <2> DEFINE T == {n \in 0..N : n > 0 => /\ u[n] \in Seq(X)
                                         /\ Range(u[n]) = UNION {Range(s[i]) : i \in 1..n}}
  <2>6. 0 \in T
    BY <1>0
  <2>7. ASSUME NEW n \in 1..N, n - 1 \in T PROVE n \in T
    <3>1. u[n] = IF n = 1 THEN s[n] ELSE u[n - 1] \o s[n]
      BY <2>4
    <3>2. CASE n = 1
      <4>1. u[n] = s[1] /\ s[1] \in Seq(X)
        BY <1>0, <3>1, <3>2
      <4>2. UNION {Range(s[i]) : i \in 1..1} = Range(s[1])
        OBVIOUS
      <4>3. u[n] \in Seq(X) /\ Range(u[n]) = UNION {Range(s[i]) : i \in 1..n}
        BY <3>2, <4>1, <4>2
      <4>. QED  BY <1>4, <4>3
    <3>3. CASE n # 1
      <4>1. u[n] = u[n - 1] \o s[n] /\ u[n - 1] \in Seq(X) /\ s[n] \in Seq(X)
            /\ Range(u[n - 1]) = UNION {Range(s[i]) : i \in 1..(n - 1)}
        BY <1>0, <2>7, <3>1, <3>3
      <4>2. Range(u[n]) = Range(u[n - 1]) \cup Range(s[n])
        BY <4>1, RangeConcatenation
      <4>3. 1..n = 1..(n - 1) \cup {n}
        OBVIOUS
      <4>4. UNION {Range(s[i]) : i \in 1..n} = (UNION {Range(s[i]) : i \in 1..(n - 1)}) \cup Range(s[n])
        BY <4>3
      <4>5. u[n] \in Seq(X) /\ Range(u[n]) = UNION {Range(s[i]) : i \in 1..n}
        BY <4>1, <4>2, <4>4
      <4>. QED  BY <1>4, <4>5
    <3>. QED  BY <3>2, <3>3
  <2> HIDE DEF T
  <2>8. N \in T
    <3>1. \A n \in 0..N : n \in T
      BY <1>4, <2>6, <2>7, InductionTo
    <3>. QED  BY <1>4, <3>1
  <2>. QED  BY <1>0, <1>2, <2>5, <2>8 DEF T
<1>. QED  BY <1>1, <1>2

\* Where the search may stand.
DfsStates == [stack : Seq(Names), black : SUBSET Names, cycle : Seq(Names)]

\* What one turn does.
Pops(adj, d, e) ==
    /\ Range(adj[Last(d.stack)]) \subseteq d.black
    /\ e = [d EXCEPT !.stack = Front(@), !.black = @ \cup {Last(d.stack)}]

Closes(adj, d, e) ==
    \E i \in DOMAIN d.stack :
        /\ d.stack[i] \in Range(adj[Last(d.stack)])
        /\ e = [d EXCEPT !.cycle = Append(SubSeq(d.stack, i, Len(d.stack)), d.stack[i])]

Pushes(adj, d, e) ==
    \E k \in Range(adj[Last(d.stack)]) :
        /\ k \notin d.black \cup Range(d.stack)
        /\ e = [d EXCEPT !.stack = Append(@, k)]

Starts(names, d, e) ==
    \E k \in names : k \notin d.black /\ e = [d EXCEPT !.stack = <<k>>]

DfsMoves(adj, names, d, e) ==
    \/ d.cycle # <<>> /\ e = d
    \/ d.cycle = <<>> /\ d.stack # <<>> /\ (Pops(adj, d, e) \/ Closes(adj, d, e) \/ Pushes(adj, d, e))
    \/ d.cycle = <<>> /\ d.stack = <<>> /\ names \subseteq d.black /\ e = d
    \/ d.cycle = <<>> /\ d.stack = <<>> /\ Starts(names, d, e)

\* A turn of the search moves as one of the four.
LEMMA DfsTurnMoves ==
    ASSUME Order \in Seq(Names), NEW adj \in [Names -> Seq(Names)], NEW names \in SUBSET Names, NEW d \in DfsStates
    PROVE  DfsMoves(adj, names, d, DfsTurn(adj, names, d))
<1>1. CASE d.cycle # <<>>
  BY <1>1 DEF DfsTurn, DfsMoves
<1>2. CASE d.cycle = <<>> /\ d.stack # <<>>
  <2> DEFINE node == Last(d.stack)
             s == adj[node]
             open == {i \in DOMAIN s : s[i] \notin d.black}
             next == s[Min(open)]
             at == {i \in DOMAIN d.stack : d.stack[i] = next}
  <2>1. node \in Names /\ s \in Seq(Names)
    BY <1>2 DEF DfsStates, Last
  <2>2. DfsTurn(adj, names, d) = DfsStep(adj, d)
    BY <1>2 DEF DfsTurn
  <2>3. DfsStep(adj, d) =
          IF open = {} THEN [d EXCEPT !.stack = Front(@), !.black = @ \cup {node}]
          ELSE IF next \in Range(d.stack)
            THEN [d EXCEPT !.cycle = Append(SubSeq(d.stack, Min(at), Len(d.stack)), next)]
          ELSE [d EXCEPT !.stack = Append(@, next)]
    BY Zenon DEF DfsStep
  <2>4. CASE open = {}
    <3>1. Range(s) \subseteq d.black
      BY <2>4 DEF Range
    <3>. QED  BY <1>2, <2>2, <2>3, <2>4, <3>1 DEF DfsMoves, Pops
  <2>5. CASE open # {}
    <3>1. open \in SUBSET Nat
      BY <2>1
    <3>2. Min(open) \in open
      <4> HIDE DEF open
      <4>. QED  BY <2>5, <3>1, LeastOf
    <3>3. next \in Range(s) /\ next \notin d.black
      BY <3>2 DEF Range
    <3>4. CASE next \in Range(d.stack)
      <4>0. d.stack \in Seq(Names)
        BY DEF DfsStates
      <4>1. at \in SUBSET Nat /\ at # {}
        <5> HIDE DEF next
        <5>. QED  BY <3>4, <4>0 DEF Range
      <4>2. Min(at) \in at
        <5> HIDE DEF at
        <5>. QED  BY <4>1, LeastOf
      <4>3. Min(at) \in DOMAIN d.stack /\ d.stack[Min(at)] = next
        BY <4>2
      <4>4. DfsTurn(adj, names, d) = [d EXCEPT !.cycle = Append(SubSeq(d.stack, Min(at), Len(d.stack)), d.stack[Min(at)])]
        BY <2>2, <2>3, <2>5, <3>4, <4>3
      <4> HIDE DEF at, next, open
      <4>5. Closes(adj, d, DfsTurn(adj, names, d))
        BY <3>3, <4>3, <4>4 DEF Closes
      <4>. QED  BY <1>2, <4>5 DEF DfsMoves
    <3>5. CASE next \notin Range(d.stack)
      <4> HIDE DEF at, next, open
      <4>1. Pushes(adj, d, DfsTurn(adj, names, d))
        BY <2>2, <2>3, <2>5, <3>3, <3>5 DEF Pushes
      <4>. QED  BY <1>2, <4>1 DEF DfsMoves
    <3>. QED  BY <3>4, <3>5
  <2>. QED  BY <2>4, <2>5
<1>3. CASE d.cycle = <<>> /\ d.stack = <<>>
  <2> DEFINE white == {i \in DOMAIN Order : Order[i] \in names \ d.black}
  <2>1. DfsTurn(adj, names, d) = IF white # {} THEN [d EXCEPT !.stack = <<Order[Min(white)]>>] ELSE d
    BY <1>3 DEF DfsTurn
  <2>2. CASE white = {}
    <3>1. names \subseteq d.black
      BY <2>2 DEF Names, Range
    <3>. QED  BY <1>3, <2>1, <2>2, <3>1 DEF DfsMoves
  <2>3. CASE white # {}
    <3>1. white \in SUBSET Nat
      OBVIOUS
    <3>2. Min(white) \in white
      <4> HIDE DEF white
      <4>. QED  BY <2>3, <3>1, LeastOf
    <3>. QED  BY <1>3, <2>1, <2>3, <3>2 DEF DfsMoves, Starts
  <2>. QED  BY <2>2, <2>3
<1>. QED  BY <1>1, <1>2, <1>3

-----------------------------------------------------------------------------
(* The search for a cycle.                                                 *)

IsCycle(adj, c) ==
    /\ Len(c) > 1 /\ c[1] = Last(c)
    /\ \A i \in 1..(Len(c) - 1) : c[i + 1] \in Range(adj[c[i]])

\* The stack is a path of different names.
IsPath(adj, s) ==
    /\ \A i, j \in DOMAIN s : s[i] = s[j] => i = j
    /\ \A i \in 1..(Len(s) - 1) : s[i + 1] \in Range(adj[s[i]])

\* S holds all that is behind x, and not x.
Fences(adj, x, S) ==
    x \notin S /\ Range(adj[x]) \subseteq S /\ \A y \in S : Range(adj[y]) \subseteq S

DfsInv(adj, d) ==
    /\ d \in DfsStates
    /\ IsPath(adj, d.stack)
    /\ Range(d.stack) \cap d.black = {}
    /\ \A x \in d.black : Range(adj[x]) \subseteq d.black
    /\ \A x \in d.black : \E S \in SUBSET d.black : Fences(adj, x, S)
    /\ d.cycle # <<>> => IsCycle(adj, d.cycle)

\* A turn keeps what is known of the search: the stack is a path, what is black
\* is closed, and a cycle that was found is one.
LEMMA DfsKeeps ==
    ASSUME NEW adj \in [Names -> Seq(Names)], NEW names \in SUBSET Names, NEW d, DfsInv(adj, d),
           NEW e, DfsMoves(adj, names, d, e)
    PROVE  DfsInv(adj, e)
<1>0. /\ d.stack \in Seq(Names) /\ d.black \in SUBSET Names /\ d.cycle \in Seq(Names)
      /\ d = [stack |-> d.stack, black |-> d.black, cycle |-> d.cycle]
  BY DEF DfsInv, DfsStates
<1>1. CASE e = d
  BY <1>1
<1> DEFINE rec(s, b, c) == [stack |-> s, black |-> b, cycle |-> c]
<1>2. CASE d.cycle = <<>> /\ d.stack # <<>> /\ Pops(adj, d, e)
  <2> DEFINE node == Last(d.stack)
  <2>1. e = rec(Front(d.stack), d.black \cup {node}, d.cycle) /\ Range(adj[node]) \subseteq d.black
    BY <1>0, <1>2 DEF Pops
  <2>2. e.stack = Front(d.stack) /\ e.black = d.black \cup {node} /\ e.cycle = <<>>
    BY <1>2, <2>1
  <2>3. /\ Front(d.stack) \in Seq(Names) /\ Len(Front(d.stack)) = Len(d.stack) - 1 /\ node \in Names
        /\ \A i \in 1..(Len(d.stack) - 1) : Front(d.stack)[i] = d.stack[i]
        /\ Range(d.stack) = Range(Front(d.stack)) \cup {node}
        /\ node \notin Range(Front(d.stack))
        /\ Len(d.stack) \in Nat /\ DOMAIN d.stack = 1..Len(d.stack)
        /\ DOMAIN Front(d.stack) = 1..(Len(d.stack) - 1)
    <3>1. d.stack \in Seq(Names) /\ d.stack # <<>> /\ \A i, j \in DOMAIN d.stack : d.stack[i] = d.stack[j] => i = j
      BY <1>0, <1>2 DEF DfsInv, IsPath
    <3>2. /\ Front(d.stack) \in Seq(Names) /\ Len(Front(d.stack)) = Len(d.stack) - 1 /\ node \in Names
          /\ \A i \in 1..(Len(d.stack) - 1) : Front(d.stack)[i] = d.stack[i]
          /\ Range(d.stack) = Range(Front(d.stack)) \cup {node}
          /\ node \notin Range(Front(d.stack))
      BY <3>1, FrontOf
    <3>3. Len(d.stack) \in Nat /\ DOMAIN d.stack = 1..Len(d.stack)
      BY <3>1
    <3>4. DOMAIN Front(d.stack) = 1..(Len(d.stack) - 1)
      <4>1. DOMAIN Front(d.stack) = 1..Len(Front(d.stack))
        BY <3>2
      <4>. QED  BY <3>2, <4>1
    <3>. QED  BY <3>2, <3>3, <3>4
  <2>4. e \in DfsStates
    BY <1>0, <2>1, <2>3 DEF DfsStates
  <2>5. IsPath(adj, e.stack)
    <3>1. ASSUME NEW i \in 1..(Len(d.stack) - 2) PROVE e.stack[i + 1] \in Range(adj[e.stack[i]])
      <4>1. i \in 1..(Len(d.stack) - 1) /\ i + 1 \in 1..(Len(d.stack) - 1)
        BY <2>3
      <4>2. e.stack[i] = d.stack[i] /\ e.stack[i + 1] = d.stack[i + 1]
        BY <2>2, <2>3, <4>1
      <4>. QED  BY <4>1, <4>2 DEF DfsInv, IsPath
    <3>2. ASSUME NEW i \in DOMAIN e.stack, NEW j \in DOMAIN e.stack, e.stack[i] = e.stack[j] PROVE i = j
      <4>1. i \in 1..(Len(d.stack) - 1) /\ j \in 1..(Len(d.stack) - 1)
        BY <2>2, <2>3
      <4>2. d.stack[i] = d.stack[j] /\ i \in DOMAIN d.stack /\ j \in DOMAIN d.stack
        <5>1. i \in 1..Len(d.stack) /\ j \in 1..Len(d.stack)
          BY <2>3, <4>1
        <5>2. e.stack[i] = d.stack[i] /\ e.stack[j] = d.stack[j]
          BY <2>2, <2>3, <4>1
        <5>. QED  BY <2>3, <3>2, <5>1, <5>2
      <4>. QED  BY <4>2 DEF DfsInv, IsPath
    <3>3. Len(e.stack) - 1 = Len(d.stack) - 2
      BY <2>2, <2>3
    <3>. QED  BY <3>1, <3>2, <3>3 DEF IsPath
  <2>6. Range(e.stack) \cap e.black = {}
    BY <2>2, <2>3 DEF DfsInv
  <2>7. \A x \in e.black : Range(adj[x]) \subseteq e.black
    BY <2>1, <2>2 DEF DfsInv
  <2>8. ASSUME NEW x \in e.black PROVE \E S \in SUBSET e.black : Fences(adj, x, S)
    <3>1. CASE x = node
      <4>1. node \notin d.black
        BY <2>3 DEF DfsInv
      <4>2. Fences(adj, node, d.black)
        BY <2>1, <4>1 DEF Fences, DfsInv
      <4>. QED  BY <2>2, <3>1, <4>2
    <3>2. CASE x \in d.black
      BY <2>2, <3>2 DEF DfsInv
    <3>. QED  BY <2>2, <3>1, <3>2
  <2>. QED  BY <2>2, <2>4, <2>5, <2>6, <2>7, <2>8 DEF DfsInv
<1>3. CASE d.cycle = <<>> /\ d.stack # <<>> /\ Closes(adj, d, e)
  <2>1. PICK i \in DOMAIN d.stack :
           /\ d.stack[i] \in Range(adj[Last(d.stack)])
           /\ e = [d EXCEPT !.cycle = Append(SubSeq(d.stack, i, Len(d.stack)), d.stack[i])]
    BY <1>3 DEF Closes
  <2> DEFINE n == Len(d.stack)
             s == SubSeq(d.stack, i, n)
             c == Append(s, d.stack[i])
  <2>2. e = rec(d.stack, d.black, c)
    BY <1>0, <2>1
  <2>3. n \in Nat /\ i \in 1..n /\ DOMAIN d.stack = 1..n /\ d.stack[i] \in Names
    BY <1>0
  <2>4. s \in Seq(Names) /\ Len(s) = n - i + 1 /\ \A k \in 1..(n - i + 1) : s[k] = d.stack[i + k - 1]
    BY <1>0, <2>3, RestOf
  <2>5. /\ c \in Seq(Names) /\ Len(c) = n - i + 2 /\ Last(c) = d.stack[i]
        /\ \A k \in 1..(n - i + 1) : c[k] = d.stack[i + k - 1]
        /\ c[n - i + 2] = d.stack[i]
    <3> HIDE DEF s
    <3>1. Len(s) \in Nat /\ n - i + 1 \in Nat /\ Len(s) + 1 = n - i + 2 /\ 1..(n - i + 1) = 1..Len(s)
      BY <2>3, <2>4
    <3>2. /\ c \in Seq(Names) /\ Len(c) = Len(s) + 1 /\ Last(c) = d.stack[i]
          /\ \A k \in 1..Len(s) : c[k] = s[k]
          /\ c[Len(s) + 1] = d.stack[i]
      BY <2>3, <2>4, AppendOf
    <3> HIDE DEF c
    <3>3. \A k \in 1..(n - i + 1) : c[k] = d.stack[i + k - 1]
      BY <2>4, <3>1, <3>2
    <3>. QED  BY <3>1, <3>2, <3>3
  <2> HIDE DEF c, s
  <2>6. IsCycle(adj, c)
    <3>1. Len(c) > 1 /\ c[1] = Last(c)
      <4>1. 1 \in 1..(n - i + 1) /\ i + 1 - 1 = i
        BY <2>3
      <4>2. c[1] = d.stack[i]
        BY <2>5, <4>1
      <4>3. Len(c) > 1
        <5> HIDE DEF n
        <5>. QED  BY <2>3, <2>5
      <4>. QED  BY <2>5, <4>2, <4>3
    <3>2. ASSUME NEW k \in 1..(Len(c) - 1) PROVE c[k + 1] \in Range(adj[c[k]])
      <4>1. k \in 1..(n - i + 1) /\ c[k] = d.stack[i + k - 1] /\ i + k - 1 \in 1..n
        <5>1. k \in 1..(n - i + 1)
          BY <2>3, <2>5
        <5>2. i + k - 1 \in 1..n
          BY <2>3, <5>1
        <5>. QED  BY <2>5, <5>1, <5>2
      <4>2. CASE k = n - i + 1
        <5>1. c[k + 1] = d.stack[i] /\ c[k] = d.stack[n]
          <6>1. k + 1 = n - i + 2 /\ i + k - 1 = n
            <7> HIDE DEF n
            <7>. QED  BY <2>3, <4>2
          <6>. QED  BY <2>5, <4>1, <6>1
        <5>. QED  BY <2>1, <5>1 DEF Last
      <4>3. CASE k \in 1..(n - i)
        <5>1. c[k + 1] = d.stack[(i + k - 1) + 1] /\ i + k - 1 \in 1..(n - 1)
          <6>1. k + 1 \in 1..(n - i + 1) /\ i + (k + 1) - 1 = (i + k - 1) + 1 /\ i + k - 1 \in 1..(n - 1)
            <7> HIDE DEF n
            <7>. QED  BY <2>3, <4>3
          <6>2. c[k + 1] = d.stack[i + (k + 1) - 1]
            BY <2>5, <6>1
          <6>. QED  BY <6>1, <6>2
        <5>. QED  BY <4>1, <5>1 DEF DfsInv, IsPath
      <4>. QED  BY <2>3, <4>1, <4>2, <4>3
    <3>. QED  BY <3>1, <3>2 DEF IsCycle
  <2>7. e.stack = d.stack /\ e.black = d.black /\ e.cycle = c /\ e \in DfsStates
    BY <1>0, <2>2, <2>5 DEF DfsStates
  <2>. QED  BY <2>6, <2>7 DEF DfsInv
<1>4. CASE d.cycle = <<>> /\ d.stack # <<>> /\ Pushes(adj, d, e)
  <2>1. PICK k \in Range(adj[Last(d.stack)]) : k \notin d.black \cup Range(d.stack) /\ e = [d EXCEPT !.stack = Append(@, k)]
    BY <1>4 DEF Pushes
  <2> DEFINE n == Len(d.stack)
             s == Append(d.stack, k)
  <2>2. e = rec(s, d.black, d.cycle)
    BY <1>0, <2>1
  <2>3. n \in Nat /\ n > 0 /\ DOMAIN d.stack = 1..n /\ Last(d.stack) \in Names /\ Last(d.stack) = d.stack[n]
    BY <1>0, <1>4 DEF Last
  <2>4. k \in Names
    BY <2>1, <2>3 DEF Range
  <2>5. /\ s \in Seq(Names) /\ Len(s) = n + 1 /\ Range(s) = Range(d.stack) \cup {k} /\ DOMAIN s = 1..(n + 1)
        /\ \A i \in 1..n : s[i] = d.stack[i]
        /\ s[n + 1] = k
    BY <1>0, <2>4, AppendOf
  <2> HIDE DEF s
  <2>6. IsPath(adj, s)
    <3>1. ASSUME NEW i \in 1..(Len(s) - 1) PROVE s[i + 1] \in Range(adj[s[i]])
      <4>1. CASE i = n
        <5>1. s[i] = Last(d.stack) /\ s[i + 1] = k
          <6>1. n \in 1..n
            BY <2>3
          <6>. QED  BY <2>3, <2>5, <4>1, <6>1
        <5>. QED  BY <2>1, <5>1
      <4>2. CASE i \in 1..(n - 1)
        <5>1. s[i] = d.stack[i] /\ s[i + 1] = d.stack[i + 1]
          BY <2>3, <2>5, <4>2
        <5>2. \A j \in 1..(n - 1) : d.stack[j + 1] \in Range(adj[d.stack[j]])
          BY DEF DfsInv, IsPath
        <5>3. d.stack[i + 1] \in Range(adj[d.stack[i]])
          BY <4>2, <5>2
        <5>. QED  BY <5>1, <5>3
      <4>3. i = n \/ i \in 1..(n - 1)
        BY <2>3, <2>5
      <4>. QED  BY <4>1, <4>2, <4>3
    <3>2. \A i \in 1..n : s[i] # k
      BY <2>1, <2>3, <2>5 DEF Range
    <3>3. ASSUME NEW i \in 1..(n + 1), NEW j \in 1..(n + 1), s[i] = s[j] PROVE i = j
      <4>1. CASE i \in 1..n /\ j \in 1..n
        BY <2>3, <2>5, <3>3, <4>1 DEF DfsInv, IsPath
      <4>2. CASE i = n + 1 \/ j = n + 1
        BY <2>3, <2>5, <3>2, <3>3, <4>2
      <4>3. (i \in 1..n /\ j \in 1..n) \/ (i = n + 1 \/ j = n + 1)
        BY <2>3
      <4>. QED  BY <4>1, <4>2, <4>3
    <3>. QED  BY <2>5, <3>1, <3>3 DEF IsPath
  <2>7. e.stack = s /\ e.black = d.black /\ e.cycle = d.cycle /\ e \in DfsStates
    BY <1>0, <2>2, <2>5 DEF DfsStates
  <2>8. Range(e.stack) \cap e.black = {}
    BY <2>1, <2>5, <2>7 DEF DfsInv
  <2>. QED  BY <2>6, <2>7, <2>8 DEF DfsInv
<1>5. CASE d.cycle = <<>> /\ d.stack = <<>> /\ Starts(names, d, e)
  <2>1. PICK k \in names : k \notin d.black /\ e = [d EXCEPT !.stack = <<k>>]
    BY <1>5 DEF Starts
  <2>2. e = rec(<<k>>, d.black, d.cycle)
    BY <1>0, <2>1
  <2>3. e.stack = <<k>> /\ e.black = d.black /\ e.cycle = d.cycle /\ e \in DfsStates
    <3>1. <<k>> \in Seq(Names)
      BY <2>1
    <3>. QED  BY <1>0, <2>2, <3>1 DEF DfsStates
  <2>4. Range(<<k>>) = {k} /\ IsPath(adj, <<k>>)
    BY DEF Range, IsPath
  <2>. QED  BY <2>1, <2>3, <2>4 DEF DfsInv
<1>. QED  BY <1>1, <1>2, <1>3, <1>4, <1>5 DEF DfsMoves

\* Only the empty sequence has no elements.
LEMMA EmptyRange ==
    ASSUME NEW X, NEW s \in Seq(X) PROVE Range(s) = {} <=> s = <<>>
  BY DEF Range

\* Nothing is left to do.
DfsDone(names, d) == d.cycle # <<>> \/ (d.stack = <<>> /\ names \subseteq d.black)

\* A component counts once when it is met and once more when it is done with.
Spent(d) == Cardinality(d.black \cup Range(d.stack)) + Cardinality(d.black)

\* What is spent is at most twice the number of names.
LEMMA SpentType ==
    ASSUME IsFiniteSet(Names), NEW adj, NEW d, DfsInv(adj, d) PROVE Spent(d) \in Nat
<1>1. d.black \in SUBSET Names /\ d.black \cup Range(d.stack) \in SUBSET Names
  BY DEF DfsInv, DfsStates, Range
<1>2. Cardinality(d.black) \in Nat /\ Cardinality(d.black \cup Range(d.stack)) \in Nat
  BY <1>1, FS_Subset, FS_CardinalityType
<1>. QED  BY <1>2 DEF Spent

\* A turn colours a name, or finds one, unless nothing is left to do.
LEMMA DfsSpends ==
    ASSUME IsFiniteSet(Names), NEW adj \in [Names -> Seq(Names)], NEW names \in SUBSET Names, NEW d, DfsInv(adj, d),
           NEW e, DfsMoves(adj, names, d, e), ~DfsDone(names, e)
    PROVE  ~DfsDone(names, d) /\ Spent(e) = Spent(d) + 1
<1>0. /\ d.stack \in Seq(Names) /\ d.black \in SUBSET Names /\ d.cycle \in Seq(Names)
      /\ d = [stack |-> d.stack, black |-> d.black, cycle |-> d.cycle]
      /\ Range(d.stack) \cap d.black = {} /\ Range(d.stack) \subseteq Names
      /\ \A i, j \in DOMAIN d.stack : d.stack[i] = d.stack[j] => i = j
  BY DEF DfsInv, DfsStates, IsPath, Range
<1> DEFINE seen == d.black \cup Range(d.stack)
<1>1. /\ seen \subseteq Names /\ IsFiniteSet(seen) /\ IsFiniteSet(d.black)
      /\ Cardinality(seen) \in Nat /\ Cardinality(d.black) \in Nat
  BY <1>0, FS_Subset, FS_CardinalityType
<1>2. CASE e = d /\ DfsDone(names, d)
  BY <1>2
<1>3. CASE d.cycle = <<>> /\ d.stack # <<>> /\ Pops(adj, d, e)
  <2>1. e.stack = Front(d.stack) /\ e.black = d.black \cup {Last(d.stack)}
    BY <1>0, <1>3 DEF Pops
  <2>2. Range(d.stack) = Range(Front(d.stack)) \cup {Last(d.stack)}
    BY <1>0, <1>3, FrontOf
  <2>3. e.black \cup Range(e.stack) = seen /\ Last(d.stack) \notin d.black
    BY <1>0, <2>1, <2>2
  <2>4. Cardinality(e.black) = Cardinality(d.black) + 1
    <3>1. Cardinality(d.black \cup {Last(d.stack)}) = Cardinality(d.black) + 1
      BY <1>1, <2>3, FS_AddElement
    <3>. QED  BY <2>1, <3>1
  <2>5. ~DfsDone(names, d)
    BY <1>3 DEF DfsDone
  <2> HIDE DEF seen
  <2>6. Spent(e) = Cardinality(seen) + Cardinality(e.black)
    BY <2>3 DEF Spent
  <2>7. Spent(d) = Cardinality(seen) + Cardinality(d.black)
    BY DEF Spent, seen
  <2>. QED  BY <1>1, <2>4, <2>5, <2>6, <2>7
<1>4. CASE d.cycle = <<>> /\ d.stack # <<>> /\ Closes(adj, d, e)
  <2>1. PICK i \in DOMAIN d.stack : e = [d EXCEPT !.cycle = Append(SubSeq(d.stack, i, Len(d.stack)), d.stack[i])]
    BY <1>4 DEF Closes
  <2>2. e.cycle = Append(SubSeq(d.stack, i, Len(d.stack)), d.stack[i])
    BY <1>0, <2>1
  <2>3. SubSeq(d.stack, i, Len(d.stack)) \in Seq(Names) /\ d.stack[i] \in Names
    BY <1>0, SubSeqProperties
  <2>4. \A s \in Seq(Names), x \in Names : Append(s, x) # <<>>
    OBVIOUS
  <2>. QED  BY <2>2, <2>3, <2>4 DEF DfsDone
<1>5. CASE d.cycle = <<>> /\ d.stack # <<>> /\ Pushes(adj, d, e)
  <2>1. PICK k \in Range(adj[Last(d.stack)]) : k \notin d.black \cup Range(d.stack) /\ e = [d EXCEPT !.stack = Append(@, k)]
    BY <1>5 DEF Pushes
  <2>2. Last(d.stack) \in Names
    BY <1>0, <1>5 DEF Last
  <2>3. k \in Names
    BY <2>1, <2>2 DEF Range
  <2>4. e.stack = Append(d.stack, k) /\ e.black = d.black
    BY <1>0, <2>1
  <2>5. Range(e.stack) = Range(d.stack) \cup {k}
    BY <1>0, <2>3, <2>4, AppendOf
  <2>6. e.black \cup Range(e.stack) = seen \cup {k} /\ k \notin seen
    BY <2>1, <2>4, <2>5
  <2> HIDE DEF seen
  <2>7. Cardinality(e.black \cup Range(e.stack)) = Cardinality(seen) + 1
    BY <1>1, <2>6, FS_AddElement
  <2>8. ~DfsDone(names, d)
    BY <1>5 DEF DfsDone
  <2>. QED  BY <1>1, <2>4, <2>7, <2>8 DEF Spent, seen
<1>6. CASE d.cycle = <<>> /\ d.stack = <<>> /\ Starts(names, d, e)
  <2>1. PICK k \in names : k \notin d.black /\ e = [d EXCEPT !.stack = <<k>>]
    BY <1>6 DEF Starts
  <2>2. e.stack = <<k>> /\ e.black = d.black
    BY <1>0, <2>1
  <2>3. Range(<<k>>) = {k} /\ Range(d.stack) = {}
    BY <1>6 DEF Range
  <2>4. e.black \cup Range(e.stack) = seen \cup {k} /\ k \notin seen
    BY <2>1, <2>2, <2>3
  <2> HIDE DEF seen
  <2>5. Cardinality(e.black \cup Range(e.stack)) = Cardinality(seen) + 1
    BY <1>1, <2>4, FS_AddElement
  <2>6. ~DfsDone(names, d)
    BY <1>6, <2>1 DEF DfsDone
  <2>. QED  BY <1>1, <2>2, <2>5, <2>6 DEF Spent, seen
<1>. QED  BY <1>2, <1>3, <1>4, <1>5, <1>6 DEF DfsMoves, DfsDone

\* Twice as many turns as there are names are enough.
LEMMA DfsEnds ==
    ASSUME IsFiniteSet(Names), NEW adj, NEW names \in SUBSET Names, NEW d, DfsInv(adj, d),
           DfsDone(names, d) \/ Spent(d) >= 2 * Cardinality(Names)
    PROVE  DfsDone(names, d)
<1>. SUFFICES ASSUME Spent(d) >= 2 * Cardinality(Names) PROVE d.stack = <<>> /\ names \subseteq d.black
  BY DEF DfsDone
<1>1. /\ d.stack \in Seq(Names) /\ d.black \in SUBSET Names /\ Range(d.stack) \cap d.black = {}
      /\ Range(d.stack) \subseteq Names
  BY DEF DfsInv, DfsStates, Range
<1>2. d.black \cup Range(d.stack) \in SUBSET Names
  BY <1>1
<1> DEFINE seen == d.black \cup Range(d.stack)
<1> HIDE DEF seen
<1>3. /\ Cardinality(Names) \in Nat /\ Cardinality(d.black) \in Nat /\ Cardinality(seen) \in Nat
      /\ Cardinality(seen) <= Cardinality(Names) /\ Cardinality(d.black) <= Cardinality(Names)
  BY <1>1, <1>2, FS_Subset, FS_CardinalityType DEF seen
<1>4. Cardinality(d.black) = Cardinality(Names)
  BY <1>3 DEF Spent, seen
<1>5. d.black = Names
  BY <1>1, <1>4, FS_Subset
<1>6. Range(d.stack) = {}
  BY <1>1, <1>5
<1>7. d.stack = <<>>
  BY <1>1, <1>6, EmptyRange
<1>. QED  BY <1>5, <1>7

\* What the search returns.
LEMMA DfsResult ==
    ASSUME Order \in Seq(Names), NEW adj \in [Names -> Seq(Names)], NEW names \in SUBSET Names
    PROVE  DfsInv(adj, Coloured(adj, names)) /\ DfsDone(names, Coloured(adj, names))
<1> DEFINE N == 2 * Len(Order)
           start == [stack |-> <<>>, black |-> {}, cycle |-> <<>>]
           S == {d \in DfsStates : DfsInv(adj, d)}
           step == [a \in (1..N) \X S |-> DfsTurn(adj, names, a[2])]
           turn(d) == The({DfsTurn(adj, names, x) : x \in {d}})
           sol(f) == f = [n \in 0..N |-> IF n = 0 THEN start ELSE turn(f[n - 1])]
<1>1. N \in Nat /\ IsFiniteSet(Names) /\ Cardinality(Names) \in Nat /\ 2 * Cardinality(Names) <= N
  <2>1. IsFiniteSet(Names) /\ Cardinality(Names) <= Len(Order) /\ Len(Order) \in Nat
    BY RangeIsFinite DEF Names
  <2>. QED  BY <2>1, FS_CardinalityType
<1>2. Coloured(adj, names) = (CHOOSE f : sol(f))[N]
  BY Zenon DEF Coloured
<1>3. start \in S
  <2>1. start \in DfsStates
    BY DEF DfsStates
  <2>2. start.stack = <<>> /\ start.black = {} /\ start.cycle = <<>>
    OBVIOUS
  <2>3. Range(<<>>) = {} /\ IsPath(adj, <<>>)
    BY DEF Range, IsPath
  <2> HIDE DEF start
  <2>. QED  BY <2>1, <2>2, <2>3 DEF DfsInv
<1>4. ASSUME NEW d \in S
      PROVE  /\ DfsTurn(adj, names, d) \in S
             /\ DfsDone(names, DfsTurn(adj, names, d)) \/ (~DfsDone(names, d) /\ Spent(DfsTurn(adj, names, d)) = Spent(d) + 1)
  <2>1. d \in DfsStates
    OBVIOUS
  <2>2. DfsMoves(adj, names, d, DfsTurn(adj, names, d))
    BY <2>1, DfsTurnMoves
  <2>3. DfsInv(adj, DfsTurn(adj, names, d))
    BY <2>2, DfsKeeps
  <2>. QED  BY <1>1, <2>2, <2>3, DfsSpends DEF DfsInv
<1>5. \A d : turn(d) = DfsTurn(adj, names, d)
  BY DEF The
<1> HIDE DEF N, S, start, turn
<1>6. step \in [(1..N) \X S -> S]
  BY <1>4
<1>7. PICK h : Iterates(h, N, S, start, step)
  <2> HIDE DEF step
  <2>. QED  BY <1>1, <1>3, <1>6, Iterated
<1>8. h \in [0..N -> S] /\ h[0] = start /\ \A n \in 1..N : h[n] = DfsTurn(adj, names, h[n - 1])
  <2>1. h \in [0..N -> S] /\ h[0] = start /\ \A n \in 1..N : h[n] = step[<<n, h[n - 1]>>]
    BY <1>7 DEF Iterates
  <2>2. ASSUME NEW n \in 1..N PROVE h[n - 1] \in S
    BY <1>1, <2>1
  <2>. QED  BY <2>1, <2>2
<1>9. sol(h)
  <2>1. h = [n \in 0..N |-> h[n]]
    BY <1>8
  <2>2. ASSUME NEW n \in 0..N PROVE h[n] = IF n = 0 THEN start ELSE turn(h[n - 1])
    BY <1>1, <1>5, <1>8
  <2>. QED  BY <2>1, <2>2
<1> DEFINE u == CHOOSE f : sol(f)
<1>10. sol(u)
  <2> HIDE DEF sol
  <2>. QED  BY <1>9
<1> HIDE DEF u
<1> DEFINE T == {n \in 0..N : u[n] \in S /\ (DfsDone(names, u[n]) \/ Spent(u[n]) >= n)}
<1>11. 0 \in T
  <2>1. u[0] = start
    BY <1>1, <1>10
  <2>2. Spent(start) = 0
    <3>1. start.black \cup Range(start.stack) = {} /\ start.black = {}
      BY DEF start, Range
    <3> HIDE DEF start
    <3>2. Cardinality(start.black \cup Range(start.stack)) = 0 /\ Cardinality(start.black) = 0
      BY <3>1, FS_EmptySet, Zenon
    <3>. QED  BY <3>2 DEF Spent
  <2>. QED  BY <1>1, <1>3, <2>1, <2>2
<1>12. ASSUME NEW n \in 1..N, n - 1 \in T PROVE n \in T
  <2>1. u[n] = DfsTurn(adj, names, u[n - 1])
    BY <1>1, <1>5, <1>10
  <2>2. u[n - 1] \in S /\ (DfsDone(names, u[n - 1]) \/ Spent(u[n - 1]) >= n - 1)
    BY <1>12
  <2>3. u[n] \in S /\ (DfsDone(names, u[n]) \/ (~DfsDone(names, u[n - 1]) /\ Spent(u[n]) = Spent(u[n - 1]) + 1))
    BY <1>4, <2>1, <2>2
  <2>4. n \in 0..N
    BY <1>1
  <2>5. DfsInv(adj, u[n - 1])
    BY <2>2 DEF S
  <2>6. Spent(u[n - 1]) \in Nat
    BY <1>1, <2>5, SpentType
  <2>. QED  BY <2>2, <2>3, <2>4, <2>6
<1> HIDE DEF T
<1>13. N \in T
  <2>1. \A n \in 0..N : n \in T
    BY <1>1, <1>11, <1>12, InductionTo
  <2>. QED  BY <1>1, <2>1
<1>14. DfsInv(adj, u[N]) /\ (DfsDone(names, u[N]) \/ Spent(u[N]) >= N)
  BY <1>13 DEF T, S
<1>15. Spent(u[N]) \in Nat
  BY <1>1, <1>14, SpentType
<1>16. DfsDone(names, u[N]) \/ Spent(u[N]) >= 2 * Cardinality(Names)
  BY <1>1, <1>14, <1>15
<1>. QED  BY <1>1, <1>2, <1>14, <1>16, DfsEnds DEF u

-----------------------------------------------------------------------------
(* Models.                                                                 *)

\* A revision as files have it.
Model(m) == DOMAIN m \subseteq Names /\ \A n \in DOMAIN m : Written(m[n])

\* So are both revisions.
MInv == Model(old) /\ Model(new)

\* An edit writes components as files have them.
LEMMA NextModels == MInv /\ [Next]_vars => MInv'
<1>. SUFFICES ASSUME MInv, [Next]_vars PROVE MInv'
  OBVIOUS
<1>1. CASE Write
  <2>1. PICK n \in Names : \E c \in Writings[n] : new' = [k \in DOMAIN new \cup {n} |-> IF k = n THEN c ELSE new[k]]
    BY <1>1 DEF Write
  <2>2. PICK c \in Writings[n] : new' = [k \in DOMAIN new \cup {n} |-> IF k = n THEN c ELSE new[k]]
    BY <2>1
  <2>3. DOMAIN new' = DOMAIN new \cup {n} /\ \A k \in DOMAIN new' : new'[k] = IF k = n THEN c ELSE new[k]
    BY <2>2
  <2>4. old' = old
    BY <1>1 DEF Write
  <2>. QED  BY <2>2, <2>3, <2>4, WritingsAssumption DEF MInv, Model
<1>2. CASE Delete
  BY <1>2 DEF Delete, MInv, Model
<1>3. CASE Commit
  BY <1>3 DEF Commit, MInv
<1>4. CASE Read \/ ModelValidate \/ ModelImpact \/ ModelDiff \/ ListClasses
  BY <1>4 DEF Read, ModelValidate, ModelImpact, ModelDiff, ListClasses, MInv
<1>5. CASE UNCHANGED vars
  BY <1>5 DEF vars, MInv
<1>. QED  BY <1>1, <1>2, <1>3, <1>4, <1>5 DEF Next

\* So is the revision to begin with.
LEMMA InitModels == Init => MInv
  BY WritingsAssumption DEF Init, MInv, Model

\* What a component depends on.
Targets(m, n) == UNION {Range(d.on) : d \in Range(m[n].depends)}

\* Who depends on whom, by the targets.
LEMMA DependentIs ==
    ASSUME NEW m, NEW n, NEW k PROVE Dependent(m, n, k) <=> k \in Targets(m, n)
  BY DEF Dependent, Targets, Range

\* NewDepGraph has the same neighbours.
LEMMA NeighboursAre ==
    ASSUME NEW m, Model(m)
    PROVE  /\ Neighbours(m) \in [Names -> Seq(Names)]
           /\ \A n \in Names : Range(Neighbours(m)[n]) = IF n \in DOMAIN m THEN Targets(m, n) ELSE {}
<1> DEFINE flat(n) == [i \in DOMAIN m[n].depends |-> m[n].depends[i].on]
<1>1. ASSUME NEW n \in DOMAIN m
      PROVE  FlattenSeq(flat(n)) \in Seq(Names) /\ Range(FlattenSeq(flat(n))) = Targets(m, n)
  <2> DEFINE D == m[n].depends
  <2>1. D \in Seq(Range(D)) /\ \A d \in Range(D) : d.on \in Seq(Names)
    BY DEF Model, Written
  <2>2. \A i \in DOMAIN D : D[i] \in Range(D)
    BY DEF Range
  <2>3. DOMAIN D = 1..Len(D) /\ Len(D) \in Nat
    BY <2>1
  <2> HIDE DEF D
  <2> DEFINE f == [i \in DOMAIN D |-> D[i].on]
  <2>4. f \in Seq(Seq(Names)) /\ DOMAIN f = DOMAIN D /\ \A i \in DOMAIN D : f[i] = D[i].on
    <3>1. f \in [1..Len(D) -> Seq(Names)]
      BY <2>1, <2>2, <2>3
    <3>. QED  BY <2>3, <3>1
  <2> HIDE DEF f
  <2>5. FlattenSeq(f) \in Seq(Names) /\ Range(FlattenSeq(f)) = UNION {Range(f[i]) : i \in DOMAIN f}
    BY <2>4, Flattened
  <2>6. UNION {Range(f[i]) : i \in DOMAIN f} = UNION {Range(d.on) : d \in Range(D)}
    <3>1. Range(D) = {D[i] : i \in DOMAIN D}
      BY DEF Range
    <3>2. {Range(f[i]) : i \in DOMAIN f} = {Range(D[i].on) : i \in DOMAIN D}
      BY <2>4
    <3>3. {Range(d.on) : d \in Range(D)} = {Range(D[i].on) : i \in DOMAIN D}
      BY <3>1
    <3>. QED  BY <3>2, <3>3
  <2>. QED  BY <2>5, <2>6 DEF f, D, Targets
<1>2. \A n \in Names : Neighbours(m)[n] = IF n \notin DOMAIN m THEN <<>> ELSE FlattenSeq(flat(n))
  BY DEF Neighbours
<1>3. Neighbours(m) = [n \in Names |-> Neighbours(m)[n]]
  BY DEF Neighbours
<1> HIDE DEF flat
<1>4. ASSUME NEW n \in Names PROVE Neighbours(m)[n] \in Seq(Names)
  <2>1. CASE n \in DOMAIN m
    BY <1>1, <1>2, <2>1
  <2>2. CASE n \notin DOMAIN m
    <3>1. Neighbours(m)[n] = <<>>
      BY <1>2, <2>2
    <3>. QED  BY <3>1
  <2>. QED  BY <2>1, <2>2
<1>5. Range(<<>>) = {}
  BY DEF Range
<1>6. \A n \in Names : Range(Neighbours(m)[n]) = IF n \in DOMAIN m THEN Targets(m, n) ELSE {}
  BY <1>1, <1>2, <1>5
<1>7. Neighbours(m) \in [Names -> Seq(Names)]
  BY <1>3, <1>4
<1>. QED  BY <1>6, <1>7

\* detectCycle is the search, started at nothing.
LEMMA DetectCycleIs ==
    ASSUME NEW m, Model(m)
    PROVE  \E d : /\ DfsInv(Neighbours(m), d) /\ DfsDone(DOMAIN m, d) /\ DetectCycle(m) = d.cycle
<1>1. DetectCycle(m) = Coloured(Neighbours(m), DOMAIN m).cycle
  BY DEF DetectCycle, The
<1>2. DOMAIN m \in SUBSET Names
  BY DEF Model
<1>. QED  BY <1>1, <1>2, NeighboursAre, DfsResult, WritingsAssumption

\* Without a cycle no component stands behind itself.
LEMMA NoneBehindItself ==
    ASSUME NEW m, Model(m), DetectCycle(m) = <<>>, NEW n \in DOMAIN m
    PROVE  n \notin Closure(m)[n]
<1> DEFINE adj == Neighbours(m)
<1>1. PICK d : DfsInv(adj, d) /\ DfsDone(DOMAIN m, d) /\ d.cycle = <<>>
  BY DetectCycleIs
<1>2. n \in d.black
  BY <1>1 DEF DfsDone
<1>3. PICK S \in SUBSET d.black : Fences(adj, n, S)
  BY <1>1, <1>2 DEF DfsInv
<1>4. \A k \in DOMAIN m : Range(adj[k]) = Targets(m, k)
  BY NeighboursAre DEF Model
<1> HIDE DEF adj
<1> DEFINE C == S \cap DOMAIN m
<1>5. \A c \in C, k \in DOMAIN m : Dependent(m, c, k) => k \in C
  BY <1>3, <1>4, DependentIs DEF Fences
<1>6. \A k \in DOMAIN m : Dependent(m, n, k) => k \in C
  BY <1>3, <1>4, DependentIs DEF Fences
<1>7. n \notin C /\ C \in SUBSET DOMAIN m
  BY <1>3 DEF Fences
<1> HIDE DEF C
<1>. QED  BY <1>5, <1>6, <1>7 DEF Closure

\* The cycle that is found is one of dependencies.
LEMMA CycleIsOne ==
    ASSUME NEW m, Model(m), DetectCycle(m) # <<>>
    PROVE  /\ DetectCycle(m) \in Seq(Names) /\ Len(DetectCycle(m)) > 1 /\ DetectCycle(m)[1] = Last(DetectCycle(m))
           /\ \A i \in 1..(Len(DetectCycle(m)) - 1) :
                 DetectCycle(m)[i] \in DOMAIN m /\ DetectCycle(m)[i + 1] \in Targets(m, DetectCycle(m)[i])
<1> DEFINE adj == Neighbours(m)
           c == DetectCycle(m)
<1>1. IsCycle(adj, c) /\ c \in Seq(Names)
  BY DetectCycleIs DEF DfsInv, DfsStates
<1>2. ASSUME NEW i \in 1..(Len(c) - 1) PROVE c[i] \in DOMAIN m /\ c[i + 1] \in Targets(m, c[i])
  <2>1. c[i + 1] \in Range(adj[c[i]]) /\ c[i] \in Names
    BY <1>1 DEF IsCycle
  <2>. QED  BY <2>1, NeighboursAre
<1>. QED  BY <1>1, <1>2 DEF IsCycle

\* And who is on it stands behind itself.
LEMMA OnCycleIsBehind ==
    ASSUME NEW m, Model(m), DetectCycle(m) # <<>>, \A n \in DOMAIN m : Targets(m, n) \subseteq DOMAIN m
    PROVE  \E n \in DOMAIN m : n \in Closure(m)[n]
<1> DEFINE c == DetectCycle(m)
           N == Len(c) - 1
<1>1. /\ c \in Seq(Names) /\ Len(c) > 1 /\ c[1] = c[Len(c)]
      /\ \A i \in 1..(Len(c) - 1) : c[i] \in DOMAIN m /\ c[i + 1] \in Targets(m, c[i])
  BY CycleIsOne DEF Last
<1> HIDE DEF c
<1>2. N \in Nat /\ N >= 1 /\ N = Len(c) - 1 /\ Len(c) = N + 1
  BY <1>1
<1> HIDE DEF N
<1>3. \A i \in 1..N : c[i] \in DOMAIN m /\ c[i + 1] \in Targets(m, c[i]) /\ c[i + 1] \in DOMAIN m
  BY <1>1, <1>2
<1>4. c[1] \in DOMAIN m /\ c[N + 1] = c[1]
  BY <1>1, <1>2, <1>3
<1>5. ASSUME NEW S \in SUBSET DOMAIN m,
             \A x \in S, k \in DOMAIN m : Dependent(m, x, k) => k \in S,
             \A k \in DOMAIN m : Dependent(m, c[1], k) => k \in S
      PROVE  c[1] \in S
  <2> DEFINE T == {i \in 0..N : i > 0 => c[i + 1] \in S}
  <2>1. 0 \in T
    BY <1>2
  <2>2. ASSUME NEW i \in 1..N, i - 1 \in T PROVE i \in T
    <3>1. c[i + 1] \in DOMAIN m /\ Dependent(m, c[i], c[i + 1])
      BY <1>3, DependentIs
    <3>2. i = 1 \/ c[i] \in S
      BY <1>2, <2>2
    <3>3. c[i + 1] \in S
      BY <1>5, <3>1, <3>2
    <3>. QED  BY <1>2, <3>3
  <2> HIDE DEF T
  <2>3. \A i \in 0..N : i \in T
    BY <1>2, <2>1, <2>2, InductionTo
  <2>4. N \in T
    BY <1>2, <2>3
  <2>. QED  BY <1>2, <1>4, <2>4 DEF T
<1>6. c[1] \in Closure(m)[c[1]]
  BY <1>4, <1>5 DEF Closure
<1>. QED  BY <1>4, <1>6

-----------------------------------------------------------------------------
(* Validate.                                                               *)

\* A report of a validation is of the model as it is.
ValidateInv ==
    Is("validate") => report = [kind     |-> "validate",
                                errors   |-> Validate(new),
                                generic  |-> GenericFallbacks(new),
                                warnings |-> {n \in DOMAIN new : DroppedRules(new[n]) # {}}]

\* An edit takes the report away.
LEMMA NextValidate == ValidateInv /\ [Next]_vars => ValidateInv'
<1>. SUFFICES ASSUME ValidateInv, [Next]_vars PROVE ValidateInv'
  OBVIOUS
<1>1. CASE Read \/ ModelImpact \/ ModelDiff \/ ListClasses
  BY <1>1 DEF Read, ModelDiff, ModelImpact, ListClasses, ValidateInv, Is, NoReport, Compare
<1>2. CASE Write \/ Delete \/ Commit
  BY <1>2 DEF Write, Delete, Commit, ValidateInv, Is, NoReport
<1>3. CASE ModelValidate
  BY <1>3 DEF ModelValidate, ValidateInv
<1>4. CASE UNCHANGED vars
  BY <1>4 DEF vars, ValidateInv, Is
<1>. QED  BY <1>1, <1>2, <1>3, <1>4 DEF Next

\* What a model without errors has.
Sound(m) ==
    \A n \in DOMAIN m :
        /\ Targets(m, n) \subseteq DOMAIN m
        /\ \A d \in Range(m[n].depends) : d.need \in 0..Len(d.on)
        /\ n \notin Closure(m)[n]
        /\ Resolved(m[n])
        /\ m[n].healthyIn \subseteq {s.name : s \in Range(TypeOf(m[n]).states)}
        /\ \A s \in Range(m[n].states) : s.name \notin {x.name : x \in Range(TypeOf(m[n]).states)}

\* A model passes exactly when nothing is wrong with it and it has no cycle.
LEMMA ValidIsSound ==
    ASSUME NEW m, Model(m)
    PROVE  Validate(m) = {} <=> Sound(m)
<1>1. TypeErrors(m) = {} <=> \A n \in DOMAIN m : Resolved(m[n])
  BY DEF TypeErrors
<1>2. DependsErrors(m) = {} <=>
        \A n \in DOMAIN m : /\ Targets(m, n) \subseteq DOMAIN m
                            /\ \A d \in Range(m[n].depends) : d.need \in 0..Len(d.on)
  <2> DEFINE needs(n) == {<<n, "need", d>> : d \in {x \in Range(m[n].depends) : x.need \notin 0..Len(x.on)}}
             gone(n) == {<<n, "depends", t>> : t \in Targets(m, n) \ DOMAIN m}
  <2>1. DependsErrors(m) = UNION {needs(n) \cup gone(n) : n \in DOMAIN m}
    BY DEF DependsErrors, Targets
  <2>2. \A n : gone(n) = {} <=> Targets(m, n) \subseteq DOMAIN m
    OBVIOUS
  <2>3. \A n : needs(n) = {} <=> \A d \in Range(m[n].depends) : d.need \in 0..Len(d.on)
    OBVIOUS
  <2> HIDE DEF needs, gone
  <2>. QED  BY <2>1, <2>2, <2>3
<1>3. CycleErrors(m) = {} <=> DetectCycle(m) = <<>>
  BY DEF CycleErrors
<1>4. StateErrors(m) = {} <=>
        \A n \in {k \in DOMAIN m : Resolved(m[k])} :
            /\ m[n].healthyIn \subseteq {s.name : s \in Range(TypeOf(m[n]).states)}
            /\ \A s \in Range(m[n].states) : s.name \notin {x.name : x \in Range(TypeOf(m[n]).states)}
  <2> DEFINE names(n) == {s.name : s \in Range(TypeOf(m[n]).states)}
             twice(n) == {<<n, "states", s>> : s \in {x.name : x \in Range(m[n].states)} \cap names(n)}
             none(n) == {<<n, "healthy_in", s>> : s \in m[n].healthyIn \ names(n)}
  <2>1. StateErrors(m) = UNION {twice(n) \cup none(n) : n \in {k \in DOMAIN m : Resolved(m[k])}}
    BY DEF StateErrors
  <2>2. \A n : twice(n) = {} <=> \A s \in Range(m[n].states) : s.name \notin names(n)
    OBVIOUS
  <2>3. \A n : none(n) = {} <=> m[n].healthyIn \subseteq names(n)
    OBVIOUS
  <2> HIDE DEF twice, none
  <2>. QED  BY <2>1, <2>2, <2>3
<1>5. Validate(m) = {} <=> TypeErrors(m) = {} /\ DependsErrors(m) = {} /\ CycleErrors(m) = {} /\ StateErrors(m) = {}
  BY DEF Validate
<1>6. ASSUME \A n \in DOMAIN m : Targets(m, n) \subseteq DOMAIN m
      PROVE  DetectCycle(m) = <<>> <=> \A n \in DOMAIN m : n \notin Closure(m)[n]
  BY <1>6, NoneBehindItself, OnCycleIsBehind
<1>. QED  BY <1>1, <1>2, <1>3, <1>4, <1>5, <1>6 DEF Sound

\* mgtt model validate passes a model exactly when nothing is wrong with it,
\* whatever its shape; and the cycle it names is one.
THEOREM ValidationIsExact == Spec => []ValidityIsExact
<1>1. Init => ValidateInv
  BY DEF Init, ValidateInv, Is, NoReport
<1>2. ASSUME MInv, ValidateInv PROVE ValidityIsExact
  <2>. SUFFICES ASSUME Is("validate") PROVE ValidityIsExact
    BY DEF ValidityIsExact
  <2>1. /\ report.errors = Validate(new) /\ report.generic = GenericFallbacks(new)
        /\ report.warnings = {n \in DOMAIN new : DroppedRules(new[n]) # {}}
    BY <1>2 DEF ValidateInv
  <2>2. Model(new)
    BY <1>2 DEF MInv
  <2>3. report.errors = {} <=> Sound(new)
    BY <2>1, <2>2, ValidIsSound
  <2>4. ASSUME NEW e \in report.errors, e[2] = "cycle"
        PROVE  /\ Len(e[3]) > 1 /\ e[3][1] = Last(e[3])
               /\ \A i \in 1..(Len(e[3]) - 1) : e[3][i] \in DOMAIN new /\ e[3][i + 1] \in Targets(new, e[3][i])
    <3>1. e \notin TypeErrors(new) /\ e \notin DependsErrors(new) /\ e \notin StateErrors(new)
      BY <2>4 DEF TypeErrors, DependsErrors, StateErrors
    <3>2. e \in CycleErrors(new)
      BY <2>1, <3>1 DEF Validate
    <3>3. e[3] = DetectCycle(new) /\ DetectCycle(new) # <<>>
      <4>1. PICK c \in {DetectCycle(new)} \ {<<>>} : e = <<"", "cycle", c>>
        BY <3>2 DEF CycleErrors
      <4>. QED  BY <4>1
    <3>. QED  BY <2>2, <3>3, CycleIsOne
  <2>5. ASSUME report.errors = {}, NEW n \in DOMAIN new \ report.generic
        PROVE  /\ ResolvedAs(new[n])[1] # "generic"
               /\ new[n].mode = "" /\ n \notin report.warnings => TypeOf(new[n]).healthy \subseteq HealthyRules(new[n])
    <3>1. Resolved(new[n])
      BY <2>3, <2>5 DEF Sound
    <3>2. ResolvedAs(new[n])[1] # "generic"
      BY <2>1, <3>1 DEF GenericFallbacks, Resolved
    <3>3. ASSUME new[n].mode = "", n \notin report.warnings
          PROVE  TypeOf(new[n]).healthy \subseteq HealthyRules(new[n])
      <4>1. DroppedRules(new[n]) = {}
        BY <2>1, <3>3
      <4>. QED  BY <3>1, <3>3, <4>1 DEF DroppedRules, HealthyRules
    <3>. QED  BY <3>2, <3>3
  <2>. QED  BY <2>3, <2>4, <2>5 DEF ValidityIsExact, Sound, Targets, Behind
<1>. QED  BY <1>1, <1>2, InitModels, NextModels, NextValidate, PTL DEF Spec

\* SetToSeq lists each element once.
LEMMA ListOf ==
    ASSUME NEW S, IsFiniteSet(S)
    PROVE  /\ SetToSeq(S) \in Seq(S) /\ Range(SetToSeq(S)) = S /\ Len(SetToSeq(S)) = Cardinality(S)
           /\ \A i, j \in DOMAIN SetToSeq(S) : SetToSeq(S)[i] = SetToSeq(S)[j] => i = j
<1> DEFINE n == Cardinality(S)
           P(f) == f \in [1..n -> S] /\ IsInjective(f)
<1>1. n \in Nat /\ ExistsBijection(1..n, S)
  BY FS_CardinalityType
<1> HIDE DEF n
<1>2. PICK f : f \in Bijection(1..n, S)
  BY <1>1 DEF ExistsBijection
<1>3. P(f)
  BY <1>2 DEF Bijection, Injection, IsInjective
<1> DEFINE s == SetToSeq(S)
<1>4. P(s)
  <2>1. s = CHOOSE x : P(x)
    BY Zenon DEF SetToSeq, n
  <2> HIDE DEF P, s
  <2>. QED  BY <1>3, <2>1
<1> HIDE DEF s
<1>5. s \in [1..n -> S] /\ \A i, j \in 1..n : s[i] = s[j] => i = j
  BY <1>4 DEF IsInjective
<1>6. s \in Seq(S) /\ Len(s) = n /\ DOMAIN s = 1..n
  BY <1>1, <1>5
<1>7. Range(s) = S
  <2>1. s \in Injection(1..n, S)
    BY <1>5 DEF Injection, IsInjective
  <2>2. Cardinality(1..n) = n
    <3>1. Cardinality(1..n) = IF 1 > n THEN 0 ELSE n - 1 + 1
      BY <1>1, FS_Interval
    <3>. QED  BY <1>1, <3>1
  <2>3. s \in Surjection(1..n, S)
    BY <2>1, <2>2, FS_Injection DEF n
  <2>. QED  BY <1>6, <2>3 DEF Surjection, Range
<1>. QED  BY <1>5, <1>6, <1>7 DEF s, n

\* Two lists that share nothing, one after the other.
LEMMA JoinedOf ==
    ASSUME NEW X, NEW s \in Seq(X), NEW t \in Seq(X)
    PROVE  /\ s \o t \in Seq(X) /\ Len(s \o t) = Len(s) + Len(t) /\ Range(s \o t) = Range(s) \cup Range(t)
           /\ \A i \in 1..Len(s) : (s \o t)[i] = s[i]
           /\ \A i \in (Len(s) + 1)..(Len(s) + Len(t)) : (s \o t)[i] = t[i - Len(s)]
<1> DEFINE u == s \o t
<1>1. /\ u \in Seq(X) /\ Len(u) = Len(s) + Len(t) /\ Len(s) \in Nat /\ Len(t) \in Nat
      /\ DOMAIN u = 1..(Len(s) + Len(t)) /\ DOMAIN s = 1..Len(s) /\ DOMAIN t = 1..Len(t)
      /\ \A i \in 1..Len(s) : u[i] = s[i]
      /\ \A i \in (Len(s) + 1)..(Len(s) + Len(t)) : u[i] = t[i - Len(s)]
  OBVIOUS
<1>2. Range(u) = Range(s) \cup Range(t)
  BY RangeConcatenation
<1>. QED  BY <1>1, <1>2 DEF u

\* Without a repetition if neither has one.
LEMMA JoinedOnce ==
    ASSUME NEW X, NEW s \in Seq(X), NEW t \in Seq(X), Range(s) \cap Range(t) = {},
           \A i, j \in DOMAIN s : s[i] = s[j] => i = j,
           \A i, j \in DOMAIN t : t[i] = t[j] => i = j
    PROVE  \A i, j \in DOMAIN (s \o t) : (s \o t)[i] = (s \o t)[j] => i = j
<1> DEFINE u == s \o t
<1>1. /\ u \in Seq(X) /\ Len(u) = Len(s) + Len(t) /\ Len(s) \in Nat /\ Len(t) \in Nat
      /\ DOMAIN u = 1..(Len(s) + Len(t)) /\ DOMAIN s = 1..Len(s) /\ DOMAIN t = 1..Len(t)
      /\ \A i \in 1..Len(s) : u[i] = s[i]
      /\ \A i \in (Len(s) + 1)..(Len(s) + Len(t)) : u[i] = t[i - Len(s)]
  OBVIOUS
<1> HIDE DEF u
<1>3. ASSUME NEW i \in DOMAIN u, NEW j \in DOMAIN u, u[i] = u[j]
      PROVE  i = j
  <2>1. \A k \in DOMAIN u : \/ k \in 1..Len(s) /\ u[k] = s[k] /\ u[k] \in Range(s)
                            \/ k - Len(s) \in 1..Len(t) /\ u[k] = t[k - Len(s)] /\ u[k] \in Range(t) /\ k \in Nat
    BY <1>1 DEF Range
  <2>2. CASE i \in 1..Len(s) /\ j \in 1..Len(s)
    BY <1>1, <1>3, <2>2
  <2>3. CASE i - Len(s) \in 1..Len(t) /\ j - Len(s) \in 1..Len(t)
    <3>1. u[i] = t[i - Len(s)] /\ u[j] = t[j - Len(s)]
      <4>1. \A k \in Nat : k - Len(s) \in 1..Len(t) => k \in (Len(s) + 1)..(Len(s) + Len(t))
        BY <1>1
      <4>2. i \in Nat /\ j \in Nat
        BY <1>1
      <4>. QED  BY <1>1, <2>3, <4>1, <4>2
    <3> DEFINE a == i - Len(s)
               b == j - Len(s)
    <3>2. a \in DOMAIN t /\ b \in DOMAIN t /\ t[a] = t[b]
      BY <1>1, <1>3, <2>3, <3>1
    <3>3. i \in Int /\ j \in Int /\ Len(s) \in Int
      BY <1>1
    <3>4. a = b
      <4> HIDE DEF a, b
      <4>. QED  BY <3>2
    <3>. QED  BY <3>3, <3>4
  <2>. QED  BY <1>3, <2>1, <2>2, <2>3
<1>. QED  BY <1>3 DEF u

-----------------------------------------------------------------------------
(* The search for what a failure breaks.                                   *)

\* What is found, how deep, and what is left to look at: found[i] for i up to
\* Looked(w) has been taken from the queue.
Looked(w) == Len(w.found) - Len(w.queue)

SearchTypes(g, w) ==
    /\ w = [queue |-> w.queue, found |-> w.found, parent |-> w.parent]
    /\ w.queue \in Seq(g.nodes) /\ w.found \in Seq(g.nodes)
    /\ w.parent \in [Range(w.found) -> Range(w.found)]
    /\ \A i, j \in DOMAIN w.found : w.found[i] = w.found[j] => i = j
    /\ Len(w.queue) <= Len(w.found)
    /\ \A i \in 1..Len(w.queue) : w.queue[i] = w.found[Looked(w) + i]

\* The parents lead back to where the search began, a level at a time.
Rooted(next, from, found, parent, depth) ==
    /\ from \subseteq Range(found)
    /\ depth \in [Range(found) -> Nat \ {0}]
    /\ \A k \in Range(found) :
          IF k \in from THEN parent[k] = k /\ depth[k] = 1
          ELSE parent[k] # k /\ k \in next[parent[k]] /\ depth[k] = depth[parent[k]] + 1

\* Level by level, each node as early as it can be.
Levelled(w, next, depth) ==
    /\ \A i, j \in DOMAIN w.found : i <= j => depth[w.found[i]] <= depth[w.found[j]]
    /\ \A i \in DOMAIN w.found : depth[w.found[i]] <= i
    /\ w.queue # <<>> => \A k \in Range(w.found) : depth[k] <= depth[Head(w.queue)] + 1
    /\ \A i \in 1..Looked(w) : \A k \in next[w.found[i]] :
          k \in Range(w.found) /\ depth[k] <= depth[w.found[i]] + 1

SearchInv(g, next, from, w) ==
    /\ SearchTypes(g, w)
    /\ \E depth : Rooted(next, from, w.found, w.parent, depth) /\ Levelled(w, next, depth)

\* One turn, on what it finds.
LEMMA TurnKeeps ==
    ASSUME NEW g, IsFiniteSet(g.nodes), NEW next \in [g.nodes -> SUBSET g.nodes], NEW from,
           NEW w, SearchInv(g, next, from, w), w.queue # <<>>
    PROVE  LET e == TurnTo(w, SetToSeq(next[Head(w.queue)] \ DOMAIN w.parent)) IN
           SearchInv(g, next, from, e) /\ Looked(e) = Looked(w) + 1
<1> DEFINE h == Head(w.queue)
           more == next[h] \ DOMAIN w.parent
           s == SetToSeq(more)
           e == TurnTo(w, s)
           L == Len(w.found)
           p == Looked(w)
           rest == Tail(w.queue)
<1>1. /\ w.queue \in Seq(g.nodes) /\ w.found \in Seq(g.nodes)
      /\ w.parent \in [Range(w.found) -> Range(w.found)] /\ DOMAIN w.parent = Range(w.found)
      /\ \A i, j \in DOMAIN w.found : w.found[i] = w.found[j] => i = j
      /\ Len(w.queue) <= L /\ Range(w.found) \subseteq g.nodes
      /\ \A i \in 1..Len(w.queue) : w.queue[i] = w.found[p + i]
  BY DEF SearchInv, SearchTypes, Range
<1> DEFINE q == Len(w.queue)
<1>2. /\ L \in Nat /\ q \in Nat /\ q >= 1 /\ p = L - q /\ p \in Nat /\ p + 1 \in 1..L
      /\ DOMAIN w.found = 1..L
  <2>1. L \in Nat /\ q \in Nat /\ q # 0 /\ q <= L /\ DOMAIN w.found = 1..L
    BY <1>1
  <2>2. p = L - q
    BY DEF Looked
  <2> HIDE DEF L, q, p
  <2>. QED  BY <2>1, <2>2
<1>3. /\ h \in g.nodes /\ h = w.queue[1] /\ rest \in Seq(g.nodes) /\ Len(rest) = q - 1
      /\ \A i \in 1..(q - 1) : rest[i] = w.queue[i + 1]
  <2>1. w.queue \in Seq(g.nodes) /\ w.queue # <<>>
    BY <1>1
  <2>2. /\ h \in g.nodes /\ rest \in Seq(g.nodes) /\ Len(rest) = q - 1
        /\ \A i \in 1..Len(rest) : rest[i] = w.queue[i + 1]
    <3> HIDE DEF more
    <3>. QED  BY <2>1, HeadTailProperties
  <2>3. h = w.queue[1]
    BY <2>1
  <2> HIDE DEF q, h, rest
  <2>. QED  BY <2>2, <2>3
<1>4. h = w.found[p + 1] /\ h \in Range(w.found)
  <2>1. 1 \in 1..q
    BY <1>2
  <2>2. h = w.found[p + 1]
    BY <1>1, <1>3, <2>1
  <2>. QED  BY <1>2, <2>2 DEF Range
<1> HIDE DEF L, q, p
<1>5. more \in SUBSET g.nodes /\ IsFiniteSet(more) /\ more \cap Range(w.found) = {}
  <2>1. more \in SUBSET g.nodes
    BY <1>3
  <2>. QED  BY <1>1, <2>1, FS_Subset
<1> HIDE DEF more
<1>6. /\ s \in Seq(more) /\ Range(s) = more /\ Len(s) \in Nat /\ s \in Seq(g.nodes) /\ DOMAIN s = 1..Len(s)
      /\ \A i, j \in DOMAIN s : s[i] = s[j] => i = j
  <2>1. s \in Seq(more) /\ Range(s) = more /\ \A i, j \in DOMAIN s : s[i] = s[j] => i = j
    BY <1>5, ListOf
  <2>. QED  BY <1>5, <2>1
<1> HIDE DEF s
<1> DEFINE found == w.found \o s
           queue == rest \o s
           parent == [k \in DOMAIN w.parent \cup Range(s) |-> IF k \in DOMAIN w.parent THEN w.parent[k] ELSE h]
<1>7. e = [queue |-> queue, found |-> found, parent |-> parent]
  BY Zenon DEF TurnTo
<1>8. /\ found \in Seq(g.nodes) /\ Len(found) = L + Len(s) /\ Range(found) = Range(w.found) \cup more
      /\ \A i \in 1..L : found[i] = w.found[i]
      /\ \A i \in (L + 1)..(L + Len(s)) : found[i] = s[i - L]
      /\ \A i, j \in DOMAIN found : found[i] = found[j] => i = j
      /\ DOMAIN found = 1..(L + Len(s))
  <2>1. Range(w.found) \cap Range(s) = {}
    BY <1>5, <1>6
  <2>2. /\ found \in Seq(g.nodes) /\ Len(found) = L + Len(s) /\ Range(found) = Range(w.found) \cup Range(s)
        /\ \A i \in 1..L : found[i] = w.found[i]
        /\ \A i \in (L + 1)..(L + Len(s)) : found[i] = s[i - L]
        /\ \A i, j \in DOMAIN found : found[i] = found[j] => i = j
    <3>1. w.found \in Seq(g.nodes) /\ s \in Seq(g.nodes)
      BY <1>1, <1>6
    <3>2. /\ found \in Seq(g.nodes) /\ Len(found) = Len(w.found) + Len(s) /\ Range(found) = Range(w.found) \cup Range(s)
          /\ \A i \in 1..Len(w.found) : found[i] = w.found[i]
          /\ \A i \in (Len(w.found) + 1)..(Len(w.found) + Len(s)) : found[i] = s[i - Len(w.found)]
      <4>1. \A x, y \in Seq(g.nodes) :
                /\ x \o y \in Seq(g.nodes) /\ Len(x \o y) = Len(x) + Len(y) /\ Range(x \o y) = Range(x) \cup Range(y)
                /\ \A i \in 1..Len(x) : (x \o y)[i] = x[i]
                /\ \A i \in (Len(x) + 1)..(Len(x) + Len(y)) : (x \o y)[i] = y[i - Len(x)]
        BY JoinedOf
      <4>. QED  BY <3>1, <4>1
    <3>3. \A i, j \in DOMAIN found : found[i] = found[j] => i = j
      BY <1>1, <1>6, <2>1, <3>1, JoinedOnce
    <3> HIDE DEF found
    <3>. QED  BY <1>1, <1>6, <2>1, <3>2, <3>3 DEF L
  <2> HIDE DEF found
  <2>. QED  BY <1>2, <1>6, <2>2
<1>9. /\ queue \in Seq(g.nodes) /\ Len(queue) = q - 1 + Len(s)
      /\ \A i \in 1..(q - 1) : queue[i] = w.queue[i + 1]
      /\ \A i \in q..(q - 1 + Len(s)) : queue[i] = s[i - (q - 1)]
  <2>1. /\ queue \in Seq(g.nodes) /\ Len(queue) = Len(rest) + Len(s)
        /\ \A i \in 1..Len(rest) : queue[i] = rest[i]
        /\ \A i \in (Len(rest) + 1)..(Len(rest) + Len(s)) : queue[i] = s[i - Len(rest)]
    <3> HIDE DEF rest
    <3>1. rest \in Seq(g.nodes) /\ s \in Seq(g.nodes)
      BY <1>3, <1>6
    <3>. QED  BY <3>1, JoinedOf
  <2> HIDE DEF queue, rest
  <2>2. Len(rest) + 1 = q
    BY <1>2, <1>3
  <2>. QED  BY <1>2, <1>3, <2>1, <2>2
<1> HIDE DEF found, queue, e, rest
<1>10. e.queue = queue /\ e.found = found /\ e.parent = parent
  BY <1>7
<1>11. Looked(e) = p + 1 /\ Len(queue) <= Len(found)
  <2>1. Looked(e) = Len(found) - Len(queue)
    BY <1>10 DEF Looked
  <2>2. Len(found) = L + Len(s) /\ Len(queue) = q - 1 + Len(s) /\ Len(s) \in Nat
    BY <1>6, <1>8, <1>9
  <2>. QED  BY <1>2, <2>1, <2>2
<1>12. \A i \in 1..Len(queue) : queue[i] = found[p + 1 + i]
  <2>. SUFFICES ASSUME NEW i \in 1..Len(queue) PROVE queue[i] = found[p + 1 + i]
    OBVIOUS
  <2>1. CASE i \in 1..(q - 1)
    <3>1. i + 1 \in 1..q /\ p + 1 + i \in 1..L /\ p + 1 + i = p + (i + 1)
      BY <1>2, <2>1
    <3>2. queue[i] = w.queue[i + 1] /\ found[p + 1 + i] = w.found[p + 1 + i]
      BY <1>8, <1>9, <2>1, <3>1
    <3>3. w.queue[i + 1] = w.found[p + (i + 1)]
      <4>1. \A j \in 1..q : w.queue[j] = w.found[p + j]
        BY <1>1 DEF q
      <4>. QED  BY <3>1, <4>1
    <3>. QED  BY <3>1, <3>2, <3>3
  <2>2. CASE i \in q..(q - 1 + Len(s))
    <3>1. p + 1 + i \in (L + 1)..(L + Len(s)) /\ p + 1 + i - L = i - (q - 1)
      BY <1>2, <1>6, <2>2
    <3>2. queue[i] = s[i - (q - 1)]
      BY <1>9, <2>2
    <3> DEFINE a == p + 1 + i
    <3>3. a \in (L + 1)..(L + Len(s)) /\ a - L = i - (q - 1)
      BY <1>2, <1>6, <2>2
    <3>4. found[a] = s[a - L]
      <4> HIDE DEF a
      <4>. QED  BY <1>8, <3>3
    <3>. QED  BY <3>2, <3>3, <3>4
  <2>. QED  BY <1>2, <1>6, <1>9, <2>1, <2>2
<1>13. /\ parent \in [Range(found) -> Range(found)]
       /\ \A k \in Range(w.found) : parent[k] = w.parent[k]
       /\ \A k \in more : parent[k] = h
  BY <1>1, <1>4, <1>5, <1>6, <1>8
<1> HIDE DEF parent
<1>14. SearchTypes(g, e)
  BY <1>7, <1>8, <1>9, <1>10, <1>11, <1>12, <1>13 DEF SearchTypes
<1>15. PICK was : Rooted(next, from, w.found, w.parent, was) /\ Levelled(w, next, was)
  BY DEF SearchInv
<1> DEFINE depth == [k \in Range(found) |-> IF k \in Range(w.found) THEN was[k] ELSE was[h] + 1]
<1>16. /\ was \in [Range(w.found) -> Nat \ {0}] /\ was[h] \in Nat \ {0}
       /\ \A k \in Range(w.found) : depth[k] = was[k] /\ depth[k] \in Nat
       /\ \A k \in more : depth[k] = was[h] + 1
       /\ depth \in [Range(found) -> Nat \ {0}]
  <2>1. was \in [Range(w.found) -> Nat \ {0}] /\ was[h] \in Nat \ {0}
    BY <1>4, <1>15 DEF Rooted
  <2>2. \A k \in Range(w.found) : depth[k] = was[k] /\ depth[k] \in Nat
    BY <1>8, <2>1
  <2>3. \A k \in more : depth[k] = was[h] + 1
    BY <1>5, <1>8
  <2>. QED  BY <1>8, <2>1, <2>2, <2>3
<1> HIDE DEF depth
<1>17. Rooted(next, from, found, parent, depth)
  <2>1. from \subseteq Range(found)
    BY <1>8, <1>15 DEF Rooted
  <2>2. ASSUME NEW k \in Range(w.found)
        PROVE  IF k \in from THEN parent[k] = k /\ depth[k] = 1
               ELSE parent[k] # k /\ k \in next[parent[k]] /\ depth[k] = depth[parent[k]] + 1
    <3>1. w.parent[k] \in Range(w.found)
      BY <1>1
    <3>. QED  BY <1>13, <1>15, <1>16, <3>1 DEF Rooted
  <2>3. ASSUME NEW k \in more
        PROVE  k \notin from /\ parent[k] # k /\ k \in next[parent[k]] /\ depth[k] = depth[parent[k]] + 1
    <3>1. k \notin Range(w.found) /\ from \subseteq Range(w.found)
      BY <1>5, <1>15 DEF Rooted
    <3>2. k \in next[h]
      BY DEF more
    <3>. QED  BY <1>4, <1>13, <1>16, <3>1, <3>2
  <2>. QED  BY <1>8, <1>16, <2>1, <2>2, <2>3 DEF Rooted
<1>18. /\ \A i \in 1..L : found[i] \in Range(w.found) /\ depth[found[i]] = was[w.found[i]] /\ depth[found[i]] \in Nat
       /\ \A i \in (L + 1)..(L + Len(s)) : found[i] \in more /\ depth[found[i]] = was[h] + 1
  <2>1. ASSUME NEW i \in 1..L PROVE found[i] \in Range(w.found) /\ depth[found[i]] = was[w.found[i]] /\ depth[found[i]] \in Nat
    <3>1. found[i] = w.found[i] /\ w.found[i] \in Range(w.found)
      BY <1>2, <1>8 DEF Range
    <3>. QED  BY <1>16, <3>1
  <2>2. ASSUME NEW i \in (L + 1)..(L + Len(s)) PROVE found[i] \in more /\ depth[found[i]] = was[h] + 1
    <3>1. i - L \in 1..Len(s)
      BY <1>2, <1>6
    <3>2. found[i] = s[i - L] /\ s[i - L] \in more
      BY <1>6, <1>8, <3>1 DEF Range
    <3>. QED  BY <1>16, <3>2
  <2>. QED  BY <2>1, <2>2
<1>19. \A k \in Range(w.found) : was[k] <= was[h] + 1
  BY <1>15 DEF Levelled
<1>20. \A i, j \in DOMAIN found : i <= j => depth[found[i]] <= depth[found[j]]
  <2>. SUFFICES ASSUME NEW i \in 1..(L + Len(s)), NEW j \in 1..(L + Len(s)), i <= j
                PROVE  depth[found[i]] <= depth[found[j]]
    BY <1>8
  <2>1. CASE j \in 1..L
    <3>1. i \in 1..L
      BY <1>2, <2>1
    <3>2. was[w.found[i]] <= was[w.found[j]]
      BY <1>2, <1>15, <2>1, <3>1 DEF Levelled
    <3>. QED  BY <1>18, <2>1, <3>1, <3>2
  <2>2. CASE i \in 1..L /\ j \in (L + 1)..(L + Len(s))
    <3>1. was[w.found[i]] <= was[h] + 1
      BY <1>2, <1>19, <2>2 DEF Range
    <3>. QED  BY <1>18, <2>2, <3>1
  <2>3. CASE i \in (L + 1)..(L + Len(s)) /\ j \in (L + 1)..(L + Len(s))
    BY <1>16, <1>18, <2>3
  <2>. QED  BY <1>2, <1>6, <2>1, <2>2, <2>3
<1>21. \A i \in DOMAIN found : depth[found[i]] <= i
  <2>1. \A i \in 1..L : was[w.found[i]] <= i
    BY <1>2, <1>15 DEF Levelled
  <2>2. was[h] <= p + 1
    BY <1>2, <1>4, <2>1
  <2>3. ASSUME NEW i \in (L + 1)..(L + Len(s)) PROVE depth[found[i]] <= i
    BY <1>2, <1>6, <1>16, <1>18, <2>2
  <2>4. \A i \in 1..(L + Len(s)) : i \in 1..L \/ i \in (L + 1)..(L + Len(s))
    BY <1>2, <1>6
  <2>. QED  BY <1>8, <1>18, <2>1, <2>3, <2>4
<1>22. \A k \in Range(found) : depth[k] <= was[h] + 1
  BY <1>8, <1>16, <1>19
<1>23. ASSUME queue # <<>> PROVE \A k \in Range(found) : depth[k] <= depth[Head(queue)] + 1
  <2>1. Head(queue) = queue[1] /\ 1 \in 1..Len(queue)
    BY <1>9, <1>23
  <2>2. Head(queue) = found[p + 2] /\ p + 2 \in DOMAIN found /\ p + 1 \in DOMAIN found /\ found[p + 1] = h
    <3>1. queue[1] = found[p + 1 + 1] /\ p + 1 + 1 = p + 2
      BY <1>2, <1>12, <2>1
    <3>2. p + 2 <= L + Len(s)
      BY <1>2, <1>6, <1>9, <2>1
    <3>. QED  BY <1>2, <1>4, <1>6, <1>8, <2>1, <3>1, <3>2
  <2>3. depth[h] <= depth[Head(queue)]
    BY <1>2, <1>20, <2>2
  <2>4. depth[h] = was[h] /\ depth[Head(queue)] \in Nat
    <3>1. Head(queue) \in Range(found)
      BY <2>2 DEF Range
    <3>2. \A k \in Range(found) : depth[k] \in Nat
      BY <1>16
    <3>. QED  BY <1>4, <1>16, <3>1, <3>2
  <2>5. \A k \in Range(found) : depth[k] \in Nat
    BY <1>16
  <2>. QED  BY <1>16, <1>22, <2>3, <2>4, <2>5
<1>24. ASSUME NEW i \in 1..(p + 1), NEW k \in next[found[i]]
       PROVE  k \in Range(found) /\ depth[k] <= depth[found[i]] + 1
  <2>1. found[i] = w.found[i] /\ depth[found[i]] = was[w.found[i]]
    BY <1>2, <1>8, <1>18
  <2>2. CASE i \in 1..p
    <3>1. k \in Range(w.found) /\ was[k] <= was[w.found[i]] + 1
      <4>1. \A j \in 1..p : \A x \in next[w.found[j]] : x \in Range(w.found) /\ was[x] <= was[w.found[j]] + 1
        BY <1>15 DEF Levelled, p
      <4>. QED  BY <2>1, <2>2, <4>1
    <3>. QED  BY <1>8, <1>16, <2>1, <3>1
  <2>3. CASE i = p + 1
    <3>1. found[i] = h /\ depth[h] = was[h]
      BY <1>4, <1>16, <2>1, <2>3
    <3>2. k \in Range(found)
      BY <1>1, <1>8, <3>1 DEF more
    <3>. QED  BY <1>22, <3>1, <3>2
  <2>. QED  BY <1>2, <2>2, <2>3
<1>25. Levelled(e, next, depth)
  BY <1>10, <1>11, <1>20, <1>21, <1>23, <1>24 DEF Levelled
<1>26. SearchInv(g, next, from, e)
  BY <1>10, <1>14, <1>17, <1>25 DEF SearchInv
<1>. QED  BY <1>11, <1>26 DEF e, s, more, h, p

\* The search begins as its turns leave it.
LEMMA SearchBegins ==
    ASSUME NEW g, IsFiniteSet(g.nodes), NEW next, NEW from \in SUBSET g.nodes, NEW w,
           w = [queue |-> SetToSeq(from), found |-> SetToSeq(from), parent |-> [n \in from |-> n]]
    PROVE  SearchInv(g, next, from, w) /\ Looked(w) = 0
<1> DEFINE s == SetToSeq(from)
<1>1. IsFiniteSet(from)
  BY FS_Subset
<1>2. s \in Seq(from) /\ Range(s) = from /\ \A i, j \in DOMAIN s : s[i] = s[j] => i = j
  BY <1>1, ListOf
<1> HIDE DEF s
<1>3. s \in Seq(g.nodes) /\ Len(s) \in Nat /\ DOMAIN s = 1..Len(s) /\ \A i \in DOMAIN s : s[i] \in from
  BY <1>2
<1>4. w.queue = s /\ w.found = s /\ w.parent = [n \in from |-> n]
  BY DEF s
<1>5. Looked(w) = 0
  BY <1>3, <1>4 DEF Looked
<1>6. SearchTypes(g, w)
  <2>1. w = [queue |-> w.queue, found |-> w.found, parent |-> w.parent]
    BY <1>4
  <2>2. \A i \in 1..Len(s) : s[i] = s[0 + i]
    BY <1>3
  <2>3. w.parent \in [Range(w.found) -> Range(w.found)]
    BY <1>2, <1>4
  <2>. QED  BY <1>2, <1>3, <1>4, <1>5, <2>1, <2>2, <2>3 DEF SearchTypes
<1> DEFINE depth == [n \in from |-> 1]
<1>7. Rooted(next, from, w.found, w.parent, depth)
  BY <1>2, <1>4 DEF Rooted
<1>8. Levelled(w, next, depth)
  <2>1. \A i \in DOMAIN w.found : depth[w.found[i]] = 1 /\ i \in Nat /\ i >= 1
    BY <1>3, <1>4
  <2>2. \A k \in Range(w.found) : depth[k] = 1
    BY <1>2, <1>4
  <2>3. w.queue # <<>> => depth[Head(w.queue)] = 1
    BY <1>3, <1>4
  <2> HIDE DEF depth
  <2>. QED  BY <1>5, <2>1, <2>2, <2>3 DEF Levelled
<1>. QED  BY <1>5, <1>6, <1>7, <1>8 DEF SearchInv

\* A turn for each node is enough.
LEMMA SearchResult ==
    ASSUME NEW g, IsFiniteSet(g.nodes), NEW root, g.next[root] \in [g.nodes -> SUBSET g.nodes],
           NEW from \in SUBSET g.nodes
    PROVE  SearchInv(g, g.next[root], from, Search(g, root, from)) /\ Search(g, root, from).queue = <<>>
<1> DEFINE next == g.next[root]
           N == Cardinality(g.nodes)
           start == [queue |-> SetToSeq(from), found |-> SetToSeq(from), parent |-> [n \in from |-> n]]
           all == [queue : Seq(g.nodes), found : Seq(g.nodes), parent : UNION {[A -> A] : A \in SUBSET g.nodes}]
           S == {w \in all : SearchInv(g, next, from, w)}
           one(w) == IF w.queue = <<>> THEN w ELSE Turn(g, root, w)
           step == [a \in (1..N) \X S |-> one(a[2])]
           turn(d) == The({IF w.queue = <<>> THEN w ELSE Turn(g, root, w) : w \in {d}})
           sol(f) == f = [n \in 0..N |-> IF n = 0 THEN start ELSE turn(f[n - 1])]
<1>1. N \in Nat
  BY FS_CardinalityType
<1>2. Search(g, root, from) = (CHOOSE f : sol(f))[N]
  BY Zenon DEF Search
<1>3. ASSUME NEW w, SearchInv(g, next, from, w) PROVE w \in S
  <2>1. w = [queue |-> w.queue, found |-> w.found, parent |-> w.parent] /\ w.queue \in Seq(g.nodes)
        /\ w.found \in Seq(g.nodes) /\ w.parent \in [Range(w.found) -> Range(w.found)]
    BY <1>3 DEF SearchInv, SearchTypes
  <2>2. Range(w.found) \in SUBSET g.nodes
    BY <2>1 DEF Range
  <2>3. w.parent \in UNION {[A -> A] : A \in SUBSET g.nodes}
    BY <2>1, <2>2
  <2>4. w \in all
    <3> HIDE DEF next
    <3>. QED  BY <2>1, <2>3
  <2>. QED  BY <1>3, <2>4
<1>4. start \in S /\ Looked(start) = 0
  <2>1. SearchInv(g, next, from, start) /\ Looked(start) = 0
    BY SearchBegins
  <2>. QED  BY <1>3, <2>1
<1>5. ASSUME NEW w \in S
      PROVE  /\ one(w) \in S /\ Looked(w) \in Nat
             /\ (one(w).queue = <<>> \/ (w.queue # <<>> /\ Looked(one(w)) = Looked(w) + 1))
  <2>1. SearchInv(g, next, from, w)
    OBVIOUS
  <2> HIDE DEF S
  <2>2. Looked(w) \in Nat
    <3>1. w.queue \in Seq(g.nodes) /\ w.found \in Seq(g.nodes) /\ Len(w.queue) <= Len(w.found)
      BY <2>1 DEF SearchInv, SearchTypes
    <3>2. Len(w.queue) \in Nat /\ Len(w.found) \in Nat
      BY <3>1
    <3>. QED  BY <3>1, <3>2 DEF Looked
  <2>3. CASE w.queue = <<>>
    <3>1. one(w) = w
      BY <2>3
    <3> HIDE DEF one
    <3>. QED  BY <2>2, <2>3, <3>1
  <2>4. CASE w.queue # <<>>
    <3>1. one(w) = TurnTo(w, SetToSeq(next[Head(w.queue)] \ DOMAIN w.parent))
      BY <2>4 DEF Turn
    <3>2. SearchInv(g, next, from, one(w)) /\ Looked(one(w)) = Looked(w) + 1
      <4>1. next \in [g.nodes -> SUBSET g.nodes]
        OBVIOUS
      <4> HIDE DEF next, one
      <4>2. LET e == TurnTo(w, SetToSeq(next[Head(w.queue)] \ DOMAIN w.parent)) IN
            SearchInv(g, next, from, e) /\ Looked(e) = Looked(w) + 1
        BY <2>1, <2>4, <4>1, TurnKeeps
      <4>. QED  BY <3>1, <4>2
    <3>. QED  BY <1>3, <2>2, <2>4, <3>2
  <2>. QED  BY <2>3, <2>4
<1>6. \A d : turn(d) = one(d)
  BY DEF The
<1> HIDE DEF N, S, start, turn, one, all
<1>7. step \in [(1..N) \X S -> S]
  BY <1>5
<1>8. PICK h : Iterates(h, N, S, start, step)
  <2> HIDE DEF step
  <2>. QED  BY <1>1, <1>4, <1>7, Iterated
<1>9. h \in [0..N -> S] /\ h[0] = start /\ \A n \in 1..N : h[n] = one(h[n - 1])
  <2>1. h \in [0..N -> S] /\ h[0] = start /\ \A n \in 1..N : h[n] = step[<<n, h[n - 1]>>]
    BY <1>8 DEF Iterates
  <2>2. ASSUME NEW n \in 1..N PROVE h[n - 1] \in S
    BY <1>1, <2>1
  <2>. QED  BY <2>1, <2>2
<1>10. sol(h)
  <2>1. h = [n \in 0..N |-> h[n]]
    BY <1>9
  <2>2. ASSUME NEW n \in 0..N PROVE h[n] = IF n = 0 THEN start ELSE turn(h[n - 1])
    BY <1>1, <1>6, <1>9
  <2>. QED  BY <2>1, <2>2
<1> DEFINE u == CHOOSE f : sol(f)
<1>11. sol(u)
  <2> HIDE DEF sol
  <2>. QED  BY <1>10
<1> HIDE DEF u
<1> DEFINE T == {n \in 0..N : u[n] \in S /\ (u[n].queue = <<>> \/ Looked(u[n]) >= n)}
<1>12. 0 \in T
  <2>1. u[0] = start
    BY <1>1, <1>11
  <2>. QED  BY <1>1, <1>4, <2>1
<1>13. ASSUME NEW n \in 1..N, n - 1 \in T PROVE n \in T
  <2>1. u[n] = one(u[n - 1])
    BY <1>1, <1>6, <1>11
  <2>2. u[n - 1] \in S /\ (u[n - 1].queue = <<>> \/ Looked(u[n - 1]) >= n - 1)
    BY <1>13
  <2>3. /\ u[n] \in S /\ Looked(u[n - 1]) \in Nat
        /\ (u[n].queue = <<>> \/ (u[n - 1].queue # <<>> /\ Looked(u[n]) = Looked(u[n - 1]) + 1))
    BY <1>5, <2>1, <2>2
  <2>4. n \in 0..N /\ n \in Nat
    BY <1>1
  <2>. QED  BY <2>2, <2>3, <2>4
<1> HIDE DEF T
<1>14. N \in T
  <2>1. \A n \in 0..N : n \in T
    BY <1>1, <1>12, <1>13, InductionTo
  <2>. QED  BY <1>1, <2>1
<1> DEFINE w == u[N]
<1>15. SearchInv(g, next, from, w) /\ (w.queue = <<>> \/ Looked(w) >= N)
  BY <1>14 DEF T, S
<1> HIDE DEF w
<1>16. w.queue = <<>>
  <2>1. w.queue \in Seq(g.nodes) /\ w.found \in Seq(g.nodes) /\ \A i, j \in DOMAIN w.found : w.found[i] = w.found[j] => i = j
    BY <1>15 DEF SearchInv, SearchTypes
  <2>2. Len(w.found) <= N /\ Len(w.found) \in Nat /\ Len(w.queue) \in Nat /\ (Len(w.queue) = 0 => w.queue = <<>>)
    BY <2>1, OnceEach DEF N
  <2>3. w.queue # <<>> => Len(w.found) - Len(w.queue) >= N
    BY <1>15 DEF Looked
  <2>. QED  BY <1>1, <2>2, <2>3
<1>. QED  BY <1>2, <1>15, <1>16 DEF u, w, next

\* A finished search, with how deep it found what it found.
Searched(g, next, from, w, depth) ==
    /\ SearchTypes(g, w) /\ w.queue = <<>>
    /\ Rooted(next, from, w.found, w.parent, depth)
    /\ Levelled(w, next, depth)

\* The components along it.
PathOf(p) == [i \in DOMAIN p |-> p[i].on]

\* What is found goes on only to what is found, at most a level deeper.
LEMMA OnwardIsFound ==
    ASSUME NEW g, NEW next, NEW from, NEW w, NEW depth, Searched(g, next, from, w, depth),
           NEW n \in Range(w.found), NEW k \in next[n]
    PROVE  k \in Range(w.found) /\ depth[k] <= depth[n] + 1
<1>1. w.found \in Seq(g.nodes) /\ w.queue = <<>>
  BY DEF Searched, SearchTypes
<1>2. PICK i \in DOMAIN w.found : n = w.found[i]
  BY DEF Range
<1>3. Looked(w) = Len(w.found)
  BY <1>1 DEF Looked
<1>4. i \in 1..Looked(w)
  BY <1>1, <1>2, <1>3
<1>. QED  BY <1>2, <1>4 DEF Searched, Levelled

\* Whatever a way leads to is found, no deeper than the way is long.
LEMMA WayIsFound ==
    ASSUME NEW g, NEW next, NEW from, NEW w, NEW depth, Searched(g, next, from, w, depth),
           NEW p \in Seq(g.nodes), IsWay(next, from, p)
    PROVE  p[Len(p)] \in Range(w.found) /\ depth[p[Len(p)]] <= Len(p)
<1> DEFINE n == Len(p)
           T == {i \in 0..n : i > 0 => p[i] \in Range(w.found) /\ depth[p[i]] <= i}
<1>1. n \in Nat /\ n >= 1 /\ p[1] \in from /\ \A i \in 1..(n - 1) : p[i + 1] \in next[p[i]]
  BY DEF IsWay
<1>2. depth \in [Range(w.found) -> Nat \ {0}] /\ from \subseteq Range(w.found) /\ \A k \in from : depth[k] = 1
  BY DEF Searched, Rooted
<1> HIDE DEF n
<1>3. 0 \in T
  BY <1>1
<1>4. ASSUME NEW i \in 1..n, i - 1 \in T PROVE i \in T
  <2>1. CASE i = 1
    BY <1>1, <1>2, <2>1
  <2>2. CASE i # 1
    <3> DEFINE j == i - 1
    <3>1. j \in 1..(n - 1) /\ i = j + 1 /\ i \in 0..n
      BY <1>1, <2>2
    <3>2. p[j] \in Range(w.found) /\ depth[p[j]] <= j
      BY <1>4, <3>1
    <3>3. p[i] \in next[p[j]]
      BY <1>1, <3>1
    <3> HIDE DEF j
    <3>4. p[i] \in Range(w.found) /\ depth[p[i]] <= depth[p[j]] + 1
      BY <3>2, <3>3, OnwardIsFound
    <3>5. depth[p[i]] \in Nat /\ depth[p[j]] \in Nat
      BY <1>2, <3>2, <3>4
    <3>6. depth[p[i]] <= i
      BY <3>1, <3>2, <3>4, <3>5
    <3>. QED  BY <3>1, <3>4, <3>6
  <2>. QED  BY <2>1, <2>2
<1> HIDE DEF T
<1>5. n \in T
  <2>1. \A i \in 0..n : i \in T
    BY <1>1, <1>3, <1>4, InductionTo
  <2>. QED  BY <1>1, <2>1
<1>. QED  BY <1>1, <1>5 DEF T, n

\* pathTo goes back along a way that is as short as the node is deep.
LEMMA PathToIs ==
    ASSUME NEW g, NEW next, NEW from, NEW w, NEW depth, Searched(g, next, from, w, depth),
           NEW node \in Range(w.found)
    PROVE  \E p \in Seq(Range(w.found)) :
              /\ IsWay(next, from, p) /\ p[Len(p)] = node /\ Len(p) = depth[node]
              /\ PathTo(node, w.parent) = PathOf(p)
<1> DEFINE R == Range(w.found)
           parent == w.parent
           N == Cardinality(DOMAIN parent)
           Back(p) == /\ Len(p) >= 1 /\ p[Len(p)] = node
                      /\ \A i \in 1..(Len(p) - 1) : p[i + 1] \in next[p[i]]
                      /\ Len(p) + depth[p[1]] = depth[node] + 1
           S == {p \in Seq(R) : Back(p)}
           one(p) == IF parent[Head(p)] = Head(p) THEN p ELSE <<parent[Head(p)]>> \o p
           step == [a \in (1..N) \X S |-> one(a[2])]
           turn(d) == The({IF parent[Head(p)] = Head(p) THEN p ELSE <<parent[Head(p)]>> \o p : p \in {d}})
           sol(f) == f = [n \in 0..N |-> IF n = 0 THEN <<node>> ELSE turn(f[n - 1])]
           names(p) == [i \in DOMAIN p |-> p[i].on]
<1>1. /\ w.found \in Seq(g.nodes) /\ parent \in [R -> R] /\ DOMAIN parent = R
      /\ \A i, j \in DOMAIN w.found : w.found[i] = w.found[j] => i = j
      /\ depth \in [R -> Nat \ {0}]
      /\ \A k \in R : IF k \in from THEN parent[k] = k /\ depth[k] = 1
                      ELSE parent[k] # k /\ k \in next[parent[k]] /\ depth[k] = depth[parent[k]] + 1
      /\ \A i \in DOMAIN w.found : depth[w.found[i]] <= i
  BY DEF Searched, SearchTypes, Rooted, Levelled
<1>2. N \in Nat /\ \A k \in R : depth[k] <= N
  <2>1. IsFiniteSet(R)
    BY <1>1, RangeIsFinite
  <2>2. w.found \in Seq(R)
    <3>1. Len(w.found) \in Nat /\ w.found \in [1..Len(w.found) -> g.nodes] /\ \A i \in 1..Len(w.found) : w.found[i] \in R
      BY <1>1 DEF Range
    <3>2. w.found \in [1..Len(w.found) -> R]
      <4> HIDE DEF R
      <4>. QED  BY <3>1
    <3>. QED  BY <3>1, <3>2
  <2>3. Len(w.found) <= Cardinality(R) /\ Cardinality(R) \in Nat
    BY <1>1, <2>1, <2>2, OnceEach
  <2>4. ASSUME NEW k \in R PROVE depth[k] <= Len(w.found)
    <3>1. PICK i \in DOMAIN w.found : k = w.found[i]
      BY DEF Range
    <3>2. i \in Nat /\ i <= Len(w.found) /\ depth[k] <= i /\ depth[k] \in Nat /\ Len(w.found) \in Nat
      BY <1>1, <3>1
    <3>. QED  BY <3>2
  <2>5. Len(w.found) \in Nat /\ N = Cardinality(R) /\ \A k \in R : depth[k] \in Nat
    BY <1>1
  <2> HIDE DEF R, N
  <2>. QED  BY <2>3, <2>4, <2>5
<1>3. PathTo(node, w.parent) = The({names(p) : p \in {(CHOOSE f : sol(f))[N]}})
  BY Zenon DEF PathTo
<1>4. <<node>> \in S /\ Len(<<node>>) = 1
  <2>1. <<node>> \in Seq(R) /\ Len(<<node>>) = 1 /\ <<node>>[1] = node
    OBVIOUS
  <2>2. Back(<<node>>)
    <3>1. depth[node] \in Nat
      BY <1>1
    <3>. QED  BY <2>1, <3>1
  <2>. QED  BY <2>1, <2>2
<1>5. ASSUME NEW p \in S
      PROVE  one(p) \in S /\ Len(p) \in Nat /\ (IF p[1] \in from THEN one(p) = p ELSE Len(one(p)) = Len(p) + 1)
  <2>1. p \in Seq(R) /\ Back(p)
    OBVIOUS
  <2>2. Len(p) \in Nat /\ Head(p) = p[1] /\ p[1] \in R
    <3>1. p \in Seq(R) /\ Len(p) >= 1
      BY <2>1
    <3>. QED  BY <3>1
  <2>3. CASE p[1] \in from
    <3>1. one(p) = p
      BY <1>1, <2>2, <2>3
    <3> HIDE DEF one
    <3>. QED  BY <2>2, <2>3, <3>1
  <2>4. CASE p[1] \notin from
    <3> DEFINE k == parent[p[1]]
               r == <<k>> \o p
    <3>1. one(p) = r /\ k \in R /\ p[1] \in next[k] /\ depth[p[1]] = depth[k] + 1
      BY <1>1, <2>2, <2>4
    <3> HIDE DEF k, one
    <3>2. r \in Seq(R) /\ Len(r) = Len(p) + 1 /\ r[1] = k /\ \A i \in 1..Len(p) : r[i + 1] = p[i]
      BY <2>1, <3>1, ConsOf
    <3> HIDE DEF r
    <3>3. Len(r) >= 1 /\ r[Len(r)] = node
      <4>1. Len(p) \in 1..Len(p)
        BY <2>1, <2>2
      <4>. QED  BY <2>1, <2>2, <3>2, <4>1
    <3>4. ASSUME NEW i \in 1..(Len(r) - 1) PROVE r[i + 1] \in next[r[i]]
      <4>1. i \in 1..Len(p) /\ r[i + 1] = p[i]
        BY <2>2, <3>2
      <4>2. CASE i = 1
        BY <3>1, <3>2, <4>1, <4>2
      <4>3. CASE i # 1
        <5> DEFINE j == i - 1
        <5>1. j \in 1..(Len(p) - 1) /\ j \in 1..Len(p) /\ i = j + 1
          BY <2>2, <4>1, <4>3
        <5>2. r[i] = p[j] /\ p[i] \in next[p[j]]
          <6> HIDE DEF j
          <6>. QED  BY <2>1, <3>2, <5>1
        <5>. QED  BY <4>1, <5>2
      <4>. QED  BY <4>2, <4>3
    <3>5. Len(r) + depth[r[1]] = depth[node] + 1
      <4>1. Len(p) + depth[p[1]] = depth[node] + 1
        BY <2>1
      <4>2. depth[k] \in Nat /\ depth[node] \in Nat
        BY <1>1, <3>1
      <4>. QED  BY <2>2, <3>1, <3>2, <4>1, <4>2
    <3>6. r \in S
      BY <3>2, <3>3, <3>4, <3>5
    <3>. QED  BY <2>2, <2>4, <3>1, <3>2, <3>6
  <2>. QED  BY <2>3, <2>4
<1>6. \A d : turn(d) = one(d)
  <2>. SUFFICES ASSUME NEW d PROVE turn(d) = one(d)
    OBVIOUS
  <2>1. turn(d) = The({one(d)})
    BY Zenon
  <2>. QED  BY <2>1 DEF The
<1> HIDE DEF N, S, turn, one, names
<1>7. step \in [(1..N) \X S -> S]
  BY <1>5
<1> DEFINE start == <<node>>
<1> HIDE DEF start
<1>8. start \in S /\ Len(start) = 1
  BY <1>4 DEF start
<1>9. PICK h : Iterates(h, N, S, start, step)
  <2> HIDE DEF step
  <2>. QED  BY <1>2, <1>7, <1>8, Iterated
<1>10. h \in [0..N -> S] /\ h[0] = start /\ \A n \in 1..N : h[n] = one(h[n - 1])
  <2>1. h \in [0..N -> S] /\ h[0] = start /\ \A n \in 1..N : h[n] = step[<<n, h[n - 1]>>]
    BY <1>9 DEF Iterates
  <2>2. ASSUME NEW n \in 1..N PROVE h[n - 1] \in S
    BY <1>2, <2>1
  <2>. QED  BY <2>1, <2>2
<1>11. sol(h)
  <2>1. h = [n \in 0..N |-> h[n]]
    BY <1>10
  <2>2. ASSUME NEW n \in 0..N PROVE h[n] = IF n = 0 THEN start ELSE turn(h[n - 1])
    BY <1>2, <1>6, <1>10
  <2>. QED  BY <2>1, <2>2 DEF start
<1> DEFINE u == CHOOSE f : sol(f)
<1>12. u = [n \in 0..N |-> IF n = 0 THEN start ELSE turn(u[n - 1])]
  <2>1. sol(u)
    <3> HIDE DEF sol
    <3>. QED  BY <1>11
  <2>. QED  BY <2>1 DEF start
<1> HIDE DEF u
<1> DEFINE T == {n \in 0..N : u[n] \in S /\ (u[n][1] \in from \/ Len(u[n]) >= n + 1)}
<1>13. 0 \in T
  <2>1. u[0] = start
    BY <1>2, <1>12
  <2>. QED  BY <1>2, <1>8, <2>1
<1>14. ASSUME NEW n \in 1..N, n - 1 \in T PROVE n \in T
  <2>1. u[n] = one(u[n - 1])
    BY <1>2, <1>6, <1>12
  <2>2. u[n - 1] \in S /\ (u[n - 1][1] \in from \/ Len(u[n - 1]) >= n)
    BY <1>14
  <2>3. /\ u[n] \in S /\ Len(u[n - 1]) \in Nat
        /\ (IF u[n - 1][1] \in from THEN u[n] = u[n - 1] ELSE Len(u[n]) = Len(u[n - 1]) + 1)
    BY <1>5, <2>1, <2>2
  <2>4. n \in 0..N /\ n \in Nat
    BY <1>2
  <2>5. u[n][1] \in from \/ Len(u[n]) >= n + 1
    <3>1. CASE u[n - 1][1] \in from
      BY <2>3, <3>1
    <3>2. CASE u[n - 1][1] \notin from
      <4>1. Len(u[n]) = Len(u[n - 1]) + 1 /\ Len(u[n - 1]) >= n
        BY <2>2, <2>3, <3>2
      <4>. QED  BY <2>3, <2>4, <4>1
    <3>. QED  BY <3>1, <3>2
  <2>. QED  BY <2>3, <2>4, <2>5
<1> HIDE DEF T
<1>15. N \in T
  <2>1. \A n \in 0..N : n \in T
    BY <1>2, <1>13, <1>14, InductionTo
  <2>. QED  BY <1>2, <2>1
<1> DEFINE p == u[N]
<1>16. p \in Seq(R) /\ Back(p) /\ (p[1] \in from \/ Len(p) >= N + 1)
  BY <1>15 DEF T, S
<1>17. PathTo(node, w.parent) = names(p)
  BY <1>3 DEF The, u
<1> HIDE DEF p
<1>18. Len(p) \in Nat /\ p[1] \in R
  <2>1. p \in Seq(R) /\ Len(p) >= 1
    BY <1>16
  <2>. QED  BY <2>1
<1>19. p[1] \in from
  <2>1. Len(p) + depth[p[1]] = depth[node] + 1
    BY <1>16
  <2>2. depth[p[1]] \in Nat \ {0} /\ depth[node] \in Nat /\ depth[node] <= N
    BY <1>1, <1>2, <1>18
  <2>. QED  BY <1>2, <1>16, <1>18, <2>1, <2>2
<1>20. Len(p) = depth[node]
  <2>1. Len(p) + depth[p[1]] = depth[node] + 1 /\ depth[p[1]] = 1 /\ depth[node] \in Nat
    BY <1>1, <1>16, <1>18, <1>19
  <2>. QED  BY <1>18, <2>1
<1>21. IsWay(next, from, p) /\ p[Len(p)] = node
  BY <1>16, <1>19 DEF IsWay
<1>. QED  BY <1>16, <1>17, <1>20, <1>21 DEF names, PathOf

\* A type that is found has states.
LEMMA TypeHasStates ==
    ASSUME NEW c, Resolved(c)
    PROVE  "states" \in DOMAIN TypeOf(c) /\ TypeOf(c).states \in Seq(Range(TypeOf(c).states))
<1> DEFINE r == ResolvedAs(c)
           hits == {i \in DOMAIN Providers : Has(Providers[i], c.type.name)}
<1>1. r # <<>>
  BY DEF Resolved, Unresolved
<1>2. Has(r[1], r[2])
  <2>1. CASE c.type.provider # ""
    <3>1. r = IF Has(c.type.provider, c.type.name) THEN <<c.type.provider, c.type.name>> ELSE <<>>
      BY <2>1 DEF ResolvedAs, Unresolved
    <3>. QED  BY <1>1, <3>1
  <2>2. CASE c.type.provider = "" /\ hits # {}
    <3>1. r = <<Providers[Min(hits)], c.type.name>>
      BY <2>2 DEF ResolvedAs
    <3>2. hits \in SUBSET Nat
      BY RegistryAssumption
    <3> HIDE DEF hits
    <3>3. Min(hits) \in hits
      BY <2>2, <3>2, LeastOf
    <3>. QED  BY <3>1, <3>3 DEF hits
  <2>3. CASE c.type.provider = "" /\ hits = {}
    <3>1. r = <<"generic", "component">>
      BY <2>3 DEF ResolvedAs
    <3>. QED  BY <3>1, RegistryAssumption
  <2>. QED  BY <2>1, <2>2, <2>3
<1>3. TypeOf(c) = Registry[r[1]][r[2]]
  BY DEF TypeOf
<1> HIDE DEF r
<1>. QED  BY <1>2, <1>3, RegistryAssumption DEF Has

\* A component fails in finitely many ways.
LEMMA FailuresAreFinite ==
    ASSUME NEW c, Written(c), Resolved(c) PROVE IsFiniteSet(Projected(c).failures)
<1> DEFINE t == TypeOf(c)
           s == c.states \o t.states
           own(x) == IF x.verdict # "broken" /\ x.name \in c.healthyIn THEN [x EXCEPT !.verdict = "healthy"] ELSE x
           states == [i \in 1..Len(s) |-> own(s[i])]
           r == ResolveType(c, t)
<1>1. Projected(c).failures = FailureModes(r)
  BY DEF Projected
<1>2. c.states \in Seq(Range(c.states)) /\ t.states \in Seq(Range(t.states)) /\ "states" \in DOMAIN t
  BY TypeHasStates DEF Written
<1>3. Len(s) \in Nat
  <2> DEFINE X == Range(c.states) \cup Range(t.states)
             a == c.states
             b == t.states
  <2>1. a \in Seq(X) /\ b \in Seq(X)
    BY <1>2
  <2> HIDE DEF X, a, b
  <2>2. a \o b \in Seq(X)
    BY <2>1
  <2>3. Len(a \o b) \in Nat
    BY <2>2
  <2>. QED  BY <2>3 DEF a, b
<1>4. r.states = states
  BY <1>2 DEF ResolveType
<1> HIDE DEF r, s
<1>5. IsFiniteSet(Range(states))
  <2> DEFINE X == {own(s[i]) : i \in 1..Len(s)}
  <2>1. states \in Seq(X)
    BY <1>3
  <2> HIDE DEF states, X
  <2>. QED  BY <2>1, RangeIsFinite
<1> HIDE DEF states
<1> DEFINE bad == {x \in Range(r.states) : x.name # r.default /\ x.verdict # "healthy"}
           as(x) == [name        |-> x.name,
                     emits       |-> IF x.name \in DOMAIN r.causes THEN r.causes[x.name] ELSE {},
                     triggeredBy |-> x.triggeredBy]
           f == [x \in bad |-> as(x)]
<1>6. IsFiniteSet(bad)
  BY <1>4, <1>5, FS_Subset
<1>7. FailureModes(r) = {as(x) : x \in bad}
  BY DEF FailureModes
<1>8. {as(x) : x \in bad} = {f[x] : x \in bad}
  <2> HIDE DEF as, bad
  <2>. QED  OBVIOUS
<1>9. IsFiniteSet({f[x] : x \in bad})
  <2> HIDE DEF f, bad
  <2>. QED  BY <1>6, ImageIsFinite
<1>. QED  BY <1>1, <1>7, <1>8, <1>9

\* What the graph is built from is as finite as the model, and what stands
\* behind a component is the same.
LEMMA InputIs ==
    ASSUME NEW m, Model(m), \A n \in DOMAIN m : Resolved(m[n])
    PROVE  /\ DOMAIN Input(m) = DOMAIN m /\ IsFiniteSet(DOMAIN m) /\ Closure(Input(m)) = Closure(m)
           /\ \A c \in DOMAIN m : IsFiniteSet(Input(m)[c].failures)
<1> DEFINE x == Input(m)
<1>1. DOMAIN x = DOMAIN m /\ \A c \in DOMAIN m : x[c] = Projected(m[c]) /\ x[c].depends = m[c].depends
  <2>1. \A c : Projected(c).depends = c.depends
    BY DEF Projected
  <2>. QED  BY <2>1 DEF Input
<1>2. IsFiniteSet(DOMAIN m)
  <2>1. IsFiniteSet(Names)
    BY WritingsAssumption, RangeIsFinite DEF Names
  <2>. QED  BY <2>1, FS_Subset DEF Model
<1>3. \A c \in DOMAIN m : IsFiniteSet(x[c].failures)
  BY <1>1, FailuresAreFinite DEF Model
<1> HIDE DEF x
<1>4. \A c, d \in DOMAIN m : Dependent(x, c, d) <=> Dependent(m, c, d)
  BY <1>1 DEF Dependent
<1>5. Closure(x) = Closure(m)
  BY <1>1, <1>4 DEF Closure
<1>. QED  BY <1>1, <1>2, <1>3, <1>5 DEF x

\* What every command that walks the failure graph relies on.
LEMMA GraphIs ==
    ASSUME NEW m, Model(m), \A n \in DOMAIN m : Resolved(m[n])
    PROVE  LET g == BuildGraph(Input(m)) IN
           /\ IsFiniteSet(g.nodes) /\ g.components = DOMAIN m /\ IsFiniteSet(DOMAIN m)
           /\ \A n \in g.nodes : n.on \in DOMAIN m
           /\ \A r \in DOMAIN m : /\ g.next[r] \in [g.nodes -> SUBSET g.nodes]
                                  /\ \A n \in g.nodes : \A k \in g.next[r][n] : n.on \in Closure(m)[k.on]
           /\ \A c \in DOMAIN m : FailuresOf(Input(m), c) \subseteq g.nodes /\ \A n \in FailuresOf(Input(m), c) : n.on = c
<1> DEFINE x == Input(m)
           g == BuildGraph(x)
<1>1. /\ DOMAIN x = DOMAIN m /\ IsFiniteSet(DOMAIN m) /\ Closure(x) = Closure(m)
      /\ \A c \in DOMAIN m : IsFiniteSet(x[c].failures)
  BY InputIs
<1> HIDE DEF x
<1>2. /\ IsFiniteSet(g.nodes) /\ g.components = DOMAIN x
      /\ g.nodes = UNION {{Node(c, s) : s \in x[c].failures} : c \in DOMAIN x}
      /\ \A n \in g.nodes : n.on \in DOMAIN x
      /\ \A r \in DOMAIN x : /\ g.next[r] \in [g.nodes -> SUBSET g.nodes]
                             /\ \A n \in g.nodes : \A k \in g.next[r][n] : n.on \in Closure(x)[k.on]
  BY <1>1, GraphOfModel
<1> HIDE DEF g
<1>3. ASSUME NEW c \in DOMAIN m PROVE FailuresOf(x, c) \subseteq g.nodes /\ \A n \in FailuresOf(x, c) : n.on = c
  <2>1. FailuresOf(x, c) = {Node(c, s) : s \in x[c].failures}
    BY DEF FailuresOf
  <2>2. \A s : Node(c, s).on = c
    BY DEF Node
  <2>. QED  BY <1>1, <1>2, <2>1, <2>2
<1>. QED  BY <1>1, <1>2, <1>3 DEF g, x

\* What a search leaves: the nodes it reached, the components beyond the root,
\* and the states each is driven into.
ReachedOf(w) == DOMAIN w.parent

BeyondOf(w, root) == {k.on : k \in ReachedOf(w)} \ {root}

StatesAt(w, c) == {k.state : k \in {x \in ReachedOf(w) : x.on = c}}

\* A search finds, beyond the root, exactly what some walk leads to; and
\* pathTo's way to the first state found of a component is a shortest walk.
LEMMA SearchFollowsWalks ==
    ASSUME NEW m, IsFiniteSet(DOMAIN m), \A n \in DOMAIN m : n \notin Closure(m)[n],
           NEW g, IsFiniteSet(g.nodes), g.components = DOMAIN m, \A n \in g.nodes : n.on \in DOMAIN m,
           NEW root \in DOMAIN m, g.next[root] \in [g.nodes -> SUBSET g.nodes],
           \A n \in g.nodes : \A k \in g.next[root][n] : n.on \in Closure(m)[k.on],
           NEW from \in SUBSET g.nodes, \A k \in from : k.on = root
    PROVE  LET w == Search(g, root, from) IN
           /\ {End(v) : v \in WalksOf(g, from)} = {k \in ReachedOf(w) : k.on # root}
           /\ \A c \in BeyondOf(w, root) :
                 \E v \in WalksOf(g, from) :
                    /\ End(v).on = c /\ FirstPath(w, c) = PathOf(v)
                    /\ \A u \in WalksOf(g, from) : End(u).on = c => Len(u) >= Len(v)
<1> DEFINE w == Search(g, root, from)
           next == g.next[root]
           R == Range(w.found)
<1>1. SearchInv(g, next, from, w) /\ w.queue = <<>>
  BY SearchResult
<1> HIDE DEF w
<1>2. PICK depth : Searched(g, next, from, w, depth)
  BY <1>1 DEF SearchInv, Searched
<1>3. /\ w.found \in Seq(g.nodes) /\ R \subseteq g.nodes /\ ReachedOf(w) = R
      /\ depth \in [R -> Nat \ {0}]
      /\ \A k \in R \ from : depth[k] = depth[w.parent[k]] + 1 /\ w.parent[k] \in R
      /\ \A i, j \in DOMAIN w.found : i <= j => depth[w.found[i]] <= depth[w.found[j]]
  <2>1. w.found \in Seq(g.nodes) /\ w.parent \in [R -> R]
    BY <1>2 DEF Searched, SearchTypes
  <2>2. R \subseteq g.nodes /\ ReachedOf(w) = R
    BY <2>1 DEF Range, ReachedOf
  <2>. QED  BY <1>2, <2>1, <2>2 DEF Searched, Rooted, Levelled
<1>4. \A p \in Seq(g.nodes) :
         IsWay(next, from, p) => Len(p) <= Cardinality(DOMAIN m) /\ (Len(p) > 1 => p[Len(p)].on # p[1].on)
  BY WayIsShort
<1>5. \A v : v \in WalksOf(g, from) <=> v \in Seq(g.nodes) /\ IsWay(next, from, v) /\ Len(v) >= 2
  <2>1. Cardinality(DOMAIN m) \in Nat
    BY FS_CardinalityType
  <2>2. \A p \in Seq(g.nodes) : IsWay(next, from, p) => Len(p) <= Cardinality(g.components)
    BY <1>4
  <2>3. Cardinality(g.components) \in Nat
    BY <2>1
  <2>. QED  BY <2>2, <2>3, WalksAre
<1>6. ASSUME NEW v \in WalksOf(g, from) PROVE End(v) \in R /\ depth[End(v)] <= Len(v) /\ End(v).on # root
  <2>1. v \in Seq(g.nodes) /\ IsWay(next, from, v) /\ Len(v) >= 2
    BY <1>5
  <2>2. v[1].on = root
    BY <2>1 DEF IsWay
  <2>3. Len(v) > 1
    BY <2>1
  <2> HIDE DEF R
  <2>. QED  BY <1>2, <1>4, <2>1, <2>2, <2>3, WayIsFound DEF End, R
<1>7. ASSUME NEW k \in R, k.on # root
      PROVE  \E v \in WalksOf(g, from) : /\ End(v) = k /\ Len(v) = depth[k]
                                         /\ PathTo(k, w.parent) = PathOf(v)
  <2>1. PICK p \in Seq(R) : /\ IsWay(next, from, p) /\ p[Len(p)] = k /\ Len(p) = depth[k]
                            /\ PathTo(k, w.parent) = PathOf(p)
    <3>1. k \in Range(w.found)
      OBVIOUS
    <3> HIDE DEF next
    <3>. QED  BY <1>2, <3>1, PathToIs
  <2>2. p \in Seq(g.nodes)
    <3>1. p \in [1..Len(p) -> R] /\ Len(p) \in Nat
      BY <2>1
    <3> HIDE DEF R
    <3>. QED  BY <1>3, <3>1
  <2>3. Len(p) >= 2
    <3>1. k \notin from
      BY <1>7
    <3>2. depth[k] = depth[w.parent[k]] + 1 /\ depth[w.parent[k]] \in Nat \ {0}
      BY <1>3, <3>1
    <3>. QED  BY <2>1, <3>2
  <2>4. p \in WalksOf(g, from)
    BY <1>5, <2>1, <2>2, <2>3
  <2>5. End(p) = k
    BY <2>1 DEF End
  <2>. QED  BY <2>1, <2>4, <2>5
<1>8. {End(v) : v \in WalksOf(g, from)} = {k \in R : k.on # root}
  <2> HIDE DEF R
  <2>1. \A v \in WalksOf(g, from) : End(v) \in {k \in R : k.on # root}
    BY <1>6
  <2>2. \A k \in {k \in R : k.on # root} : \E v \in WalksOf(g, from) : End(v) = k
    BY <1>7
  <2>. QED  BY <2>1, <2>2
<1>9. ASSUME NEW c \in {k.on : k \in R} \ {root}
      PROVE  \E v \in WalksOf(g, from) :
                /\ End(v).on = c /\ FirstPath(w, c) = PathOf(v)
                /\ \A u \in WalksOf(g, from) : End(u).on = c => Len(u) >= Len(v)
  <2> DEFINE at == {i \in DOMAIN w.found : w.found[i].on = c}
             f == w.found[Min(at)]
  <2>1. at \in SUBSET Nat /\ at # {}
    BY <1>3 DEF Range
  <2>2. Min(at) \in at /\ \A j \in at : Min(at) <= j
    <3> HIDE DEF at
    <3>. QED  BY <2>1, LeastOf
  <2>3. f \in R /\ f.on = c /\ f.on # root
    BY <2>2 DEF Range
  <2>4. FirstPath(w, c) = PathTo(f, w.parent)
    BY DEF FirstPath
  <2>5. ASSUME NEW k \in R, k.on = c PROVE depth[f] <= depth[k]
    <3>1. PICK j \in DOMAIN w.found : k = w.found[j]
      BY DEF Range
    <3>2. j \in at
      BY <2>5, <3>1
    <3> HIDE DEF R
    <3>. QED  BY <1>3, <2>2, <3>1, <3>2
  <2> HIDE DEF f, at
  <2>6. PICK v \in WalksOf(g, from) : /\ End(v) = f /\ Len(v) = depth[f]
                                      /\ PathTo(f, w.parent) = PathOf(v)
    BY <1>7, <2>3
  <2>7. ASSUME NEW u \in WalksOf(g, from), End(u).on = c PROVE Len(u) >= Len(v)
    <3>1. End(u) \in R /\ depth[End(u)] <= Len(u)
      BY <1>6
    <3>2. depth[f] <= depth[End(u)]
      BY <2>5, <2>7, <3>1
    <3>3. depth[f] \in Nat /\ depth[End(u)] \in Nat
      BY <1>3, <2>3, <3>1
    <3>4. Len(u) \in Nat
      BY <1>5
    <3>. QED  BY <2>6, <3>1, <3>2, <3>3, <3>4
  <2>. QED  BY <2>3, <2>4, <2>6, <2>7
<1>10. BeyondOf(w, root) = {k.on : k \in R} \ {root}
  BY <1>3 DEF BeyondOf
<1> HIDE DEF R
<1>11. {End(v) : v \in WalksOf(g, from)} = {k \in ReachedOf(w) : k.on # root}
  BY <1>3, <1>8
<1>12. ASSUME NEW c \in BeyondOf(w, root)
       PROVE  \E v \in WalksOf(g, from) :
                 /\ End(v).on = c /\ FirstPath(w, c) = PathOf(v)
                 /\ \A u \in WalksOf(g, from) : End(u).on = c => Len(u) >= Len(v)
  BY <1>9, <1>10
<1>. QED  BY <1>11, <1>12 DEF w

\* A report of an impact is of the model as it is.
ImpactInv ==
    Is("impact") =>
        /\ Valid(new)
        /\ \E n \in DOMAIN new : \E from \in Asked(Input(new), n) :
              report.impact = ImpactOf(BuildGraph(Input(new)), Input(new), n, from, Search(BuildGraph(Input(new)), n, from))

\* An edit takes the report away.
LEMMA NextImpact == ImpactInv /\ [Next]_vars => ImpactInv'
<1>. SUFFICES ASSUME ImpactInv, [Next]_vars PROVE ImpactInv'
  OBVIOUS
<1>1. CASE Read \/ ModelValidate \/ ModelDiff \/ ListClasses
  BY <1>1 DEF Read, ModelValidate, ModelDiff, Compare, ListClasses, ImpactInv, Is, NoReport
<1>2. CASE Write \/ Delete \/ Commit
  BY <1>2 DEF Write, Delete, Commit, ImpactInv, Is, NoReport
<1>3. CASE ModelImpact
  BY <1>3 DEF ModelImpact, ImpactInv
<1>4. CASE UNCHANGED vars
  BY <1>4 DEF vars, ImpactInv, Is
<1>. QED  BY <1>1, <1>2, <1>3, <1>4 DEF Next

\* What ImpactOf says of a component.
LEMMA AffectedIs ==
    ASSUME NEW g, NEW m, NEW root, NEW w
    PROVE  /\ \A a \in AllAffected(g, m, root, w) :
                 /\ a.on \in BeyondOf(w, root)
                 /\ a.states = StatesAt(w, a.on)
                 /\ a.path = FirstPath(w, a.on)
                 /\ a.symptom <=> g.dependents[a.on] = {}
           /\ \A c \in BeyondOf(w, root) : \E a \in AllAffected(g, m, root, w) : a.on = c
<1> DEFINE cs == BeyondOf(w, root)
           free == Unguarded(m, root, w.parent)
           as(c) == Affected(g, m, root, c, w, FirstPath(w, c), free)
<1>1. AllAffected(g, m, root, w) = {as(c) : c \in cs}
  BY DEF AllAffected, BeyondOf, ReachedOf
<1>2. \A c : /\ as(c).on = c /\ as(c).path = FirstPath(w, c)
             /\ as(c).states = StatesAt(w, c)
             /\ as(c).symptom <=> g.dependents[c] = {}
  BY DEF Affected, StatesAt, ReachedOf
<1> HIDE DEF as, cs
<1>3. ASSUME NEW a \in AllAffected(g, m, root, w)
      PROVE  /\ a.on \in cs /\ a.path = FirstPath(w, a.on)
             /\ a.states = StatesAt(w, a.on) /\ (a.symptom <=> g.dependents[a.on] = {})
  <2>1. PICK c \in cs : a = as(c)
    BY <1>1
  <2>2. a.on = c /\ a.path = FirstPath(w, c) /\ a.states = StatesAt(w, c) /\ (a.symptom <=> g.dependents[c] = {})
    BY <1>2, <2>1
  <2>. QED  BY <2>2
<1>4. ASSUME NEW c \in cs PROVE \E a \in AllAffected(g, m, root, w) : a.on = c
  BY <1>1, <1>2
<1>. QED  BY <1>3, <1>4 DEF cs

\* What holds of the report, whatever the model.
LEMMA ImpactIs ==
    ASSUME MInv, ImpactInv, Is("impact")
    PROVE  \A walks \in {WalksFrom(new, report.impact.from)} :
              \E w, root :
                 /\ {End(v) : v \in walks} = {k \in ReachedOf(w) : k.on # root}
                 /\ \A a \in report.impact.affected :
                       /\ a.on \in BeyondOf(w, root)
                       /\ a.states = StatesAt(w, a.on)
                       /\ \E v \in walks : /\ End(v).on = a.on /\ PathOf(v) = a.path
                                           /\ \A u \in walks : End(u).on = a.on => Len(u) >= Len(v)
                 /\ \A c \in BeyondOf(w, root) : \E a \in report.impact.affected : a.on = c
                 /\ \A b \in report.impact.blocked : b[1] \notin {k.on : k \in ReachedOf(w)}
<1>1. Model(new) /\ Valid(new)
  BY DEF MInv, ImpactInv
<1>2. Sound(new)
  BY <1>1, ValidIsSound DEF Valid
<1>3. \A n \in DOMAIN new : n \notin Closure(new)[n] /\ Resolved(new[n])
  BY <1>2 DEF Sound
<1> DEFINE x == Input(new)
           g == BuildGraph(x)
<1>4. PICK root \in DOMAIN new : \E from \in Asked(x, root) :
         report.impact = ImpactOf(g, x, root, from, Search(g, root, from))
  BY DEF ImpactInv
<1>5. PICK from \in Asked(x, root) : report.impact = ImpactOf(g, x, root, from, Search(g, root, from))
  BY <1>4
<1> DEFINE w == Search(g, root, from)
<1>6. from \subseteq FailuresOf(x, root)
  BY DEF Asked
<1>7. /\ IsFiniteSet(g.nodes) /\ g.components = DOMAIN new /\ IsFiniteSet(DOMAIN new)
      /\ \A n \in g.nodes : n.on \in DOMAIN new
      /\ g.next[root] \in [g.nodes -> SUBSET g.nodes]
      /\ \A n \in g.nodes : \A k \in g.next[root][n] : n.on \in Closure(new)[k.on]
      /\ FailuresOf(x, root) \subseteq g.nodes /\ \A n \in FailuresOf(x, root) : n.on = root
  <2> HIDE DEF g, x
  <2>. QED  BY <1>1, <1>3, GraphIs DEF g, x
<1>8. from \in SUBSET g.nodes /\ \A k \in from : k.on = root
  BY <1>6, <1>7
<1>9. WalksFrom(new, from) = WalksOf(g, from)
  BY DEF WalksFrom, WalksOf, GraphOf, The
<1> HIDE DEF g, x
<1>10. /\ {End(v) : v \in WalksOf(g, from)} = {k \in ReachedOf(w) : k.on # root}
       /\ \A c \in BeyondOf(w, root) :
             \E v \in WalksOf(g, from) :
                /\ End(v).on = c /\ FirstPath(w, c) = PathOf(v)
                /\ \A u \in WalksOf(g, from) : End(u).on = c => Len(u) >= Len(v)
  BY <1>3, <1>7, <1>8, SearchFollowsWalks
<1> HIDE DEF w
<1>11. /\ report.impact.from = from /\ report.impact.affected = AllAffected(g, x, root, w)
       /\ report.impact.blocked = Blocked(g, root, w)
  BY <1>5 DEF ImpactOf, w
<1>12. \A b \in Blocked(g, root, w) : b[1] \notin {k.on : k \in ReachedOf(w)}
  BY DEF Blocked, ReachedOf
<1> DEFINE W == WalksOf(g, from)
           cs == BeyondOf(w, root)
<1>13. \A a \in AllAffected(g, x, root, w) :
          /\ a.on \in cs /\ a.states = StatesAt(w, a.on)
          /\ a.path = FirstPath(w, a.on)
  BY AffectedIs
<1>14. \A c \in cs : \E a \in AllAffected(g, x, root, w) : a.on = c
  BY AffectedIs
<1>15. \A c \in cs : \E v \in W : /\ End(v).on = c /\ FirstPath(w, c) = PathOf(v)
                                  /\ \A u \in W : End(u).on = c => Len(u) >= Len(v)
  BY <1>10
<1>16. ASSUME NEW a \in AllAffected(g, x, root, w)
       PROVE  \E v \in W : /\ End(v).on = a.on /\ PathOf(v) = a.path
                           /\ \A u \in W : End(u).on = a.on => Len(u) >= Len(v)
  <2> HIDE DEF W, cs
  <2>. QED  BY <1>13, <1>15
<1>17. WalksFrom(new, report.impact.from) = W
  BY <1>9, <1>11
<1>18. {End(v) : v \in W} = {k \in ReachedOf(w) : k.on # root}
  BY <1>10
<1> HIDE DEF W
<1>. SUFFICES ASSUME NEW walks \in {W}
              PROVE  /\ {End(v) : v \in walks} = {k \in ReachedOf(w) : k.on # root}
                     /\ \A a \in AllAffected(g, x, root, w) :
                           /\ a.on \in cs
                           /\ a.states = StatesAt(w, a.on)
                           /\ \E v \in walks : /\ End(v).on = a.on /\ PathOf(v) = a.path
                                               /\ \A u \in walks : End(u).on = a.on => Len(u) >= Len(v)
                     /\ \A c \in cs : \E a \in AllAffected(g, x, root, w) : a.on = c
                     /\ \A b \in Blocked(g, root, w) : b[1] \notin {k.on : k \in ReachedOf(w)}
  BY <1>11, <1>17
<1>. QED  BY <1>12, <1>13, <1>14, <1>16, <1>18

\* mgtt model impact: the states said to break are exactly those some chain of
\* the failure leads to, and a dependent said to hold is on none, for any model.
THEOREM ImpactIsExact == Spec => []ImpactFollowsChains
<1>1. Init => ImpactInv
  BY DEF Init, ImpactInv, Is, NoReport
<1>2. MInv /\ ImpactInv => ImpactFollowsChains
  <2>. SUFFICES ASSUME MInv, ImpactInv, Is("impact"),
                       NEW ends \in {{End(v) : v \in WalksFrom(new, report.impact.from)}}
                PROVE  /\ UNION {{<<a.on, s>> : s \in a.states} : a \in report.impact.affected}
                             = {<<n.on, n.state>> : n \in ends}
                       /\ \A b \in report.impact.blocked : \A n \in ends : n.on # b[1]
    BY DEF ImpactFollowsChains
  <2>1. PICK w, root :
           /\ {End(v) : v \in WalksFrom(new, report.impact.from)} = {k \in ReachedOf(w) : k.on # root}
           /\ \A a \in report.impact.affected :
                 /\ a.on \in BeyondOf(w, root)
                 /\ a.states = StatesAt(w, a.on)
           /\ \A c \in BeyondOf(w, root) : \E a \in report.impact.affected : a.on = c
           /\ \A b \in report.impact.blocked : b[1] \notin {k.on : k \in ReachedOf(w)}
    BY ImpactIs
  <2>2. ends = {k \in ReachedOf(w) : k.on # root}
    BY <2>1
  <2>3. ASSUME NEW k \in ends PROVE \E a \in report.impact.affected : k.on = a.on /\ k.state \in a.states
    <3>1. k \in ReachedOf(w) /\ k.on \in BeyondOf(w, root) /\ k.state \in StatesAt(w, k.on)
      BY <2>2 DEF BeyondOf, StatesAt
    <3>. QED  BY <2>1, <3>1
  <2>4. ASSUME NEW a \in report.impact.affected, NEW s \in a.states
        PROVE  \E k \in ends : a.on = k.on /\ s = k.state
    <3>1. a.on # root /\ s \in StatesAt(w, a.on)
      BY <2>1 DEF BeyondOf
    <3>. QED  BY <2>2, <3>1 DEF StatesAt
  <2>5. \A b \in report.impact.blocked : \A n \in ends : n.on # b[1]
    BY <2>1, <2>2
  <2>. QED  BY <2>3, <2>4, <2>5
<1>. QED  BY <1>1, <1>2, InitModels, NextModels, NextImpact, PTL DEF Spec

\* And the path shown to a component is a chain the failure can take, as short
\* as any that leads there.
THEOREM PathsAreChains == Spec => []PathsAreShortest
<1>1. Init => ImpactInv
  BY DEF Init, ImpactInv, Is, NoReport
<1>2. MInv /\ ImpactInv => PathsAreShortest
  <2>. SUFFICES ASSUME MInv, ImpactInv, Is("impact"), NEW ways \in {WalksFrom(new, report.impact.from)},
                       NEW a \in report.impact.affected
                PROVE  /\ \E w \in ways : End(w).on = a.on /\ [i \in DOMAIN w |-> w[i].on] = a.path
                       /\ \A w \in ways : End(w).on = a.on => Len(w) >= Len(a.path)
    BY DEF PathsAreShortest
  <2>1. PICK v \in ways : /\ End(v).on = a.on /\ PathOf(v) = a.path
                          /\ \A u \in ways : End(u).on = a.on => Len(u) >= Len(v)
    BY ImpactIs
  <2>2. Len(a.path) = Len(v)
    <3>1. v \in UNION {[1..n -> BuildGraph(Input(new)).nodes] : n \in 2..Cardinality(BuildGraph(Input(new)).components)}
      BY DEF WalksFrom, RootWalks, GraphOf, The
    <3>2. PICK n \in Nat : v \in [1..n -> BuildGraph(Input(new)).nodes]
      BY <3>1
    <3>3. a.path = [i \in 1..n |-> v[i].on]
      BY <2>1, <3>2 DEF PathOf
    <3>. QED  BY <3>2, <3>3
  <2>. QED  BY <2>1, <2>2 DEF PathOf
<1>. QED  BY <1>1, <1>2, InitModels, NextModels, NextImpact, PTL DEF Spec

-----------------------------------------------------------------------------
(* Roots and symptoms.                                                     *)

\* The graph of a model that passes validation has no way down for ever.
LEMMA GraphIsRanked ==
    ASSUME NEW m, Model(m), Sound(m)
    PROVE  Ranked(BuildGraph(Input(m)), DepthOf(Input(m), BuildGraph(Input(m))))
<1>1. Layered(Input(m))
  BY InputIs DEF Layered, Sound
<1>. QED  BY <1>1, LayeredIsRanked

\* symptomsReached: what a component's failure breaks that nothing depends on
\* is what its walks end in that nothing depends on.
LEMMA SymptomsAreEnds ==
    ASSUME NEW m, Model(m), Sound(m)
    PROVE  LET x == Input(m)
               g == BuildGraph(x)
           IN  Reach(g, x) = Listing(g, x)
<1> DEFINE x == Input(m)
           g == BuildGraph(x)
           atTop == {k \in DOMAIN x : \A d \in DOMAIN x : ~Dependent(x, d, k)}
           ends(n) == {End(w).on : w \in WalksOf(g, FailuresOf(x, n))}
<1>1. /\ IsFiniteSet(g.nodes) /\ g.components = DOMAIN m /\ IsFiniteSet(DOMAIN m)
      /\ \A n \in g.nodes : n.on \in DOMAIN m
      /\ \A r \in DOMAIN m : /\ g.next[r] \in [g.nodes -> SUBSET g.nodes]
                             /\ \A n \in g.nodes : \A k \in g.next[r][n] : n.on \in Closure(m)[k.on]
      /\ \A c \in DOMAIN m : FailuresOf(x, c) \subseteq g.nodes /\ \A n \in FailuresOf(x, c) : n.on = c
  <2> HIDE DEF g, x
  <2>. QED  BY GraphIs DEF Sound, g, x
<1>2. \A c \in DOMAIN m : c \notin Closure(m)[c]
  BY DEF Sound
<1>3. DOMAIN x = DOMAIN m
  BY DEF Input
<1>4. \A c \in DOMAIN x : g.dependents[c] = {} <=> c \in atTop
  <2> HIDE DEF x
  <2>1. g = GraphFrom(x, Closure(x))
    BY DEF BuildGraph, The
  <2>2. \A c \in DOMAIN x : g.dependents[c] = {d \in DOMAIN x : Dependent(x, d, c)}
    BY <2>1 DEF GraphFrom
  <2> HIDE DEF g
  <2>. QED  BY <2>2
<1>5. CountChains(g) = Cardinality(Expand(g))
  <2> HIDE DEF g, x
  <2>. QED  BY GraphIsRanked, ChainsAreCounted DEF g, x
<1> HIDE DEF x, g, atTop
<1>6. ASSUME NEW n \in DOMAIN x PROVE Symptoms(g, x, n) = ends(n) \cap atTop
  <2> DEFINE from == FailuresOf(x, n)
             w == Search(g, n, from)
             all == AllAffected(g, x, n, w)
             cs == BeyondOf(w, n)
  <2>1. Symptoms(g, x, n) = {a.on : a \in {b \in all : b.symptom}}
    BY DEF Symptoms, ImpactOf
  <2>2. {End(v) : v \in WalksOf(g, from)} = {k \in ReachedOf(w) : k.on # n}
    <3>1. n \in DOMAIN m /\ from \in SUBSET g.nodes /\ \A k \in from : k.on = n
      BY <1>1, <1>3
    <3>2. g.next[n] \in [g.nodes -> SUBSET g.nodes] /\ \A a \in g.nodes : \A k \in g.next[n][a] : a.on \in Closure(m)[k.on]
      BY <1>1, <3>1
    <3> HIDE DEF from
    <3>. QED  BY <1>1, <1>2, <3>1, <3>2, SearchFollowsWalks
  <2>3. ends(n) = cs
    <3> HIDE DEF from, w
    <3>1. \A c : c \in cs <=> \E k \in {k \in ReachedOf(w) : k.on # n} : k.on = c
      BY DEF BeyondOf
    <3>2. ends(n) = {End(v).on : v \in WalksOf(g, from)}
      BY DEF from
    <3>3. \A c : c \in ends(n) <=> \E k \in {End(v) : v \in WalksOf(g, from)} : k.on = c
      BY <3>2
    <3> HIDE DEF ends, cs
    <3>. QED  BY <2>2, <3>1, <3>3
  <2>4. cs \subseteq DOMAIN x
    <3>1. ends(n) \subseteq DOMAIN x
      <4>1. ASSUME NEW v \in WalksOf(g, from) PROVE End(v).on \in DOMAIN x
        <5>1. PICK k \in from : v \in RootWalks(g, k)
          BY DEF WalksOf
        <5>2. PICK l \in 2..Cardinality(g.components) : v \in [1..l -> g.nodes]
          BY <5>1 DEF RootWalks
        <5>3. End(v) \in g.nodes
          <6>1. Cardinality(g.components) \in Nat
            BY <1>1, FS_CardinalityType
          <6>2. l \in 1..l /\ Len(v) = l
            BY <5>2, <6>1
          <6>. QED  BY <5>2, <6>2 DEF End
        <5>. QED  BY <1>1, <1>3, <5>3
      <4>. QED  BY <4>1
    <3>. QED  BY <2>3, <3>1
  <2>5. \A a \in all : a.on \in cs
    BY AffectedIs
  <2>6. \A c \in cs : \E a \in all : a.on = c
    BY AffectedIs
  <2>7. \A a \in all : a.symptom <=> g.dependents[a.on] = {}
    BY AffectedIs
  <2> HIDE DEF all, cs, ends
  <2>8. \A a \in all : a.symptom <=> a.on \in atTop
    BY <1>4, <2>4, <2>5, <2>7
  <2>9. {a.on : a \in {b \in all : b.symptom}} = cs \cap atTop
    BY <2>5, <2>6, <2>8
  <2>. QED  BY <2>1, <2>3, <2>9
<1>7. Reach(g, x) = [of |-> [n \in DOMAIN x |-> Symptoms(g, x, n)], chains |-> CountChains(g)]
  BY DEF Reach
<1>8. Listing(g, x) = [of |-> [n \in DOMAIN x |-> ends(n) \cap atTop], chains |-> Cardinality(Expand(g))]
  <2> DEFINE of(n) == UNION {{End(w).on : w \in RootWalks(g, k)} : k \in FailuresOf(x, n)}
  <2>1. Listing(g, x) = [of |-> [n \in DOMAIN x |-> of(n) \cap atTop], chains |-> Cardinality(Expand(g))]
    BY DEF Listing, atTop
  <2>2. \A n : of(n) = ends(n)
    BY DEF WalksOf
  <2> HIDE DEF of, ends
  <2>3. [n \in DOMAIN x |-> of(n) \cap atTop] = [n \in DOMAIN x |-> ends(n) \cap atTop]
    BY <2>2
  <2>. QED  BY <2>1, <2>3
<1> HIDE DEF ends
<1>9. [n \in DOMAIN x |-> Symptoms(g, x, n)] = [n \in DOMAIN x |-> ends(n) \cap atTop]
  BY <1>6
<1>10. Reach(g, x) = Listing(g, x)
  BY <1>5, <1>7, <1>8, <1>9
<1>. QED  BY <1>10 DEF g, x

\* What model diff says is of the two revisions, both of which pass validation.
Reached(m) == Reach(BuildGraph(Input(m)), Input(m))

ReachInv == Is("diff") => Valid(old) /\ Valid(new) /\ report = Compare(old, new, Reached(old), Reached(new))

\* A report is withdrawn whenever either revision changes.
LEMMA NextReach == ReachInv /\ [Next]_vars => ReachInv'
<1>. SUFFICES ASSUME ReachInv, [Next]_vars PROVE ReachInv'
  OBVIOUS
<1>1. CASE Read \/ ModelValidate \/ ModelImpact \/ ListClasses
  BY <1>1 DEF Read, ModelValidate, ModelImpact, ListClasses, ReachInv, Is, NoReport
<1>2. CASE Write \/ Delete \/ Commit
  BY <1>2 DEF Write, Delete, Commit, ReachInv, Is, NoReport
<1>3. CASE ModelDiff
  <2>1. PICK reach : /\ reach = [m \in {old, new} |-> The(UNION {{Reach(g, x) : g \in {BuildGraph(x)}} : x \in {Input(m)}})]
                     /\ report' = Compare(old, new, reach[old], reach[new])
    BY <1>3 DEF ModelDiff
  <2>2. \A m : The(UNION {{Reach(g, x) : g \in {BuildGraph(x)}} : x \in {Input(m)}}) = Reached(m)
    <3>1. \A m : UNION {{Reach(g, x) : g \in {BuildGraph(x)}} : x \in {Input(m)}} = {Reached(m)}
      BY DEF Reached
    <3>. QED  BY <3>1 DEF The
  <2>3. reach[old] = Reached(old) /\ reach[new] = Reached(new)
    BY <2>1, <2>2
  <2>4. Valid(old) /\ Valid(new) /\ old' = old /\ new' = new
    BY <1>3 DEF ModelDiff
  <2>5. report' = Compare(old, new, Reached(old), Reached(new))
    BY <2>1, <2>3
  <2>. QED  BY <2>4, <2>5 DEF ReachInv
<1>4. CASE UNCHANGED vars
  BY <1>4 DEF vars, ReachInv, Is
<1>. QED  BY <1>1, <1>2, <1>3, <1>4 DEF Next

\* mgtt model diff: the scenario counts it gives are those of the two listings,
\* though it makes none, and a component is said to gain or lose a symptom
\* exactly when a walk of its failures does, for any two revisions.
THEOREM DiffIsOfListings == Spec => []DiffFollowsChains
<1>1. Init => ReachInv
  BY DEF Init, ReachInv, Is, NoReport
<1>2. ASSUME MInv, ReachInv PROVE DiffFollowsChains
  <2>. SUFFICES ASSUME Is("diff"),
                       NEW seen \in {[m \in {old, new} |-> The(UNION {{Listing(g, x) : g \in {BuildGraph(x)}} : x \in {Input(m)}})]}
                PROVE  /\ report.counts = <<seen[old].chains, seen[new].chains>>
                       /\ report.reach = {<<n, seen[new].of[n] \ seen[old].of[n], seen[old].of[n] \ seen[new].of[n]>> :
                                             n \in {k \in DOMAIN old \cap DOMAIN new : seen[old].of[k] # seen[new].of[k]}}
    BY DEF DiffFollowsChains
  <2>1. Sound(old) /\ Sound(new) /\ Model(old) /\ Model(new)
    BY <1>2, ValidIsSound DEF ReachInv, Valid, MInv
  <2>2. report = Compare(old, new, Reached(old), Reached(new))
    BY <1>2 DEF ReachInv
  <2>3. \A m : The(UNION {{Listing(g, x) : g \in {BuildGraph(x)}} : x \in {Input(m)}})
                  = Listing(BuildGraph(Input(m)), Input(m))
    <3>1. \A m : UNION {{Listing(g, x) : g \in {BuildGraph(x)}} : x \in {Input(m)}}
                    = {Listing(BuildGraph(Input(m)), Input(m))}
      OBVIOUS
    <3>. QED  BY <3>1 DEF The
  <2>4. seen[old] = Reached(old) /\ seen[new] = Reached(new)
    <3>1. Reached(old) = Listing(BuildGraph(Input(old)), Input(old))
      BY <2>1, SymptomsAreEnds DEF Reached
    <3>2. Reached(new) = Listing(BuildGraph(Input(new)), Input(new))
      BY <2>1, SymptomsAreEnds DEF Reached
    <3>. QED  BY <2>3, <3>1, <3>2
  <2>. QED  BY <2>2, <2>4 DEF Compare
<1>. QED  BY <1>1, <1>2, InitModels, NextModels, NextReach, PTL DEF Spec

-----------------------------------------------------------------------------
(* The classes of scenarios.                                               *)

\* What listScenarios answers with is of the model, and of some facts.
ClassInv ==
    Is("classes") =>
        /\ Valid(new)
        /\ LET g == BuildGraph(Input(new)) IN
           report.classes = Classes(g, RankIn(g), Without(g, report.gone, report.shut))

LEMMA NextClasses == ClassInv /\ [Next]_vars => ClassInv'
<1>. SUFFICES ASSUME ClassInv, [Next]_vars PROVE ClassInv'
  OBVIOUS
<1>1. CASE Read \/ ModelValidate \/ ModelImpact \/ ModelDiff
  BY <1>1 DEF Read, ModelValidate, ModelImpact, ModelDiff, Compare, ClassInv, Is, NoReport
<1>2. CASE Write \/ Delete \/ Commit
  BY <1>2 DEF Write, Delete, Commit, ClassInv, Is, NoReport
<1>3. CASE ListClasses
  <2>1. PICK gone, shut : LET g == BuildGraph(Input(new)) IN
           report' = [kind |-> "classes", gone |-> gone, shut |-> shut,
                      classes |-> Classes(g, RankIn(g), Without(g, gone, shut))]
    BY <1>3 DEF ListClasses, GraphOf, The
  <2>2. Valid(new) /\ new' = new
    BY <1>3 DEF ListClasses
  <2>. QED  BY <2>1, <2>2 DEF ClassInv, Is
<1>4. CASE UNCHANGED vars
  BY <1>4 DEF vars, ClassInv, Is
<1>. QED  BY <1>1, <1>2, <1>3, <1>4 DEF Next

\* The agent server's list of scenarios: for any model that passes validation
\* and whatever the facts contradict, each root and symptom has its class of
\* live chains and of dead ones as the listing has them, with their number
\* and the first in the scenario order, though no chain is listed.
THEOREM ClassesAreOfListing == Spec => []ClassesMatchListing
<1>1. Init => ClassInv
  BY DEF Init, ClassInv, Is, NoReport
<1>2. ASSUME MInv, ClassInv PROVE ClassesMatchListing
  <2> DEFINE g == BuildGraph(Input(new))
             live == Without(g, report.gone, report.shut)
             lives == LiveOf(Expand(g), live)
  <2>. SUFFICES ASSUME Is("classes")
                PROVE  report.classes = Representatives(RankIn(g), lives, FALSE)
                                        \cup Representatives(RankIn(g), Expand(g) \ lives, TRUE)
    <3>1. GraphOf(new) = g
      BY DEF GraphOf, The
    <3>. QED  BY <3>1 DEF ClassesMatchListing
  <2>1. Sound(new) /\ Model(new)
    BY <1>2, ValidIsSound DEF ClassInv, Valid, MInv
  <2>2. Ranked(g, DepthOf(Input(new), g))
    BY <2>1, GraphIsRanked
  <2>3. report.classes = Classes(g, RankIn(g), live)
    BY <1>2 DEF ClassInv
  <2> HIDE DEF g, live
  <2>4. Orders(RankIn(g), g.nodes)
    BY <2>2, RankOrders DEF Ranked
  <2>. QED  BY <2>2, <2>3, <2>4, ClassesAre
<1>. QED  BY <1>1, <1>2, InitModels, NextModels, NextClasses, PTL DEF Spec

=============================================================================
