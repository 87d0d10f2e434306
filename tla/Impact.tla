------------------------------- MODULE Impact -------------------------------
(***************************************************************************)
(* `mgtt model impact` (internal/scenarios/impact.go): what breaks if a    *)
(* component fails.  A breadth-first walk of the failure graph finds every *)
(* component the failure reaches, a shortest path to it, the groups that   *)
(* stop the failure and the while: guards it has to cross.                 *)
(***************************************************************************)
EXTENDS EnumerationGraph

NoGuard == ""

\* A component's failure states.
FailuresOf(m, c) == {Node(c, s) : s \in m[c].failures}

\* One turn of ImpactOf's queue with what it finds new; parent records where
\* a node was come from.
TurnTo(walk, new) ==
    [queue  |-> Tail(walk.queue) \o new,
     found  |-> walk.found \o new,
     parent |-> [k \in DOMAIN walk.parent \cup Range(new) |->
                    IF k \in DOMAIN walk.parent THEN walk.parent[k] ELSE Head(walk.queue)]]

\* Mutant: a component found in one state is not looked at in another.
TurnByComponent(g, root, walk) ==
    TurnTo(walk, SetToSeq({k \in g.next[root][Head(walk.queue)] : \A n \in DOMAIN walk.parent : n.on # k.on}))

\* Mutant: a node found again is said to have come from there.
TurnLastWay(g, root, walk) ==
    LET all == g.next[root][Head(walk.queue)]
    IN  [TurnTo(walk, SetToSeq(all \ DOMAIN walk.parent)) EXCEPT
            !.parent = [k \in all |-> Head(walk.queue)] @@ @]

\* The dependents are found in the order of their names, each in the order of
\* its states; here the order is any fixed one.
Turn(g, root, walk) == TurnTo(walk, SetToSeq(g.next[root][Head(walk.queue)] \ DOMAIN walk.parent))

\* ImpactOf's search, from some of root's failure states: every node is taken
\* from the queue once.
Search(g, root, from) ==
    LET start == [queue |-> SetToSeq(from), found |-> SetToSeq(from), parent |-> [n \in from |-> n]]
        after[n \in 0..Cardinality(g.nodes)] ==
          IF n = 0 THEN start
          ELSE The({IF w.queue = <<>> THEN w ELSE Turn(g, root, w) : w \in {after[n - 1]}})
    IN  after[Cardinality(g.nodes)]

\* pathTo: one step back for every node at most.
PathTo(node, parent) ==
    LET back[n \in 0..Cardinality(DOMAIN parent)] ==
          IF n = 0 THEN <<node>>
          ELSE The({IF parent[Head(p)] = Head(p) THEN p ELSE <<parent[Head(p)]>> \o p : p \in {back[n - 1]}})
    IN  The({[i \in DOMAIN p |-> p[i].on] : p \in {back[Cardinality(DOMAIN parent)]}})

\* guard: the while of parent's first dependency on child.
Guard(m, child, parent) ==
    LET on == {i \in DOMAIN m[parent].depends : child \in Range(m[parent].depends[i].on)}
    IN  IF on = {} THEN NoGuard ELSE m[parent].depends[Min(on)].while

\* unguardedReach: along the tree the search left behind.
Unguarded(m, root, parent) ==
    LET more(free) == free \cup {k.on : k \in {x \in DOMAIN parent : /\ parent[x] # x
                                                                     /\ parent[x].on \in free
                                                                     /\ Guard(m, parent[x].on, x.on) = NoGuard}}
    IN  FoldLeft(LAMBDA free, n : The({more(f) : f \in {free}}), {root},
                 [n \in 1..Cardinality(DOMAIN m) |-> n])

\* conditionsFor: the guards into the first guarded component of the path.
Conditions(m, root, path, free, reached) ==
    LET gate == path[Min({i \in DOMAIN path : path[i] \notin free})] IN
    {[on |-> x[2], while |-> x[1].while] :
        x \in {y \in Range(m[gate].depends) \X ({root} \cup reached) :
                  y[1].while # NoGuard /\ y[2] \in Range(y[1].on)}}

\* What the failure of root does to c, and what it cannot do.
Affected(g, m, root, c, walk, path, free) ==
    LET reached == {n.on : n \in DOMAIN walk.parent} \ {root}
    IN  [on         |-> c,
         states     |-> {n.state : n \in {x \in DOMAIN walk.parent : x.on = c}},
         path       |-> path,
         symptom    |-> g.dependents[c] = {},
         conditions |-> IF c \in free THEN {} ELSE Conditions(m, root, path, free, reached)]

\* The path to the first of c's states the search found.
FirstPath(walk, c) ==
    PathTo(walk.found[Min({i \in DOMAIN walk.found : walk.found[i].on = c})], walk.parent)

AllAffected(g, m, root, walk) ==
    UNION {{Affected(g, m, root, c, walk, path, free) :
               path \in {FirstPath(walk, c)}, free \in {Unguarded(m, root, walk.parent)}} :
             c \in {n.on : n \in DOMAIN walk.parent} \ {root}}

Blocked(g, root, walk) ==
    LET looked == {n.on : n \in DOMAIN walk.parent} IN
    {b \in (g.components \ looked) \X looked : b[1] \in g.dependents[b[2]] \ g.carried[root][b[2]]}

\* ImpactOf
ImpactOf(g, m, root, from, walk) ==
    [root     |-> root,
     from     |-> from,
     affected |-> AllAffected(g, m, root, walk),
     blocked  |-> Blocked(g, root, walk)]

=============================================================================
