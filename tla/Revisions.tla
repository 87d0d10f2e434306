----------------------------- MODULE Revisions ------------------------------
(***************************************************************************)
(* A model as its author changes it, and the commands that read it without *)
(* any live system: `mgtt model validate` (internal/model/validate.go),    *)
(* `mgtt model impact` (internal/scenarios/impact.go), `mgtt model diff`   *)
(* against the committed revision (internal/modeldiff), and the agent      *)
(* server's listing of scenario classes (internal/scenarios/classes.go).   *)
(*                                                                         *)
(* A revision is a function from component names to components as written. *)
(* A rule, a state's when and a while: guard are names: what they evaluate *)
(* to is Health's matter.                                                  *)
(***************************************************************************)
EXTENDS Impact

CONSTANTS
    Order,      \* every name a component may get or depend on, in declaration order
    Registry,   \* [provider -> [type -> [states, default, causes, healthy, facts]]]
    Providers,  \* the model's providers: list
    Writings,   \* [name -> the components an author may write under it]
    Base,       \* the committed revision to begin with
    MaxEdits    \* edits of a run

VARIABLES old, new, edits, report

vars == <<old, new, edits, report>>

Names == Range(Order)

\* A component as a file has it: what is a list is one.
Written(c) ==
    /\ c.depends \in Seq(Range(c.depends)) /\ c.states \in Seq(Range(c.states))
    /\ \A d \in Range(c.depends) : d.on \in Seq(Names)

ASSUME WritingsAssumption ==
    /\ Order \in Seq(Names)
    /\ DOMAIN Base \subseteq Names
    /\ \A n \in DOMAIN Base : Written(Base[n])
    /\ \A n \in Names : \A c \in Writings[n] : Written(c)

NoReport == [kind |-> "none"]

-----------------------------------------------------------------------------
(* The effective type and rules.                                           *)

Unresolved == <<>>

Has(provider, name) == provider \in DOMAIN Registry /\ name \in DOMAIN Registry[provider]

\* Registry.ResolveType: a type named with its provider is that provider's;
\* another is that of the first provider listed that has it, or else the
\* built-in generic component.  (strict_types and a component's own
\* providers: are left out.)
ResolvedAs(c) ==
    LET hits == {i \in DOMAIN Providers : Has(Providers[i], c.type.name)} IN
    CASE c.type.provider # "" -> IF Has(c.type.provider, c.type.name)
                                   THEN <<c.type.provider, c.type.name>> ELSE Unresolved
      [] c.type.provider = "" /\ hits # {} -> <<Providers[Min(hits)], c.type.name>>
      [] OTHER -> <<"generic", "component">>

Resolved(c) == ResolvedAs(c) # Unresolved
TypeOf(c)   == Registry[ResolvedAs(c)[1]][ResolvedAs(c)[2]]

\* The built-in generic component is always there; a type's states are a list.
ASSUME RegistryAssumption ==
    /\ Providers \in Seq(Range(Providers))
    /\ Has("generic", "component")
    /\ \A p \in DOMAIN Registry : \A t \in DOMAIN Registry[p] :
          "states" \in DOMAIN Registry[p][t] /\ Registry[p][t].states \in Seq(Range(Registry[p][t].states))

\* ResolveType: the component's own states first, its healthy_in states
\* healthy, its failure_modes over the type's.
ResolveType(c, t) ==
    LET own(s) == IF s.verdict # "broken" /\ s.name \in c.healthyIn
                    THEN [s EXCEPT !.verdict = "healthy"] ELSE s
    IN  [t EXCEPT !.states = [i \in 1..Len(c.states \o @) |-> own((c.states \o @)[i])],
                  !.causes = c.causes @@ @]

\* effective
HealthyRules(c) ==
    LET typ == IF Resolved(c) THEN TypeOf(c).healthy ELSE {} IN
    CASE c.healthy = {} -> typ
      [] c.healthy # {} /\ c.mode = "add" -> typ \cup c.healthy
      [] OTHER -> c.healthy

\* What BuildGraph makes of a component of type t: its failure states, those
\* that are neither its default nor healthy; nothing when it has no type.
FailureModes(t) ==
    {[name        |-> s.name,
      emits       |-> IF s.name \in DOMAIN t.causes THEN t.causes[s.name] ELSE {},
      triggeredBy |-> s.triggeredBy] :
        s \in {x \in Range(t.states) : x.name # t.default /\ x.verdict # "healthy"}}

Projected(c) ==
    IF ~Resolved(c) THEN [depends |-> c.depends, failures |-> {}, observes |-> FALSE]
    ELSE [depends  |-> c.depends,
          failures |-> FailureModes(ResolveType(c, TypeOf(c))),
          observes |-> TypeOf(c).facts # {}]

Input(m) == [n \in DOMAIN m |-> Projected(m[n])]

GraphOf(m) == The({BuildGraph(x) : x \in {Input(m)}})

-----------------------------------------------------------------------------
(* DetectCycle: a depth-first search that colours what it has seen.        *)

\* Mutant: whatever was seen before closes a cycle.
DfsStepSeen(adj, d) ==
    LET node == Last(d.stack) IN
    IF adj[node] = <<>> THEN [d EXCEPT !.stack = Front(@), !.black = @ \cup {node}]
    ELSE LET hit == {i \in DOMAIN adj[node] : adj[node][i] \in Range(d.stack) \cup d.black}
             next == {i \in DOMAIN adj[node] : adj[node][i] \notin d.black}
         IN  IF hit # {} THEN [d EXCEPT !.cycle = <<adj[node][Min(hit)], node, adj[node][Min(hit)]>>]
             ELSE [d EXCEPT !.stack = Append(@, adj[node][Min(next)])]

\* One turn: the first neighbour that is not black is on the stack (gray),
\* and closes a cycle, or is white, and is visited next.
DfsStep(adj, d) ==
    LET node == Last(d.stack)
        open == {i \in DOMAIN adj[node] : adj[node][i] \notin d.black}
        next == adj[node][Min(open)]
    IN  IF open = {} THEN [d EXCEPT !.stack = Front(@), !.black = @ \cup {node}]
        ELSE IF next \in Range(d.stack)
          THEN [d EXCEPT !.cycle = Append(SubSeq(d.stack, Min({i \in DOMAIN d.stack : d.stack[i] = next}),
                                                 Len(d.stack)), next)]
        ELSE [d EXCEPT !.stack = Append(@, next)]

\* The search goes on with the first of the names that is still white.
DfsTurn(adj, names, d) ==
    LET white == {i \in DOMAIN Order : Order[i] \in names \ d.black}
    IN  IF d.cycle # <<>> THEN d
        ELSE IF d.stack # <<>> THEN DfsStep(adj, d)
        ELSE IF white # {} THEN [d EXCEPT !.stack = <<Order[Min(white)]>>] ELSE d

\* Every name is pushed once and taken off once.
Coloured(adj, names) ==
    LET after[n \in 0..(2 * Len(Order))] ==
          IF n = 0 THEN [stack |-> <<>>, black |-> {}, cycle |-> <<>>]
          ELSE The({DfsTurn(adj, names, d) : d \in {after[n - 1]}})
    IN  after[2 * Len(Order)]

\* NewDepGraph: a name that is not a component has no neighbours.
Neighbours(m) ==
    [n \in Names |-> IF n \notin DOMAIN m THEN <<>>
                     ELSE FlattenSeq([i \in DOMAIN m[n].depends |-> m[n].depends[i].on])]

DetectCycle(m) == The({Coloured(adj, DOMAIN m).cycle : adj \in {Neighbours(m)}})

-----------------------------------------------------------------------------
(* Validate.                                                               *)

\* pass2TypeResolution
TypeErrors(m) == {<<n, "type">> : n \in {k \in DOMAIN m : ~Resolved(m[k])}}

\* pass3DepRefs: a group needs as many members as it has at most, and a
\* dependency is on a component of the model.
DependsErrors(m) ==
    UNION {{<<n, "need", d>> : d \in {x \in Range(m[n].depends) : x.need \notin 0..Len(x.on)}}
           \cup {<<n, "depends", t>> : t \in (UNION {Range(d.on) : d \in Range(m[n].depends)}) \ DOMAIN m} :
             n \in DOMAIN m}

CycleErrors(m) == {<<"", "cycle", c>> : c \in {DetectCycle(m)} \ {<<>>}}

\* pass10ModelStates: an own state has a name of its own, healthy_in names
\* states of the type.
StateErrors(m) ==
    UNION {LET names == {s.name : s \in Range(TypeOf(m[n]).states)} IN
           {<<n, "states", s>> : s \in {x.name : x \in Range(m[n].states)} \cap names}
           \cup {<<n, "healthy_in", s>> : s \in m[n].healthyIn \ names} :
             n \in {k \in DOMAIN m : Resolved(m[k])}}

Validate(m) == TypeErrors(m) \cup DependsErrors(m) \cup CycleErrors(m) \cup StateErrors(m)

\* CollectGenericFallbacks
GenericFallbacks(m) == {n \in DOMAIN m : ResolvedAs(m[n]) # Unresolved /\ ResolvedAs(m[n])[1] = "generic"}

\* pass7HealthyOverride: the type's rules a bare list drops.
DroppedRules(c) ==
    IF ~Resolved(c) \/ c.healthy = {} \/ c.mode # "" THEN {} ELSE TypeOf(c).healthy \ c.healthy

-----------------------------------------------------------------------------
(* Compare.                                                                *)

\* Mutant: a guard is not part of a dependency.
EdgesUnguarded(c) ==
    UNION {{[on |-> t, need |-> IF d.need > 0 THEN <<d.need, d.on>> ELSE <<>>, while |-> NoGuard] :
               t \in Range(d.on)} : d \in Range(c.depends)}

Edges(c) ==
    UNION {{[on |-> t, need |-> IF d.need > 0 THEN <<d.need, d.on>> ELSE <<>>, while |-> d.while] :
               t \in Range(d.on)} : d \in Range(c.depends)}

\* componentChanges: empty when nothing it compares has changed.
ComponentChanges(a, b) ==
    {<<f, b[f]>> : f \in {k \in {"type", "resource", "vars"} : a[k] # b[k]}}
    \cup {<<"depends", e>> : e \in SymDiff(Edges(a), Edges(b))}
    \cup {<<"healthy", r>> : r \in SymDiff(HealthyRules(a), HealthyRules(b))}

\* Mutant: whatever breaks is a symptom.
SymptomsAnywhere(g, m, n) ==
    UNION {{a.on : a \in ImpactOf(g, m, n, FailuresOf(m, n), walk).affected} :
             walk \in {Search(g, n, FailuresOf(m, n))}}

\* symptomsReached
Symptoms(g, m, n) ==
    UNION {{a.on : a \in {x \in ImpactOf(g, m, n, FailuresOf(m, n), walk).affected : x.symptom}} :
             walk \in {Search(g, n, FailuresOf(m, n))}}

\* The symptoms of each component, and the number of chains.
Reach(g, m) == [of |-> [n \in DOMAIN m |-> Symptoms(g, m, n)], chains |-> CountChains(g)]

Compare(a, b, was, now) ==
    LET shared == DOMAIN a \cap DOMAIN b
    IN  [kind    |-> "diff",
         added   |-> DOMAIN b \ DOMAIN a,
         removed |-> DOMAIN a \ DOMAIN b,
         changed |-> UNION {{<<n, x>> : x \in ComponentChanges(a[n], b[n])} : n \in shared},
         reach   |-> {<<n, now.of[n] \ was.of[n], was.of[n] \ now.of[n]>> :
                         n \in {k \in shared : now.of[k] # was.of[k]}},
         counts  |-> <<was.chains, now.chains>>]

\* Diff.Empty
Empty(d) ==
    /\ d.added = {} /\ d.removed = {} /\ d.changed = {} /\ d.reach = {}
    /\ d.counts[1] = d.counts[2]

-----------------------------------------------------------------------------
(* The author and the commands.                                            *)

\* The commands below do not validate first; what they make of a model that
\* validation rejects is left out (a cycle leaves the closure to the order
\* of a map).
Valid(m) == Validate(m) = {}

Init ==
    /\ old = Base /\ new = Base
    /\ edits = 0
    /\ report = NoReport

\* The reader is done with the report; commands and edits are one at a time.
Read ==
    /\ report # NoReport
    /\ report' = NoReport
    /\ UNCHANGED <<old, new, edits>>

Write ==
    /\ report = NoReport
    /\ edits < MaxEdits
    /\ \E n \in Names : \E c \in Writings[n] :
          new' = [k \in DOMAIN new \cup {n} |-> IF k = n THEN c ELSE new[k]]
    /\ new' # new
    /\ edits' = edits + 1
    /\ UNCHANGED <<old, report>>

Delete ==
    /\ report = NoReport
    /\ edits < MaxEdits
    /\ \E n \in DOMAIN new : new' = [k \in DOMAIN new \ {n} |-> new[k]]
    /\ edits' = edits + 1
    /\ UNCHANGED <<old, report>>

Commit ==
    /\ report = NoReport
    /\ old # new
    /\ old' = new
    /\ UNCHANGED <<new, edits, report>>

ModelValidate ==
    /\ report = NoReport
    /\ report' = [kind     |-> "validate",
                  errors   |-> Validate(new),
                  generic  |-> GenericFallbacks(new),
                  warnings |-> {n \in DOMAIN new : DroppedRules(new[n]) # {}}]
    /\ UNCHANGED <<old, new, edits>>

\* All the failure states of the component, or the ones --state names.
Asked(m, n) == {FailuresOf(m, n)} \cup {{k} : k \in FailuresOf(m, n)}

ModelImpact ==
    /\ report = NoReport /\ Valid(new)
    /\ \E m \in {Input(new)}, n \in DOMAIN new : \E g \in {BuildGraph(m)}, from \in Asked(m, n) :
          \E walk \in {Search(g, n, from)} :
             report' = [kind |-> "impact", impact |-> ImpactOf(g, m, n, from, walk)]
    /\ UNCHANGED <<old, new, edits>>

ModelDiff ==
    /\ report = NoReport /\ Valid(old) /\ Valid(new)
    /\ \E reach \in {[m \in {old, new} |-> The(UNION {{Reach(g, x) : g \in {BuildGraph(x)}} : x \in {Input(m)}})]} :
          report' = Compare(old, new, reach[old], reach[new])
    /\ UNCHANGED <<old, new, edits>>

AtMostOne(S) == {{}} \cup {{x} : x \in S}

\* Edges along which a failure may go.
Links(g) == {e \in g.components \X g.components : e[2] \in g.dependents[e[1]]}

\* What the facts leave when they contradict the nodes gone and the edges shut.
Without(g, gone, shut) == [nodes |-> g.nodes \ gone, edges |-> (g.components \X g.components) \ shut]

\* listScenarios' classes; the facts contradict one node and one edge at most.
ListClasses ==
    /\ report = NoReport /\ Valid(new)
    /\ \E g \in {GraphOf(new)} :
          \E gone \in AtMostOne(g.nodes), shut \in AtMostOne(Links(g)) :
             report' = [kind |-> "classes", gone |-> gone, shut |-> shut,
                        classes |-> Classes(g, RankIn(g), Without(g, gone, shut))]
    /\ UNCHANGED <<old, new, edits>>

Next == Read \/ Write \/ Delete \/ Commit \/ ModelValidate \/ ModelImpact \/ ModelDiff \/ ListClasses

Spec == Init /\ [][Next]_vars

-----------------------------------------------------------------------------
(* Properties.                                                             *)

Is(kind) == report.kind = kind

\* A component stands behind another when it depends on it, however far.
Behind(m, n, k) == k \in Closure(m)[n]

\* Validate: a model passes exactly when every dependency is on a component
\* it has, groups can be met, types exist, a component's own states do not
\* clash with its type's, and no component stands behind itself; the cycle it
\* names, if any, is one; and a component without a provider's type, or one
\* that judges health by less than its type without saying so, is pointed out.
ValidityIsExact ==
    Is("validate") =>
        LET targets(n) == UNION {Range(d.on) : d \in Range(new[n].depends)}
            named(n)   == {s.name : s \in Range(TypeOf(new[n]).states)}
        IN
        /\ report.errors = {} <=>
             \A n \in DOMAIN new :
                /\ targets(n) \subseteq DOMAIN new
                /\ \A d \in Range(new[n].depends) : d.need \in 0..Len(d.on)
                /\ ~Behind(new, n, n)
                /\ Resolved(new[n])
                /\ new[n].healthyIn \subseteq named(n)
                /\ \A s \in Range(new[n].states) : s.name \notin named(n)
        /\ \A e \in report.errors : e[2] = "cycle" =>
             /\ Len(e[3]) > 1 /\ e[3][1] = Last(e[3])
             /\ \A i \in 1..(Len(e[3]) - 1) : e[3][i] \in DOMAIN new /\ e[3][i + 1] \in targets(e[3][i])
        /\ report.errors = {} =>
             \A n \in DOMAIN new \ report.generic :
                /\ ResolvedAs(new[n])[1] # "generic"
                /\ new[n].mode = "" /\ n \notin report.warnings =>
                      TypeOf(new[n]).healthy \subseteq HealthyRules(new[n])

\* The walks of a component's failures.
WalksFrom(m, from) == UNION {UNION {RootWalks(g, k) : k \in from} : g \in {GraphOf(m)}}

End(w) == w[Len(w)]

\* ImpactOf: the components said to break, and the states they are driven
\* into, are exactly those some walk of the failure leads to; and a
\* dependent said to hold is on none of them.
ImpactFollowsChains ==
    Is("impact") =>
        \A ends \in {{End(w) : w \in WalksFrom(new, report.impact.from)}} :
            /\ UNION {{<<a.on, s>> : s \in a.states} : a \in report.impact.affected}
                  = {<<n.on, n.state>> : n \in ends}
            /\ \A b \in report.impact.blocked : \A n \in ends : n.on # b[1]

\* ImpactOf: the chain shown to a component is one its failure can take, and
\* none is shorter.
PathsAreShortest ==
    Is("impact") =>
        \A ways \in {WalksFrom(new, report.impact.from)} : \A a \in report.impact.affected :
            /\ \E w \in ways : End(w).on = a.on /\ [i \in DOMAIN w |-> w[i].on] = a.path
            /\ \A w \in ways : End(w).on = a.on => Len(w) >= Len(a.path)

\* ImpactOf: a component said to break only under a guard is reached by no
\* chain that crosses none.
GuardsAreNeeded ==
    Is("impact") =>
        \A ways \in {WalksFrom(new, report.impact.from)} : \A a \in report.impact.affected :
            a.conditions # {} =>
                \A w \in ways : End(w).on = a.on =>
                    \E i \in 1..(Len(w) - 1) : Guard(new, w[i].on, w[i + 1].on) # NoGuard

\* What is open of a component's dependencies while the guards in up hold.
OpenWhile(c, up) ==
    UNION {Range(d.on) : d \in {x \in Range(c.depends) : x.while \in up \cup {NoGuard}}}

\* The model's own word on a node, which Compare does not read.
OwnWord(c) == <<c.states, c.healthyIn, c.causes>>

\* Compare: when it finds no difference, and no component's own states,
\* healthy_in or failure_modes changed, the two revisions have the same
\* chains, judge health by the same rules and open the same dependencies
\* whichever guards hold.
NoDifferenceIsNone ==
    Is("diff") /\ Empty(report) /\ (\A n \in DOMAIN old : OwnWord(old[n]) = OwnWord(new[n])) =>
        /\ \A was \in {GraphOf(old)}, now \in {GraphOf(new)} : Expand(was) = Expand(now)
        /\ \A n \in DOMAIN old :
              LET guards == {d.while : d \in Range(old[n].depends \o new[n].depends)} IN
              /\ HealthyRules(old[n]) = HealthyRules(new[n])
              /\ \A up \in SUBSET guards : OpenWhile(old[n], up) = OpenWhile(new[n], up)

\* What a reader of a revision's listing sees: the symptoms the walks of each
\* component's failures end in, and the number of chains.
Listing(g, m) ==
    LET atTop == {k \in DOMAIN m : \A d \in DOMAIN m : ~Dependent(m, d, k)}
        ends(n) == UNION {{End(w).on : w \in RootWalks(g, k)} : k \in FailuresOf(m, n)}
    IN  [of |-> [n \in DOMAIN m |-> ends(n) \cap atTop], chains |-> Cardinality(Expand(g))]

\* Compare: the scenario counts are those of the two listings, and a
\* component is listed as reaching a symptom gained or lost exactly when a
\* walk of its failures says so.
DiffFollowsChains ==
    Is("diff") =>
        \A seen \in {[m \in {old, new} |-> The(UNION {{Listing(g, x) : g \in {BuildGraph(x)}} : x \in {Input(m)}})]} :
            /\ report.counts = <<seen[old].chains, seen[new].chains>>
            /\ report.reach = {<<n, seen[new].of[n] \ seen[old].of[n], seen[old].of[n] \ seen[new].of[n]>> :
                                  n \in {k \in DOMAIN old \cap DOMAIN new : seen[old].of[k] # seen[new].of[k]}}

\* Classes: read off the graph, they are the classes of the listing, live
\* and dead chains apart, each with its number of chains and its least one.
ClassesMatchListing ==
    Is("classes") =>
        \A g \in {GraphOf(new)} : \A chains \in {Expand(g)} :
            \A lives \in {LiveOf(chains, Without(g, report.gone, report.shut))} :
                report.classes = Representatives(RankIn(g), lives, FALSE)
                                   \cup Representatives(RankIn(g), chains \ lives, TRUE)

=============================================================================
