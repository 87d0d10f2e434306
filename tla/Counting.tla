------------------------------ MODULE Counting ------------------------------
(***************************************************************************)
(* Occam over the failure graph (internal/engine/strategy/occam_graph.go): *)
(* the decision FailureGraph reads off the listing of the chains, from     *)
(* counts and the shortest live layer instead.                             *)
(***************************************************************************)
EXTENDS FailureGraph, EnumerationGraph

\* The model as BuildGraph sees it, and its graph.
Modelled ==
    [c \in Components |->
        [depends  |-> Depends[c],
         failures |-> {s \in Range(States[c]) : IsFailure(c, s)},
         observes |-> Observable(c)]]

Graph == BuildGraph(Modelled)

\* graphLiveness: FilterLive's tests, per node and per edge.
Liveness(store) ==
    [nodes |-> {n \in Nodes : StepLive(store, n)},
     edges |-> {e \in Components \X Components : ~SatisfiedGroup(store, e[2], e[1])}]

\* rank in occamOnGraph: the shortest layer, by what the counts say.
ChosenOnGraph(store, layer, touch) ==
    UNION {{a \in layer : \A b \in layer : ~Better(gain, b, a)} :
             gain \in {[w \in layer |-> SumSet({touch[p.on] - 1 : p \in ProbeFor(store, w)})]}}

Decision(done, chosen, probes) ==
    CASE done -> [kind |-> "done", of |-> chosen]
      [] ~done /\ probes # {} -> [kind |-> "probe", of |-> probes]
      [] OTHER -> [kind |-> "stuck", of |-> {}]

\* What occamOnGraph answers: done, stuck, or the probes a tie-break chooses
\* among.  (A set of one lets TLC compute the live graph once.)
GraphDecisions(store) ==
    UNION {{Decision(LiveCount(Graph, live) = 1, chosen, UNION {ProbeFor(store, a) : a \in chosen}) :
              chosen \in {ChosenOnGraph(store, ShortestLive(Graph, live), touch) :
                             touch \in {Touch(Graph, live)}}} :
             live \in {Liveness(store)}}

ListedDecisions(store) ==
    {Decision(OccamDone(store), Live(store), probes) : probes \in {OccamProbes(store)}}

=============================================================================
