-------------------------------- MODULE Plan --------------------------------
(***************************************************************************)
(* `mgtt plan` (internal/cli/plan.go) and the path engine it shows         *)
(* (internal/engine/plan.go): one path from the entry to every component,  *)
(* split into those that may explain the symptoms and those eliminated;    *)
(* the strategy's next probe, run when the operator agrees; and, when the  *)
(* strategy has none, the root cause.                                      *)
(*                                                                         *)
(* The session starts from the current incident's facts, or from none, and *)
(* saves what it reads.  The component given with --component exists.      *)
(***************************************************************************)
EXTENDS Probing, SequencesExt

CONSTANTS
    PlanOptions,    \* the ways to start: [entry, terminal, scenarios, incident]
    SaveMayFail,    \* Save may return an error
    MaxPlanIterations,
    Recalled        \* facts the operator may have added to the incident before

ASSUME PlanAssumption ==
    /\ PlanOptions \subseteq
          [entry : Components, terminal : BOOLEAN, scenarios : BOOLEAN, incident : BOOLEAN]
    /\ MaxPlanIterations \in Nat
    /\ Recalled \subseteq Probes /\ IsFiniteSet(Recalled)

\* The operator added facts of the component's type only.
KnownFacts == \A p \in Recalled : p.fact \in Range(TypeFacts[p.on])

-----------------------------------------------------------------------------
(* The path engine.                                                        *)

Ends(paths) == {Last(p) : p \in paths}

\* The paths, with p extended by every target not yet at the end of one.
Extended(paths, p, targets) ==
    LET upTo[k \in 0..Len(targets)] ==
          IF k = 0 THEN paths
          ELSE LET before == upTo[k - 1] IN
               IF targets[k] \in Ends(Range(before)) THEN before
               ELSE Append(before, Append(p, targets[k]))
    IN  upTo[Len(targets)]

\* bfsEnumerate: the n-th turn extends the n-th path found.
PathsAlong(entry, targets) ==
    LET found[n \in Nat] ==
          IF n = 0 THEN << <<entry>> >>
          ELSE LET before == found[n - 1] IN
               IF n > Len(before) THEN before
               ELSE Extended(before, before[n], targets[Last(before[n])])
    IN  Range(found[Cardinality(Components)]) \ {<<entry>>}

\* Mutant: paths are enumerated before states are derived.
PathsWithoutStates(entry, store) ==
    PathsAlong(entry, [c \in Components |-> OpenTargets(c, store, NoStates)])

\* enumeratePaths: whileGuardActive is bfsWalk's.
EnumeratePaths(entry, store) ==
    LET states == DerivedStates(store)
    IN  PathsAlong(entry, [c \in Components |-> OpenTargets(c, store, states)])

SatisfiedGroupOn(store, p) == \E i \in 1..(Len(p) - 1) : SatisfiedGroup(store, p[i], p[i + 1])

HealthyLink(store, p) == \E c \in Range(Front(p)) : ComponentVerdict(store, c) = "healthy"

HasUnhealthyUpstream(store, p) ==
    LET states == DerivedStates(store) IN
    \E c \in Range(Front(p)) :
        store[c] # <<>> /\ (DefaultState[c] = "" \/ states[c] # DefaultState[c])

\* Mutant: a link proven healthy refutes the path, whatever its end is.
ReasonByLink(store, p) ==
    LET end == Last(p) IN
    IF SatisfiedGroupOn(store, p) THEN "redundancy holds"
    ELSE IF HealthyLink(store, p) THEN "a link is healthy"
    ELSE IF store[end] = <<>>
         THEN IF HasUnhealthyUpstream(store, p) THEN "" ELSE "no observations"
    ELSE IF ComponentVerdict(store, end) = "healthy" THEN "healthy"
    ELSE ""

\* splitPaths, isEliminated: why a path is eliminated, "" when it survives.
Reason(store, p) ==
    LET end == Last(p) IN
    IF SatisfiedGroupOn(store, p) THEN "redundancy holds"
    ELSE IF HealthyLink(store, p) /\ ComponentVerdict(store, end) # "unhealthy" THEN "a link is healthy"
    ELSE IF store[end] = <<>>
         THEN IF HasUnhealthyUpstream(store, p) THEN "" ELSE "no observations"
    ELSE IF ComponentVerdict(store, end) = "healthy" THEN "healthy"
    ELSE ""

\* Conclude: a broken entry is a path of its own.
Surviving(entry, store) ==
    {p \in EnumeratePaths(entry, store) : Reason(store, p) = ""}
      \cup {p \in {<<entry>>} : ComponentVerdict(store, entry) = "unhealthy"}

-----------------------------------------------------------------------------
(* The loop.                                                               *)

VARIABLES
    world,      \* the system under diagnosis
    options,    \* how this session was started
    disk,       \* the facts in the incident's state file
    store,      \* the facts plan holds in memory
    pc,         \* "planning", "asking", "probing" or "stopped"
    pending,    \* the probe being offered or run
    rounds,     \* iterations that ran a probe
    said        \* what the session ended with, and the component it named

vars == <<world, options, disk, store, pc, pending, rounds, said>>

Said(kind, root) == [kind |-> kind, root |-> root]

\* What the operator may have added to the incident before.
Recollections(w) ==
    {[c \in Components |-> SetToSeq({NewFact(p.fact, w[c][p.fact], "", "manual") : p \in {q \in S : q.on = c}})] :
        S \in SUBSET {p \in Recalled : w[p.on][p.fact] # NoValue}}

\* loadPlanContext
Init ==
    /\ world \in Worlds /\ options \in PlanOptions
    /\ store \in (IF options.incident THEN Recollections(world) ELSE {EmptyStore})
    /\ disk = store
    /\ pc = "planning" /\ pending = NoProbe /\ rounds = 0
    /\ said = Said("nothing", NoValue)

Stop(closing) ==
    /\ pc' = "stopped" /\ said' = closing /\ pending' = NoProbe
    /\ UNCHANGED <<world, options, disk, store, rounds>>

\* The loop of runPlan ends without a word.
OutOfIterations ==
    /\ pc = "planning" /\ rounds >= MaxPlanIterations
    /\ Stop(Said("nothing", NoValue))

Planning == pc = "planning" /\ rounds < MaxPlanIterations

\* suggestNextProbe: whatever the entry, bfs walks from the model's own.
NextProbes == Suggested(store, options.scenarios)

\* Mutant: the cause is looked for from the outermost component.
NamedFromOutermost == RootCause(store)

\* PlanWith, Conclude
Named == RootCauseFrom(options.entry, store)

\* runPlan, with no probe to suggest.
Conclude ==
    /\ Planning /\ NextProbes = {}
    /\ \E root \in {Named} :
          Stop(IF root = NoValue THEN Said("all_healthy", NoValue) ELSE Said("root_cause", root))

\* runPlan: without a terminal nobody is asked.
Suggest ==
    /\ Planning
    /\ pending' \in NextProbes
    /\ pc' = IF options.terminal THEN "asking" ELSE "probing"
    /\ UNCHANGED <<world, options, disk, store, rounds, said>>

\* promptProbeAccept: anything but a no accepts.
Accept ==
    /\ pc = "asking" /\ pc' = "probing"
    /\ UNCHANGED <<world, options, disk, store, pending, rounds, said>>

Decline == pc = "asking" /\ Stop(Said("nothing", NoValue))

\* runPlanProbe, saveProbeStore: a failed save is only a warning.
ProbeReturns ==
    /\ pc = "probing"
    /\ \E f \in Outcomes(world, pending) : store' = Appended(store, pending.on, f)
    /\ \/ options.incident /\ disk' = store'
       \/ (options.incident => SaveMayFail) /\ UNCHANGED disk
    /\ rounds' = rounds + 1
    /\ pc' = "planning" /\ pending' = NoProbe
    /\ UNCHANGED <<world, options, said>>

\* Rejected before it ran, or failed in a way that is not recorded.
ProbeFails == pc = "probing" /\ Stop(Said("nothing", NoValue))

\* The session is over; any other state without a step would be a deadlock.
Over == pc = "stopped" /\ UNCHANGED vars

Next ==
    \/ OutOfIterations \/ Conclude \/ Suggest \/ Accept \/ Decline
    \/ ProbeReturns \/ ProbeFails \/ Over

Spec == Init /\ [][Next]_vars

-----------------------------------------------------------------------------
(* Properties.                                                             *)

\* The engine's walk and the strategies' walk are written twice; they must
\* agree on what is in play, or a component could be named that no path shows,
\* or shown and never asked about.
PathsCoverTheWalk ==
    {options.entry} \cup Ends(EnumeratePaths(options.entry, store))
        = Range(BfsWalkFrom(options.entry, store))

\* The component named ends a path that survives, so that there is a path to
\* show, unless a redundancy group cuts the shortest path to it (the cause is
\* then below another member, or reached another way).
CauseHasAPath ==
    \A root \in {Named} \ {NoValue, options.entry} :
        \E p \in EnumeratePaths(options.entry, store) :
            Last(p) = root /\ Reason(store, p) \in {"", "redundancy holds"}

Settled(entry, st) ==
    {p \in EnumeratePaths(entry, st) : Reason(st, p) \in {"healthy", "redundancy holds"}}

\* A path eliminated because its end is healthy, or because a group on it
\* holds, never survives again.  (One with a healthy link does, once its end
\* is seen broken.)
EliminationStands ==
    [][store' # store =>
          \A settled \in {Settled(options.entry, store)} :
              settled \cap Surviving(options.entry, store') = {}]_vars

\* With every fact read, plan names the root cause full visibility names, from
\* the component it was started at, if that one is in play.
PlanNamesTheCause ==
    /\ said.kind \in {"root_cause", "all_healthy"} /\ ~options.scenarios
    /\ PartialVisibility(store) = {} /\ options.entry \in Range(BfsWalk(store))
    => said.root = RootCauseFrom(options.entry, Seen(world))

=============================================================================
