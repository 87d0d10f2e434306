----------------------------- MODULE ModelBuild -----------------------------
(***************************************************************************)
(* mgtt model build (internal/model/build, internal/cli/model_build.go):   *)
(* the committed model is read, every installed provider is asked what it  *)
(* manages, the model that implies is merged with what only an author can  *)
(* know, removals are gated, and the file is written over.                 *)
(*                                                                         *)
(* A key is a tuple, <<name>> or <<type, name>>.  What an author writes on *)
(* a component beside its dependencies is the set of its fields that are   *)
(* set (marks); a guard is a value, NoGuard when there is none.            *)
(***************************************************************************)
EXTENDS Naturals, FiniteSets, Sequences

CONSTANTS
    Answers,    \* what the discoveries may return: of each provider, [comps, edges]
    Writings,   \* what an author may write: [key, comp]
    Marks,      \* the fields among Fields an author may set later
    MaxEdits,   \* bound on edits
    KeyOrder,   \* every key, in the order the file lists them
    Flags       \* invocations: [allowDeletes, tombstone, dryRun]

VARIABLES
    file,       \* the model file: [kind, providers, comps]
    build,      \* the running build: [pc, flags, prev, next, from]
    edits       \* edits so far

buildVars == <<file, build, edits>>

-----------------------------------------------------------------------------
(* Files and models.                                                       *)

Fields  == {"healthy", "failure_modes", "vars", "resource", "states", "healthy_in"}
Carried == {"healthy", "failure_modes", "vars"}     \* mergeHandAuthored
Emitted == Fields \ {"states", "healthy_in"}        \* componentNode
NoGuard == "always"

Keys     == {KeyOrder[i] : i \in DOMAIN KeyOrder}
NoComps  == [k \in {} |-> {}]
Model(kind, providers, comps) == [kind |-> kind, providers |-> providers, comps |-> comps]
Absent   == Model("none", {}, NoComps)
Emptied  == Model("model", {}, NoComps)     \* os.Create truncates, and an empty file loads
Garbled  == Model("garbled", {}, NoComps)

\* A component and its dependencies, as the file holds them.
IsDependency(d) == d = [on |-> d.on, need |-> d.need, while |-> d.while]
IsComponent(c) ==
    /\ c = [f \in {"source", "type", "providers", "marks", "depends"} |-> c[f]]
    /\ \A d \in c.depends : IsDependency(d)

ASSUME WritingsAssumption == \A w \in Writings : IsComponent(w.comp)

Authored(comp) == comp.source # "discovered"

\* The dependencies of comps on what is not among them.
Dangles(comps) == {k \in DOMAIN comps : \E d \in comps[k].depends : ~ d.on \subseteq DOMAIN comps}

-----------------------------------------------------------------------------
(* BuildModel.  results maps each provider that answered to its return.    *)

ReturnedBy(results, n) == {p \in DOMAIN results : \E c \in results[p].comps : c.name = n}

KeyOf(results, c) ==
    IF Cardinality(ReturnedBy(results, c.name)) > 1 THEN <<c.type, c.name>> ELSE <<c.name>>

ReturnedTwice(results) ==
    \E p \in DOMAIN results : \E c, d \in results[p].comps : c # d /\ c.name = d.name

Collides(results) ==
    \E p, q \in DOMAIN results : \E c \in results[p].comps, d \in results[q].comps :
        p # q /\ KeyOf(results, c) = KeyOf(results, d)

UnknownEnd(results) ==
    \E p \in DOMAIN results : \E e \in results[p].edges : \E n \in {e[1], e[2]} :
        \A c \in results[p].comps : c.name # n

Refused(results) == ReturnedTwice(results) \/ Collides(results) \/ UnknownEnd(results)

Found(results) == UNION {{[by |-> p, comp |-> c] : c \in results[p].comps} : p \in DOMAIN results}

\* Mutant: an end is looked up by its name.
NameKeyBare(results, p, n) == <<n>>

\* The key in p's answer of the name n.
NameKey(results, p, n) == KeyOf(results, CHOOSE c \in results[p].comps : c.name = n)

Discovered(results, f) ==
    [source    |-> "discovered",
     type      |-> f.comp.type,
     providers |-> {f.by},
     marks     |-> {},
     depends   |-> {[on |-> {NameKey(results, f.by, e[2])}, need |-> 0, while |-> NoGuard] :
                       e \in {g \in results[f.by].edges : g[1] = f.comp.name}}]

Generated(results) ==
    [k \in {KeyOf(results, f.comp) : f \in Found(results)} |->
        Discovered(results, CHOOSE f \in Found(results) : KeyOf(results, f.comp) = k)]

-----------------------------------------------------------------------------
(* MergePrev.                                                              *)

\* mergeHandAuthored: what discovery cannot say, and a guard where the
\* dependency names the same targets.
Guarded(prev, dep) ==
    IF \E d \in prev.depends : d.while # NoGuard /\ d.on = dep.on
    THEN [dep EXCEPT !.while = (CHOOSE d \in prev.depends : d.while # NoGuard /\ d.on = dep.on).while]
    ELSE dep

\* Mutant: guards are not carried over.
AugmentedMarksOnly(prev, next) == [next EXCEPT !.marks = @ \cup (prev.marks \cap Carried)]

Augmented(prev, next) ==
    [next EXCEPT !.marks = @ \cup (prev.marks \cap Carried),
                 !.depends = {Guarded(prev, d) : d \in @}]

\* Mutant: only what was tombstoned is kept.
KeptTombstonedOnly(prev, next, tombstone) == (DOMAIN prev \ DOMAIN next) \cap tombstone

\* Mutant: an author is known by the fields only an author sets.
KeptIfAugmented(prev, next, tombstone) ==
    {k \in DOMAIN prev \ DOMAIN next : prev[k].marks # {} \/ k \in tombstone}

\* Authored components discovery did not return, and tombstoned ones.
Kept(prev, next, tombstone) ==
    {k \in DOMAIN prev \ DOMAIN next : Authored(prev[k]) \/ k \in tombstone}

MergePrev(prev, next, tombstone) ==
    [k \in DOMAIN next \cup Kept(prev, next, tombstone) |->
        IF k \notin DOMAIN prev THEN next[k]
        ELSE Augmented(prev[k], IF k \in DOMAIN next THEN next[k] ELSE prev[k])]

\* ComputeDiff and GateDeletions.
Removed(prev, next) == DOMAIN prev \ DOMAIN next
GatePasses(prev, next, flags) == flags.allowDeletes \/ Removed(prev, next) \subseteq flags.tombstone

\* EmitYAML
EmitYAML(providers, comps) ==
    Model("model", providers, [k \in DOMAIN comps |-> [comps[k] EXCEPT !.marks = @ \cap Emitted]])

\* A file whose writing stopped after the first n keys.
Torn(model, n) ==
    [model EXCEPT !.comps = [k \in DOMAIN model.comps \cap {KeyOrder[i] : i \in 1..n} |-> model.comps[k]]]

-----------------------------------------------------------------------------
(* The command.                                                            *)

NoFlags == [allowDeletes |-> FALSE, tombstone |-> {}, dryRun |-> FALSE]
NoBuild == [pc |-> "none", flags |-> NoFlags, prev |-> Absent, next |-> Absent, from |-> NoComps]

Running == build.pc \in {"loaded", "planned", "created"}

BuildInit == file = Absent /\ build = NoBuild /\ edits = 0

\* loadPrevModel: no file is no model, and one that does not parse ends it.
LoadPrevModel(flags) ==
    /\ ~Running
    /\ build' = IF file.kind = "garbled" THEN [NoBuild EXCEPT !.pc = "refused", !.flags = flags]
                ELSE [NoBuild EXCEPT !.pc = "loaded", !.flags = flags, !.prev = file]
    /\ UNCHANGED <<file, edits>>

\* build.Discover, then the dry run or the gate.
Discover(results) ==
    /\ build.pc = "loaded"
    /\ IF Refused(results) THEN build' = [build EXCEPT !.pc = "refused"]
       ELSE \E next \in {MergePrev(build.prev.comps, Generated(results), build.flags.tombstone)} :
              build' = [build EXCEPT
                  !.next = EmitYAML(DOMAIN results, next),
                  !.from = results,
                  !.pc   = IF build.flags.dryRun THEN "done"
                           ELSE IF GatePasses(build.prev.comps, next, build.flags) THEN "planned"
                           ELSE "refused"]
    /\ UNCHANGED <<file, edits>>

\* writeBuiltModel: os.Create empties the file, or fails;
Create ==
    /\ build.pc = "planned"
    /\ \/ file' = Emptied /\ build' = [build EXCEPT !.pc = "created"]
       \/ file' = file /\ build' = [build EXCEPT !.pc = "refused"]
    /\ UNCHANGED edits

\* then it is written, or a part of it is.
Emit ==
    /\ build.pc = "created"
    /\ \/ file' = build.next /\ build' = [build EXCEPT !.pc = "done"]
       \/ /\ \/ file' = Garbled
             \/ \E n \in 0..(Len(KeyOrder) - 1) : file' = Torn(build.next, n)
          /\ build' = [build EXCEPT !.pc = "refused"]
    /\ UNCHANGED edits

Kill ==
    /\ Running
    /\ build' = [build EXCEPT !.pc = "killed"]
    /\ UNCHANGED <<file, edits>>

\* The author writes a component, adds a field or a guard to one, or
\* deletes it, between builds or while discovery runs;
Put(k, comp) ==
    file' = [file EXCEPT !.kind = "model",
                         !.comps = [j \in DOMAIN @ \cup {k} |-> IF j = k THEN comp ELSE @[j]]]

Edit ==
    /\ build.pc \notin {"planned", "created"} /\ file.kind # "garbled"
    /\ edits < MaxEdits /\ edits' = edits + 1
    /\ \/ \E w \in Writings : Put(w.key, w.comp)
       \/ \E k \in DOMAIN file.comps :
            \/ \E f \in Marks : Put(k, [file.comps[k] EXCEPT !.marks = @ \cup {f}])
            \/ \E d \in file.comps[k].depends :
                  Put(k, [file.comps[k] EXCEPT !.depends = (@ \ {d}) \cup {[d EXCEPT !.while = "guarded"]}])
            \/ file' = [file EXCEPT !.comps = [j \in DOMAIN @ \ {k} |-> @[j]]]
    /\ build' = IF Running THEN build ELSE NoBuild

\* or takes the committed file back after a build that did not succeed.
Restore ==
    /\ build.pc \in {"refused", "killed"} /\ build.prev.kind = "model"
    /\ file' = build.prev /\ build' = NoBuild
    /\ UNCHANGED edits

BuildNext ==
    \/ \E flags \in Flags : LoadPrevModel(flags)
    \/ \E results \in Answers : Discover(results)
    \/ Create \/ Emit \/ Kill \/ Edit \/ Restore

BuildSpec == BuildInit /\ [][BuildNext]_buildVars

-----------------------------------------------------------------------------
(* What a build may do to a model.                                         *)

Built == build.pc = "done" /\ ~build.flags.dryRun

\* A build that wrote the file dropped a component only if an earlier build
\* had found it and --allow-deletes was given: never one an author wrote,
\* and none because a provider failed to answer (gateDeletions, MergePrev).
RemovalNeedsConsent ==
    Built => \A k \in DOMAIN build.prev.comps \ DOMAIN file.comps :
                build.flags.allowDeletes /\ ~Authored(build.prev.comps[k])

\* What an author wrote on a component survives the build when its key does:
\* health rules, failure modes, variables, and a guard for as long as the
\* component depends on the same targets (mergeHandAuthored, EmitYAML).
HandWorkSurvives ==
    Built => \A k \in DOMAIN build.prev.comps \cap DOMAIN file.comps :
                /\ build.prev.comps[k].marks \cap Carried \subseteq file.comps[k].marks
                /\ \A d \in build.prev.comps[k].depends, e \in file.comps[k].depends :
                      d.on = e.on /\ d.while # NoGuard => e.while # NoGuard

\* A component this build's discovery returned depends only on components of
\* the model, whatever names two providers share (BuildModel's keys).
DiscoveredNeverDangles ==
    Built => \A k \in Dangles(file.comps) : k \notin DOMAIN Generated(build.from)

\* Building again from the same answers changes nothing: what was carried
\* over is carried over again, and nothing more is dropped.
RebuildIsStable ==
    Built =>
        file = EmitYAML(DOMAIN build.from,
                        MergePrev(file.comps, Generated(build.from), build.flags.tombstone))

=============================================================================
