-------------------------- MODULE ModelBuildProofs --------------------------
(***************************************************************************)
(* What mgtt model build may do to a model, whatever the providers answer, *)
(* the author writes and wherever a build stops.                           *)
(***************************************************************************)
EXTENDS ModelBuild, TLAPS

-----------------------------------------------------------------------------
(* The invariant: what is planned is the merge of what was loaded with     *)
(* what was discovered, and passed the gate; what is done was planned.     *)

IsModel(m) ==
    /\ m = [kind |-> m.kind, providers |-> m.providers, comps |-> m.comps]
    /\ \A k \in DOMAIN m.comps : IsComponent(m.comps[k])

TypeInv ==
    /\ IsModel(file)
    /\ build = [pc |-> build.pc, flags |-> build.flags, prev |-> build.prev,
                next |-> build.next, from |-> build.from]
    /\ IsModel(build.prev)
    /\ IsModel(build.next)

Merged == MergePrev(build.prev.comps, Generated(build.from), build.flags.tombstone)

PlanInv ==
    build.pc \in {"planned", "created"} \/ Built =>
        /\ ~Refused(build.from)
        /\ build.next = EmitYAML(DOMAIN build.from, Merged)
        /\ GatePasses(build.prev.comps, Merged, build.flags)

BInv == TypeInv /\ PlanInv /\ (Built => file = build.next)

-----------------------------------------------------------------------------
(* The operators.                                                          *)

\* The fields of a component.
LEMMA RecordHasItsFields ==
    ASSUME NEW c, NEW s, NEW t, NEW p, NEW m, NEW d,
           c = [source |-> s, type |-> t, providers |-> p, marks |-> m, depends |-> d]
    PROVE  /\ c = [g \in {"source", "type", "providers", "marks", "depends"} |-> c[g]]
           /\ c.source = s /\ c.marks = m /\ c.depends = d
  OBVIOUS

\* What discovery generates is a component without an author's work on it.
LEMMA GeneratedIsTyped ==
    ASSUME NEW results, NEW k \in DOMAIN Generated(results)
    PROVE  /\ IsComponent(Generated(results)[k])
           /\ Generated(results)[k].source = "discovered"
           /\ Generated(results)[k].marks = {}
           /\ \A d \in Generated(results)[k].depends : d.while = NoGuard
  <1> DEFINE f == CHOOSE f \in Found(results) : KeyOf(results, f.comp) = k
             c == Discovered(results, f)
  <1>1. Generated(results)[k] = c
    BY DEF Generated
  <1> DEFINE D == {[on |-> {NameKey(results, f.by, e[2])}, need |-> 0, while |-> NoGuard] :
                       e \in {g \in results[f.by].edges : g[1] = f.comp.name}}
  <1>d. c = [source |-> "discovered", type |-> f.comp.type, providers |-> {f.by},
             marks |-> {}, depends |-> D]
    BY DEF Discovered
  <1>2. /\ c = [g \in {"source", "type", "providers", "marks", "depends"} |-> c[g]]
        /\ c.source = "discovered" /\ c.marks = {} /\ c.depends = D
    <2> HIDE DEF c, D, f
    <2> QED BY <1>d, RecordHasItsFields
  <1>3. \A d \in D : IsDependency(d) /\ d.while = NoGuard
    BY DEF IsDependency
  <1> QED BY <1>1, <1>2, <1>3 DEF IsComponent

\* A guard is put on a dependency, and nothing else of it changes.
LEMMA GuardedKeepsTheRest ==
    ASSUME NEW prev, NEW d, IsDependency(d)
    PROVE  /\ IsDependency(Guarded(prev, d))
           /\ Guarded(prev, d).on = d.on
           /\ Guarded(prev, d).need = d.need
           /\ (\E e \in prev.depends : e.while # NoGuard /\ e.on = d.on) =>
                 Guarded(prev, d).while # NoGuard
  <1> DEFINE P(e) == e.while # NoGuard /\ e.on = d.on
             w    == (CHOOSE e \in prev.depends : P(e)).while
  <1>1. CASE \E e \in prev.depends : P(e)
    <2>1. w # NoGuard
      BY <1>1
    <2>2. Guarded(prev, d) = [d EXCEPT !.while = w]
      BY <1>1 DEF Guarded
    <2>3. [d EXCEPT !.while = w] = [on |-> d.on, need |-> d.need, while |-> w]
      BY DEF IsDependency
    <2> QED BY <2>1, <2>2, <2>3 DEF IsDependency
  <1>2. CASE ~\E e \in prev.depends : P(e)
    BY <1>2 DEF Guarded
  <1> QED BY <1>1, <1>2

\* What is carried over to a component leaves the rest of it.
LEMMA AugmentedIsTyped ==
    ASSUME NEW prev, NEW next, IsComponent(next)
    PROVE  /\ IsComponent(Augmented(prev, next))
           /\ Augmented(prev, next).source = next.source
           /\ Augmented(prev, next).type = next.type
           /\ Augmented(prev, next).providers = next.providers
           /\ Augmented(prev, next).marks = next.marks \cup (prev.marks \cap Carried)
           /\ Augmented(prev, next).depends = {Guarded(prev, d) : d \in next.depends}
  <1> DEFINE D == {Guarded(prev, d) : d \in next.depends}
             M == next.marks \cup (prev.marks \cap Carried)
             new == [next EXCEPT !.marks = M, !.depends = D]
  <1>0. Augmented(prev, next) = new
    BY DEF Augmented
  <1>1. /\ new = [g \in {"source", "type", "providers", "marks", "depends"} |-> new[g]]
        /\ new.source = next.source /\ new.type = next.type /\ new.providers = next.providers
        /\ new.marks = M /\ new.depends = D
    BY DEF IsComponent
  <1>2. \A d \in D : IsDependency(d)
    BY GuardedKeepsTheRest DEF IsComponent
  <1> HIDE DEF new
  <1> QED BY <1>0, <1>1, <1>2 DEF IsComponent

\* What is written of a component: all but the fields the emitter has not.
LEMMA EmittedIsTyped ==
    ASSUME NEW providers, NEW comps, \A k \in DOMAIN comps : IsComponent(comps[k])
    PROVE  /\ IsModel(EmitYAML(providers, comps))
           /\ EmitYAML(providers, comps).kind = "model"
           /\ EmitYAML(providers, comps).providers = providers
           /\ DOMAIN EmitYAML(providers, comps).comps = DOMAIN comps
           /\ \A k \in DOMAIN comps :
                 /\ EmitYAML(providers, comps).comps[k].source = comps[k].source
                 /\ EmitYAML(providers, comps).comps[k].type = comps[k].type
                 /\ EmitYAML(providers, comps).comps[k].providers = comps[k].providers
                 /\ EmitYAML(providers, comps).comps[k].marks = comps[k].marks \cap Emitted
                 /\ EmitYAML(providers, comps).comps[k].depends = comps[k].depends
  <1> DEFINE written == [k \in DOMAIN comps |-> [comps[k] EXCEPT !.marks = @ \cap Emitted]]
  <1>1. EmitYAML(providers, comps) = [kind |-> "model", providers |-> providers, comps |-> written]
    BY DEF EmitYAML, Model
  <1>2. \A k \in DOMAIN comps :
           /\ written[k] = [g \in {"source", "type", "providers", "marks", "depends"} |-> written[k][g]]
           /\ written[k].source = comps[k].source
           /\ written[k].type = comps[k].type
           /\ written[k].providers = comps[k].providers
           /\ written[k].marks = comps[k].marks \cap Emitted
           /\ written[k].depends = comps[k].depends
    BY DEF IsComponent
  <1>3. \A k \in DOMAIN comps : IsComponent(written[k])
    BY <1>2 DEF IsComponent
  <1> HIDE DEF written
  <1>4. DOMAIN written = DOMAIN comps
    BY DEF written
  <1> QED BY <1>1, <1>2, <1>3, <1>4 DEF IsModel

\* What MergePrev makes of a component the old model has.
LEMMA MergedIsTyped ==
    ASSUME NEW prev, NEW results, NEW tombstone, \A k \in DOMAIN prev : IsComponent(prev[k])
    PROVE  \A k \in DOMAIN MergePrev(prev, Generated(results), tombstone) :
              IsComponent(MergePrev(prev, Generated(results), tombstone)[k])
  <1> DEFINE next == Generated(results)
  <1> SUFFICES ASSUME NEW k \in DOMAIN next \cup Kept(prev, next, tombstone)
               PROVE  IsComponent(MergePrev(prev, next, tombstone)[k])
    BY DEF MergePrev
  <1>1. MergePrev(prev, next, tombstone)[k] =
           IF k \notin DOMAIN prev THEN next[k]
           ELSE Augmented(prev[k], IF k \in DOMAIN next THEN next[k] ELSE prev[k])
    BY DEF MergePrev
  <1>2. CASE k \in DOMAIN next
    BY <1>1, <1>2, GeneratedIsTyped, AugmentedIsTyped
  <1>3. CASE k \notin DOMAIN next
    <2>1. k \in DOMAIN prev
      BY <1>3 DEF Kept
    <2> QED BY <1>1, <1>3, <2>1, AugmentedIsTyped
  <1> QED BY <1>2, <1>3

-----------------------------------------------------------------------------
(* The invariant holds.                                                    *)

\* A file with one component put in is a model.
LEMMA PutIsTyped ==
    ASSUME NEW k, NEW c, IsComponent(c), IsModel(file), Put(k, c)
    PROVE  IsModel(file')
  <1> DEFINE comps == [j \in DOMAIN file.comps \cup {k} |-> IF j = k THEN c ELSE file.comps[j]]
  <1>1. file' = [kind |-> "model", providers |-> file.providers, comps |-> comps]
    BY DEF Put, IsModel
  <1>2. \A j \in DOMAIN comps : IsComponent(comps[j])
    BY DEF IsModel
  <1> HIDE DEF comps
  <1> QED BY <1>1, <1>2 DEF IsModel

\* The invariant holds in every reachable state.
LEMMA BInvHolds == BuildSpec => []BInv
<1>1. BuildInit => BInv
  BY DEF BuildInit, BInv, TypeInv, PlanInv, Built, IsModel, Absent, Model, NoComps, NoBuild, NoFlags
<1>2. BInv /\ [BuildNext]_buildVars => BInv'
  <2> SUFFICES ASSUME BInv, [BuildNext]_buildVars PROVE BInv'
    OBVIOUS
  <2>e. IsModel(Emptied) /\ IsModel(Garbled) /\ IsModel(Absent)
    BY DEF IsModel, Emptied, Garbled, Absent, Model, NoComps
  <2>n. /\ NoBuild = [pc |-> NoBuild.pc, flags |-> NoBuild.flags, prev |-> NoBuild.prev,
                      next |-> NoBuild.next, from |-> NoBuild.from]
        /\ NoBuild.pc = "none" /\ NoBuild.prev = Absent /\ NoBuild.next = Absent
    BY DEF NoBuild
  <2>1. ASSUME NEW flags \in Flags, LoadPrevModel(flags) PROVE BInv'
    BY <2>1, <2>e, <2>n DEF LoadPrevModel, BInv, TypeInv, PlanInv, Built, NoBuild
  <2>2. ASSUME NEW results \in Answers, Discover(results) PROVE BInv'
    <3>1. CASE Refused(results)
      BY <2>2, <3>1 DEF Discover, BInv, TypeInv, PlanInv, Built
    <3>2. CASE ~Refused(results)
      <4> DEFINE next == MergePrev(build.prev.comps, Generated(results), build.flags.tombstone)
                 pc   == IF build.flags.dryRun THEN "done"
                         ELSE IF GatePasses(build.prev.comps, next, build.flags) THEN "planned" ELSE "refused"
      <4>1. build' = [build EXCEPT !.next = EmitYAML(DOMAIN results, next), !.from = results, !.pc = pc]
        BY <2>2, <3>2 DEF Discover
      <4>2. IsModel(EmitYAML(DOMAIN results, next))
        BY MergedIsTyped, EmittedIsTyped DEF BInv, TypeInv, IsModel
      <4> HIDE DEF next
      <4>3. /\ build' = [pc |-> build'.pc, flags |-> build'.flags, prev |-> build'.prev,
                         next |-> build'.next, from |-> build'.from]
            /\ build'.pc = pc /\ build'.flags = build.flags /\ build'.prev = build.prev
            /\ build'.next = EmitYAML(DOMAIN results, next) /\ build'.from = results
        BY <4>1 DEF BInv, TypeInv
      <4>4. Merged' = next
        BY <4>3 DEF Merged, next
      <4>5. file' = file
        BY <2>2 DEF Discover
      <4>6. TypeInv'
        BY <4>2, <4>3, <4>5 DEF BInv, TypeInv
      <4>7. ~Built'
        BY <4>3 DEF Built
      <4>8. PlanInv'
        BY <3>2, <4>3, <4>4, <4>7 DEF PlanInv
      <4> QED BY <4>6, <4>7, <4>8 DEF BInv
    <3> QED BY <3>1, <3>2
  <2>3. CASE Create
    BY <2>3, <2>e DEF Create, BInv, TypeInv, PlanInv, Built, Merged
  <2>4. CASE Emit
    <3>1. CASE build'.pc = "done"
      BY <2>4, <3>1 DEF Emit, BInv, TypeInv, PlanInv, Built, Merged
    <3>2. CASE build'.pc # "done"
      <4>1. file' = Garbled \/ \E n \in 0..(Len(KeyOrder) - 1) : file' = Torn(build.next, n)
        BY <2>4, <3>2 DEF Emit, BInv, TypeInv
      <4>2. \A n : IsModel(Torn(build.next, n))
        BY DEF Torn, IsModel, BInv, TypeInv
      <4>3. IsModel(file')
        BY <2>e, <4>1, <4>2
      <4> QED BY <2>4, <3>2, <4>3 DEF Emit, BInv, TypeInv, PlanInv, Built
    <3> QED BY <3>1, <3>2
  <2>5. CASE Kill
    BY <2>5 DEF Kill, BInv, TypeInv, PlanInv, Built
  <2>6. CASE Edit
    <3>1. IsModel(file')
      <4>1. ASSUME NEW k, NEW c, IsComponent(c), Put(k, c) PROVE IsModel(file')
        BY <4>1, PutIsTyped DEF BInv, TypeInv
      <4>2. ASSUME NEW w \in Writings, Put(w.key, w.comp) PROVE IsModel(file')
        BY <4>1, <4>2, WritingsAssumption
      <4>3. ASSUME NEW k \in DOMAIN file.comps, NEW f \in Marks,
                   Put(k, [file.comps[k] EXCEPT !.marks = @ \cup {f}])
            PROVE  IsModel(file')
        <5>1. IsComponent([file.comps[k] EXCEPT !.marks = @ \cup {f}])
          BY DEF BInv, TypeInv, IsModel, IsComponent
        <5> QED BY <4>1, <4>3, <5>1
      <4>4. ASSUME NEW k \in DOMAIN file.comps, NEW d \in file.comps[k].depends,
                   Put(k, [file.comps[k] EXCEPT !.depends = (@ \ {d}) \cup {[d EXCEPT !.while = "guarded"]}])
            PROVE  IsModel(file')
        <5>1. IsDependency(d)
          BY DEF BInv, TypeInv, IsModel, IsComponent
        <5>2. IsDependency([d EXCEPT !.while = "guarded"])
          BY <5>1 DEF IsDependency
        <5>3. IsComponent([file.comps[k] EXCEPT !.depends = (@ \ {d}) \cup {[d EXCEPT !.while = "guarded"]}])
          BY <5>2 DEF BInv, TypeInv, IsModel, IsComponent
        <5> QED BY <4>1, <4>4, <5>3
      <4>5. ASSUME NEW k, file' = [file EXCEPT !.comps = [j \in DOMAIN @ \ {k} |-> @[j]]]
            PROVE  IsModel(file')
        BY <4>5 DEF BInv, TypeInv, IsModel
      <4> QED BY <2>6, <4>2, <4>3, <4>4, <4>5 DEF Edit
    <3>2. (build' = build /\ build.pc = "loaded") \/ build' = NoBuild
      BY <2>6 DEF Edit, Running
    <3> QED BY <2>e, <2>n, <3>1, <3>2 DEF BInv, TypeInv, PlanInv, Built
  <2>7. CASE Restore
    BY <2>7, <2>e, <2>n DEF Restore, BInv, TypeInv, PlanInv, Built
  <2>8. CASE UNCHANGED buildVars
    BY <2>8 DEF buildVars, BInv, TypeInv, PlanInv, Built, Merged
  <2> QED BY <2>1, <2>2, <2>3, <2>4, <2>5, <2>6, <2>7, <2>8 DEF BuildNext
<1> QED BY <1>1, <1>2, PTL DEF BuildSpec

-----------------------------------------------------------------------------
(* What follows of a build that wrote the file.                            *)

\* The file holds the merge, less the fields the emitter has not.
LEMMA WhatIsBuilt ==
    ASSUME BInv, Built
    PROVE  /\ file = EmitYAML(DOMAIN build.from, Merged)
           /\ \A k \in DOMAIN Merged : IsComponent(Merged[k])
           /\ DOMAIN file.comps = DOMAIN Merged
           /\ DOMAIN Merged = DOMAIN Generated(build.from)
                                \cup Kept(build.prev.comps, Generated(build.from), build.flags.tombstone)
           /\ \A k \in DOMAIN Merged : /\ file.comps[k].source = Merged[k].source
                                      /\ file.comps[k].marks = Merged[k].marks \cap Emitted
                                      /\ file.comps[k].depends = Merged[k].depends
  <1>1. file = EmitYAML(DOMAIN build.from, Merged)
    BY DEF BInv, PlanInv
  <1>2. \A k \in DOMAIN Merged : IsComponent(Merged[k])
    BY MergedIsTyped DEF Merged, BInv, TypeInv, IsModel
  <1>3. DOMAIN Merged = DOMAIN Generated(build.from)
                         \cup Kept(build.prev.comps, Generated(build.from), build.flags.tombstone)
    BY DEF Merged, MergePrev
  <1> QED BY <1>1, <1>2, <1>3, EmittedIsTyped

\* What the merge makes of a component that was there before.
LEMMA WhatIsMerged ==
    ASSUME BInv, Built, NEW k \in DOMAIN build.prev.comps \cap DOMAIN Merged
    PROVE  \E c : /\ c = IF k \in DOMAIN Generated(build.from) THEN Generated(build.from)[k]
                        ELSE build.prev.comps[k]
                  /\ IsComponent(c)
                  /\ Merged[k].source = c.source
                  /\ Merged[k].marks = c.marks \cup (build.prev.comps[k].marks \cap Carried)
                  /\ Merged[k].depends = {Guarded(build.prev.comps[k], d) : d \in c.depends}
  <1> DEFINE c == IF k \in DOMAIN Generated(build.from) THEN Generated(build.from)[k] ELSE build.prev.comps[k]
  <1>1. IsComponent(c)
    BY GeneratedIsTyped DEF BInv, TypeInv, IsModel
  <1>2. Merged[k] = Augmented(build.prev.comps[k], c)
    BY DEF Merged, MergePrev
  <1> HIDE DEF c
  <1>3. /\ Merged[k].source = c.source
        /\ Merged[k].marks = c.marks \cup (build.prev.comps[k].marks \cap Carried)
        /\ Merged[k].depends = {Guarded(build.prev.comps[k], d) : d \in c.depends}
    BY <1>1, <1>2, AugmentedIsTyped
  <1> QED BY <1>1, <1>3 DEF c

\* RemovalNeedsConsent, for every discovery, author and way a build may stop:
\* what is gone from the file was not kept, so it was discovered once, and
\* not tombstoned, so the gate let it go because of --allow-deletes.
THEOREM RemovalIsConsented == BuildSpec => []RemovalNeedsConsent
<1>1. BInv => RemovalNeedsConsent
  <2> SUFFICES ASSUME BInv, Built, NEW k \in DOMAIN build.prev.comps \ DOMAIN file.comps
               PROVE  build.flags.allowDeletes /\ ~Authored(build.prev.comps[k])
    BY DEF RemovalNeedsConsent
  <2>1. k \notin DOMAIN Generated(build.from)
        /\ k \notin Kept(build.prev.comps, Generated(build.from), build.flags.tombstone)
    BY WhatIsBuilt
  <2>2. ~Authored(build.prev.comps[k]) /\ k \notin build.flags.tombstone
    BY <2>1 DEF Kept
  <2>3. k \in Removed(build.prev.comps, Merged)
    BY WhatIsBuilt DEF Removed
  <2>4. GatePasses(build.prev.comps, Merged, build.flags)
    BY DEF BInv, PlanInv
  <2> QED BY <2>2, <2>3, <2>4 DEF GatePasses
<1> QED BY <1>1, BInvHolds, PTL

\* HandWorkSurvives, likewise: what was discovered anew under a key is
\* augmented with what the old file had there, and all of that is emitted.
THEOREM HandWorkIsCarried == BuildSpec => []HandWorkSurvives
<1>1. BInv => HandWorkSurvives
  <2> SUFFICES ASSUME BInv, Built, NEW k \in DOMAIN build.prev.comps \cap DOMAIN file.comps
               PROVE  /\ build.prev.comps[k].marks \cap Carried \subseteq file.comps[k].marks
                      /\ \A d \in build.prev.comps[k].depends, e \in file.comps[k].depends :
                            d.on = e.on /\ d.while # NoGuard => e.while # NoGuard
    BY DEF HandWorkSurvives
  <2>1. k \in DOMAIN Merged
    BY WhatIsBuilt
  <2>2. PICK c : /\ IsComponent(c)
                 /\ Merged[k].marks = c.marks \cup (build.prev.comps[k].marks \cap Carried)
                 /\ Merged[k].depends = {Guarded(build.prev.comps[k], d) : d \in c.depends}
    BY <2>1, WhatIsMerged
  <2>3. file.comps[k].marks = Merged[k].marks \cap Emitted /\ file.comps[k].depends = Merged[k].depends
    BY <2>1, WhatIsBuilt
  <2>4. Carried \subseteq Emitted
    BY DEF Carried, Emitted, Fields
  <2>5. ASSUME NEW d \in build.prev.comps[k].depends, NEW e \in file.comps[k].depends,
               d.on = e.on, d.while # NoGuard
        PROVE  e.while # NoGuard
    <3>1. PICK a \in c.depends : e = Guarded(build.prev.comps[k], a)
      BY <2>2, <2>3
    <3>2. IsDependency(a)
      BY <2>2, <3>1 DEF IsComponent
    <3>3. e.on = a.on
      BY <3>1, <3>2, GuardedKeepsTheRest
    <3> QED BY <2>5, <3>1, <3>2, <3>3, GuardedKeepsTheRest
  <2> QED BY <2>2, <2>3, <2>4, <2>5
<1> QED BY <1>1, BInvHolds, PTL

-----------------------------------------------------------------------------
(* Dependencies of what was discovered.                                    *)

\* An edge ends on a component of the same answer, whose key is in the model.
LEMMA EdgesEndInTheModel ==
    ASSUME NEW results, ~UnknownEnd(results), NEW k \in DOMAIN Generated(results),
           NEW d \in Generated(results)[k].depends
    PROVE  d.on \subseteq DOMAIN Generated(results)
  <1> DEFINE f == CHOOSE f \in Found(results) : KeyOf(results, f.comp) = k
  <1>1. DOMAIN Generated(results) = {KeyOf(results, g.comp) : g \in Found(results)}
    BY DEF Generated
  <1>2. f \in Found(results)
    BY <1>1
  <1>3. Generated(results)[k].depends =
           {[on |-> {NameKey(results, f.by, e[2])}, need |-> 0, while |-> NoGuard] :
               e \in {g \in results[f.by].edges : g[1] = f.comp.name}}
    BY DEF Generated, Discovered
  <1> HIDE DEF f
  <1>4. f.by \in DOMAIN results
    BY <1>2 DEF Found
  <1>5. PICK e \in results[f.by].edges : d.on = {NameKey(results, f.by, e[2])}
    BY <1>3
  <1>6. \E c \in results[f.by].comps : c.name = e[2]
    BY <1>4 DEF UnknownEnd
  <1> DEFINE c == CHOOSE c \in results[f.by].comps : c.name = e[2]
  <1>7. c \in results[f.by].comps /\ NameKey(results, f.by, e[2]) = KeyOf(results, c)
    BY <1>6 DEF NameKey
  <1> HIDE DEF c
  <1>8. [by |-> f.by, comp |-> c] \in Found(results)
    BY <1>4, <1>7 DEF Found
  <1>9. KeyOf(results, c) \in DOMAIN Generated(results)
    BY <1>1, <1>8
  <1> QED BY <1>5, <1>7, <1>9

\* DiscoveredNeverDangles, whatever the providers return: a discovery with
\* an edge to nowhere was refused, a guard moves no target, and no key of
\* this discovery is dropped by the merge.
THEOREM DiscoveryIsClosed == BuildSpec => []DiscoveredNeverDangles
<1>1. BInv => DiscoveredNeverDangles
  <2> SUFFICES ASSUME BInv, Built, NEW k \in DOMAIN Generated(build.from), NEW d \in file.comps[k].depends
               PROVE  d.on \subseteq DOMAIN file.comps
    BY DEF DiscoveredNeverDangles, Dangles
  <2>1. k \in DOMAIN Merged /\ DOMAIN Generated(build.from) \subseteq DOMAIN file.comps
    BY WhatIsBuilt
  <2>2. file.comps[k].depends = Merged[k].depends
    BY <2>1, WhatIsBuilt
  <2>3. ~UnknownEnd(build.from)
    BY DEF BInv, PlanInv, Refused
  <2>4. CASE k \in DOMAIN build.prev.comps
    <3>1. Merged[k].depends =
             {Guarded(build.prev.comps[k], e) : e \in Generated(build.from)[k].depends}
      BY <2>1, <2>4, WhatIsMerged
    <3>2. PICK e \in Generated(build.from)[k].depends : d = Guarded(build.prev.comps[k], e)
      BY <2>2, <3>1
    <3>3. IsDependency(e)
      BY GeneratedIsTyped DEF IsComponent
    <3>4. d.on = e.on
      BY <3>2, <3>3, GuardedKeepsTheRest
    <3> QED BY <2>1, <2>3, <3>4, EdgesEndInTheModel
  <2>5. CASE k \notin DOMAIN build.prev.comps
    <3>1. Merged[k] = Generated(build.from)[k]
      BY <2>1, <2>5 DEF Merged, MergePrev
    <3> QED BY <2>1, <2>2, <2>3, <3>1, EdgesEndInTheModel
  <2> QED BY <2>4, <2>5
<1> QED BY <1>1, BInvHolds, PTL

-----------------------------------------------------------------------------
(* Building again.                                                         *)

\* Components and dependencies are their fields.
LEMMA SameFieldsSameComponent ==
    ASSUME NEW c, NEW d, IsComponent(c), IsComponent(d),
           c.source = d.source, c.type = d.type, c.providers = d.providers,
           c.marks = d.marks, c.depends = d.depends
    PROVE  c = d
  BY DEF IsComponent

\* The same for dependencies.
LEMMA SameFieldsSameDependency ==
    ASSUME NEW d, NEW e, IsDependency(d), IsDependency(e),
           d.on = e.on, d.need = e.need, d.while = e.while
    PROVE  d = e
  BY DEF IsDependency

\* What a guard is: the one chosen for the targets, or what was there.
Guards(prev, on)   == \E e \in prev.depends : e.while # NoGuard /\ e.on = on
GuardFor(prev, on) == (CHOOSE e \in prev.depends : e.while # NoGuard /\ e.on = on).while

\* The guard that is carried over to a dependency
LEMMA GuardOf ==
    ASSUME NEW prev, NEW d, IsDependency(d)
    PROVE  Guarded(prev, d).while = IF Guards(prev, d.on) THEN GuardFor(prev, d.on) ELSE d.while
  BY DEF Guarded, Guards, GuardFor, IsDependency

\* is one of those that were there for its target.
LEMMA GuardForIsOne ==
    ASSUME NEW prev, NEW on, Guards(prev, on)
    PROVE  \E e \in prev.depends : e.while # NoGuard /\ e.on = on /\ GuardFor(prev, on) = e.while
  BY DEF Guards, GuardFor

\* Guards carried over once are carried over to the same dependencies again.
LEMMA GuardedAgain ==
    ASSUME NEW prev, NEW D, NEW next,
           \A d \in D : IsDependency(d),
           \A d \in D : d.while # NoGuard => Guards(prev, d.on),
           \A e \in next.depends : \E d \in D : e = Guarded(prev, d),
           \A d \in D : Guarded(prev, d) \in next.depends,
           NEW d \in D
    PROVE  /\ Guarded(next, d) = Guarded(prev, d)
           /\ Guarded(next, Guarded(prev, d)) = Guarded(prev, d)
  <1> DEFINE g == Guarded(prev, d)
  <1>1. /\ IsDependency(g) /\ g.on = d.on /\ g.need = d.need /\ g \in next.depends
    BY GuardedKeepsTheRest
  <1>2. ASSUME NEW e \in next.depends, e.on = d.on
        PROVE  \E b \in D :
                  /\ b.on = d.on
                  /\ e.while = IF Guards(prev, d.on) THEN GuardFor(prev, d.on) ELSE b.while
    <2>1. PICK b \in D : e = Guarded(prev, b)
      OBVIOUS
    <2>2. IsDependency(b) /\ b.on = d.on
      BY <1>2, <2>1, GuardedKeepsTheRest
    <2>3. e.while = IF Guards(prev, b.on) THEN GuardFor(prev, b.on) ELSE b.while
      BY <2>1, <2>2, GuardOf
    <2> QED BY <2>2, <2>3
  <1>3. ASSUME NEW x, IsDependency(x), x.on = d.on, x.need = d.need, x.while \in {d.while, g.while}
        PROVE  Guarded(next, x) = g
    <2>1. /\ IsDependency(Guarded(next, x)) /\ Guarded(next, x).on = d.on /\ Guarded(next, x).need = d.need
      BY <1>3, GuardedKeepsTheRest
    <2>2. Guarded(next, x).while = IF Guards(next, d.on) THEN GuardFor(next, d.on) ELSE x.while
      BY <1>3, GuardOf
    <2>3. g.while = IF Guards(prev, d.on) THEN GuardFor(prev, d.on) ELSE d.while
      BY GuardOf
    <2>4. CASE Guards(prev, d.on)
      <3>1. GuardFor(prev, d.on) # NoGuard
        BY <2>4, GuardForIsOne
      <3>2. Guards(next, d.on)
        BY <1>1, <2>3, <2>4, <3>1 DEF Guards
      <3>3. GuardFor(next, d.on) = GuardFor(prev, d.on)
        BY <1>2, <2>4, <3>2, GuardForIsOne
      <3>4. Guarded(next, x).while = g.while
        BY <2>2, <2>3, <2>4, <3>2, <3>3
      <3> QED BY <1>1, <2>1, <3>4, SameFieldsSameDependency
    <2>5. CASE ~Guards(prev, d.on)
      <3>1. ~Guards(next, d.on)
        BY <1>2, <2>5 DEF Guards
      <3>2. Guarded(next, x).while = g.while
        BY <1>3, <2>2, <2>3, <2>5, <3>1
      <3> QED BY <1>1, <2>1, <3>2, SameFieldsSameDependency
    <2> QED BY <2>4, <2>5
  <1> QED BY <1>1, <1>3

\* RebuildIsStable, whatever was loaded, discovered and asked for: the keys
\* kept once are kept again, and a component is merged to what it was.
THEOREM BuildIsIdempotent == BuildSpec => []RebuildIsStable
<1>1. BInv => RebuildIsStable
  <2> SUFFICES ASSUME BInv, Built
               PROVE  file = EmitYAML(DOMAIN build.from,
                                MergePrev(file.comps, Generated(build.from), build.flags.tombstone))
    BY DEF RebuildIsStable
  <2> DEFINE next  == Generated(build.from)
             prev  == build.prev.comps
             comps == file.comps
             again == MergePrev(comps, next, build.flags.tombstone)
  <2>1. /\ file = EmitYAML(DOMAIN build.from, Merged)
        /\ DOMAIN comps = DOMAIN Merged
        /\ DOMAIN Merged = DOMAIN next \cup Kept(prev, next, build.flags.tombstone)
    BY WhatIsBuilt
  <2>2. \A k \in DOMAIN comps :
           /\ IsComponent(comps[k])
           /\ IsComponent(Merged[k])
           /\ comps[k].source = Merged[k].source
           /\ comps[k].type = Merged[k].type
           /\ comps[k].providers = Merged[k].providers
           /\ comps[k].marks = Merged[k].marks \cap Emitted
           /\ comps[k].depends = Merged[k].depends
    <3>1. \A k \in DOMAIN comps : IsComponent(Merged[k])
      BY <2>1, WhatIsBuilt
    <3>2. \A k \in DOMAIN comps : IsComponent(comps[k])
      BY DEF BInv, TypeInv, IsModel
    <3> QED BY <2>1, <3>1, <3>2, EmittedIsTyped
  <2>3. \A k \in Kept(prev, next, build.flags.tombstone) :
           k \in DOMAIN prev /\ k \notin DOMAIN next /\ comps[k].source = prev[k].source
    <3> SUFFICES ASSUME NEW k \in Kept(prev, next, build.flags.tombstone)
                 PROVE  k \in DOMAIN prev /\ k \notin DOMAIN next /\ comps[k].source = prev[k].source
      OBVIOUS
    <3>1. k \in DOMAIN prev /\ k \notin DOMAIN next
      BY DEF Kept
    <3>2. Merged[k].source = prev[k].source
      BY <2>1, <3>1, WhatIsMerged
    <3> QED BY <2>1, <2>2, <3>1, <3>2
  <2>4. Kept(comps, next, build.flags.tombstone) = Kept(prev, next, build.flags.tombstone)
    BY <2>1, <2>3 DEF Kept, Authored
  <2>5. DOMAIN again = DOMAIN comps
    BY <2>1, <2>4 DEF MergePrev
  <2>6. ASSUME NEW k \in DOMAIN comps
        PROVE  again[k] = comps[k]
    <3> DEFINE c == IF k \in DOMAIN next THEN next[k] ELSE comps[k]
    <3>1. again[k] = Augmented(comps[k], c)
      BY <2>5, <2>6 DEF MergePrev
    <3>2. IsComponent(c)
      BY <2>2, <2>6, GeneratedIsTyped
    <3> HIDE DEF again
    <3>3. /\ IsComponent(again[k])
          /\ again[k].source = c.source /\ again[k].type = c.type /\ again[k].providers = c.providers
          /\ again[k].marks = c.marks \cup (comps[k].marks \cap Carried)
          /\ again[k].depends = {Guarded(comps[k], d) : d \in c.depends}
      <4> HIDE DEF c
      <4> QED BY <3>1, <3>2, AugmentedIsTyped
    <3>4. CASE k \in DOMAIN next /\ k \in DOMAIN prev
      <4>1. /\ Merged[k] = Augmented(prev[k], next[k])
            /\ IsComponent(next[k]) /\ next[k].marks = {}
            /\ \A d \in next[k].depends : IsDependency(d) /\ d.while = NoGuard
        BY <2>1, <3>4, GeneratedIsTyped DEF Merged, MergePrev, IsComponent
      <4>2. /\ Merged[k].source = next[k].source /\ Merged[k].type = next[k].type
            /\ Merged[k].providers = next[k].providers
            /\ Merged[k].marks = prev[k].marks \cap Carried
            /\ Merged[k].depends = {Guarded(prev[k], d) : d \in next[k].depends}
        BY <4>1, AugmentedIsTyped
      <4>3. \A d \in next[k].depends : Guarded(comps[k], d) = Guarded(prev[k], d)
        <5>1. /\ \A e \in comps[k].depends : \E d \in next[k].depends : e = Guarded(prev[k], d)
              /\ \A d \in next[k].depends : Guarded(prev[k], d) \in comps[k].depends
          BY <2>2, <4>2
        <5>2. \A d \in next[k].depends : IsDependency(d) /\ (d.while # NoGuard => Guards(prev[k], d.on))
          BY <4>1
        <5>3. ASSUME NEW d \in next[k].depends
              PROVE  /\ Guarded(comps[k], d) = Guarded(prev[k], d)
                     /\ Guarded(comps[k], Guarded(prev[k], d)) = Guarded(prev[k], d)
          BY <5>1, <5>2, GuardedAgain
        <5> QED BY <5>3
      <4>4. again[k].depends = comps[k].depends
        BY <2>2, <3>3, <3>4, <4>2, <4>3
      <4>5. again[k].marks = comps[k].marks
        BY <2>2, <3>3, <3>4, <4>1, <4>2 DEF Carried, Emitted, Fields
      <4> QED BY <2>2, <3>3, <3>4, <4>2, <4>4, <4>5, SameFieldsSameComponent
    <3>5. CASE k \in DOMAIN next /\ k \notin DOMAIN prev
      <4>1. /\ Merged[k] = next[k]
            /\ next[k].marks = {}
            /\ \A d \in next[k].depends : IsDependency(d) /\ d.while = NoGuard
        BY <2>1, <3>5, GeneratedIsTyped DEF Merged, MergePrev, IsComponent
      <4>2. \A d \in next[k].depends : Guarded(comps[k], d) = d
        BY <2>2, <4>1 DEF Guarded
      <4>3. again[k].depends = comps[k].depends
        BY <2>2, <3>3, <3>5, <4>1, <4>2
      <4>4. again[k].marks = comps[k].marks
        BY <2>2, <3>3, <3>5, <4>1
      <4>5. /\ again[k].source = comps[k].source /\ again[k].type = comps[k].type
            /\ again[k].providers = comps[k].providers
        BY <2>2, <3>3, <3>5, <4>1
      <4> HIDE DEF comps, next, c
      <4> QED BY <2>2, <3>3, <4>3, <4>4, <4>5, SameFieldsSameComponent
    <3>6. CASE k \notin DOMAIN next
      <4>1. k \in DOMAIN prev
        BY <2>1, <2>3, <3>6
      <4>2. IsComponent(prev[k])
        BY <4>1 DEF BInv, TypeInv, IsModel
      <4>3. Merged[k] = Augmented(prev[k], prev[k])
        BY <2>1, <3>6, <4>1 DEF Merged, MergePrev
      <4>4. Merged[k].depends = {Guarded(prev[k], d) : d \in prev[k].depends}
        BY <4>2, <4>3, AugmentedIsTyped
      <4>5. \A d \in prev[k].depends : IsDependency(d) /\ (d.while # NoGuard => Guards(prev[k], d.on))
        BY <4>2 DEF IsComponent, Guards
      <4>6. \A d \in prev[k].depends : Guarded(comps[k], Guarded(prev[k], d)) = Guarded(prev[k], d)
        <5>1. /\ \A e \in comps[k].depends : \E d \in prev[k].depends : e = Guarded(prev[k], d)
              /\ \A d \in prev[k].depends : Guarded(prev[k], d) \in comps[k].depends
          BY <2>2, <4>4
        <5> QED BY <4>5, <5>1, GuardedAgain
      <4>7. again[k].depends = comps[k].depends
        BY <2>2, <3>3, <3>6, <4>4, <4>6
      <4>8. again[k].marks = comps[k].marks
        BY <3>3, <3>6
      <4>9. /\ again[k].source = comps[k].source /\ again[k].type = comps[k].type
            /\ again[k].providers = comps[k].providers
        BY <3>3, <3>6
      <4> HIDE DEF comps, next, c
      <4> QED BY <2>2, <3>3, <4>7, <4>8, <4>9, SameFieldsSameComponent
    <3> QED BY <3>4, <3>5, <3>6
  <2>7. EmitYAML(DOMAIN build.from, again) = file
    <3> DEFINE written(f) == [k \in DOMAIN f |-> [f[k] EXCEPT !.marks = @ \cap Emitted]]
    <3>1. \A k \in DOMAIN comps : [again[k] EXCEPT !.marks = @ \cap Emitted] = comps[k]
      <4> SUFFICES ASSUME NEW k \in DOMAIN comps
                   PROVE  [comps[k] EXCEPT !.marks = @ \cap Emitted] = comps[k]
        BY <2>6
      <4>1. comps[k].marks \cap Emitted = comps[k].marks
        BY <2>2
      <4> QED BY <2>2, <4>1 DEF IsComponent
    <3>2. written(again) = comps
      <4>1. comps = [k \in DOMAIN comps |-> comps[k]]
        BY <2>1 DEF EmitYAML, Model
      <4> HIDE DEF again, comps
      <4> QED BY <2>5, <3>1, <4>1
    <3>3. file = [kind |-> "model", providers |-> DOMAIN build.from, comps |-> comps]
      BY <2>1 DEF EmitYAML, Model
    <3> HIDE DEF again, comps, written
    <3>4. EmitYAML(DOMAIN build.from, again) =
             [kind |-> "model", providers |-> DOMAIN build.from, comps |-> written(again)]
      BY DEF EmitYAML, Model, written
    <3> QED BY <3>2, <3>3, <3>4
  <2> QED BY <2>7
<1> QED BY <1>1, BInvHolds, PTL

=============================================================================
