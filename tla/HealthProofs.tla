---------------------------- MODULE HealthProofs ----------------------------
(***************************************************************************)
(* Facts about the operators every mode of diagnosis is built from: that   *)
(* their recursions have the solutions they seem to have, what the latest  *)
(* record of a key is, that whatever the facts seen so far have decided    *)
(* stays decided when more of them are read, which components bfsWalk      *)
(* visits, and that once nothing is unread the root cause is the one full  *)
(* visibility names.                                                       *)
(***************************************************************************)
EXTENDS Probing, SequenceTheorems, FiniteSetTheorems, TLAPS

-----------------------------------------------------------------------------
(* Least and greatest elements.                                            *)

\* A nonempty family of subsets of a finite set has one that contains no
\* other: inclusion is well founded.
LEMMA LeastSubset ==
    ASSUME NEW U, IsFiniteSet(U), NEW F, \A x \in F : x \subseteq U, F # {}
    PROVE  \E x \in F : \A y \in F : ~(y \subseteq x /\ y # x)
<1>. DEFINE R == StrictSubsetOrdering(U)
<1>1. IsWellFoundedOn(R, SUBSET U)
  BY FS_StrictSubsetOrderingWellFounded, FS_FiniteSubsetsOfFinite
<1>2. PICK x \in F : \A y \in F : ~(<<y, x>> \in R)
  <2>1. F \subseteq SUBSET U  OBVIOUS
  <2>. HIDE DEF R
  <2>. QED  BY <1>1, <2>1, WFMin
<1>. QED  BY <1>2 DEF StrictSubsetOrdering

\* Min is well defined on positions of a sequence.
LEMMA MinInSet ==
    ASSUME NEW n \in Nat, NEW S \in SUBSET (1..n), S # {}
    PROVE  Min(S) \in S /\ \A j \in S : Min(S) <= j
<1>. DEFINE F == {S \cap (1..i) : i \in S}
<1>1. IsFiniteSet(S) 
  <2>1. S \in SUBSET Nat /\ \A s \in S : s <= n  OBVIOUS
  <2>. QED  BY <2>1, FS_BoundedSetOfNaturals
<1>2. PICK x \in F : \A y \in F : ~(y \subseteq x /\ y # x)
  <2>1. \A x \in F : x \subseteq S  OBVIOUS
  <2>2. F # {}
    <3>1. PICK i \in S : TRUE  OBVIOUS
    <3>. QED  BY <3>1
  <2>. HIDE DEF F
  <2>. QED  BY <1>1, <2>1, <2>2, LeastSubset
<1>3. PICK m \in S : x = S \cap (1..m)
  BY <1>2
<1>4. ASSUME NEW j \in S, j < m  PROVE FALSE
  <2>1. S \cap (1..j) \in F /\ S \cap (1..j) \subseteq x
    BY <1>3, <1>4
  <2>2. m \in x /\ m \notin S \cap (1..j)
    BY <1>3, <1>4
  <2>. QED  BY <1>2, <2>1, <2>2
<1>5. \A j \in S : m <= j
  BY <1>4
<1>. QED  BY <1>3, <1>5, Zenon DEF Min

\* So is Max, by which Store.Latest is defined.
LEMMA MaxInSet ==
    ASSUME NEW n \in Nat, NEW S \in SUBSET (1..n), S # {}
    PROVE  Max(S) \in S /\ \A j \in S : j <= Max(S)
<1>. DEFINE F == {S \cap (i..n) : i \in S}
<1>1. IsFiniteSet(S) 
  <2>1. S \in SUBSET Nat /\ \A s \in S : s <= n  OBVIOUS
  <2>. QED  BY <2>1, FS_BoundedSetOfNaturals
<1>2. PICK x \in F : \A y \in F : ~(y \subseteq x /\ y # x)
  <2>1. \A x \in F : x \subseteq S  OBVIOUS
  <2>2. F # {}
    <3>1. PICK i \in S : TRUE  OBVIOUS
    <3>. QED  BY <3>1
  <2>. HIDE DEF F
  <2>. QED  BY <1>1, <2>1, <2>2, LeastSubset
<1>3. PICK m \in S : x = S \cap (m..n)
  BY <1>2
<1>4. ASSUME NEW j \in S, m < j  PROVE FALSE
  <2>1. S \cap (j..n) \in F /\ S \cap (j..n) \subseteq x
    BY <1>3, <1>4
  <2>2. m \in x /\ m \notin S \cap (j..n)
    BY <1>3, <1>4
  <2>. QED  BY <1>2, <2>1, <2>2
<1>5. \A j \in S : m >= j
  BY <1>4
<1>6. Max(S) \in S /\ \A j \in S : Max(S) >= j
  BY <1>3, <1>5, Zenon DEF Max
<1>. QED  BY <1>6

-----------------------------------------------------------------------------
(* The store.                                                              *)

\* Store.LookupValue returns a value that was recorded under the key.
LEMMA LookupIsRecorded ==
    ASSUME NEW facts \in Seq(Fact), NEW k, LookupValue(facts, k) # NoValue
    PROVE  \E i \in DOMAIN facts : facts[i].key = k /\ facts[i].value = LookupValue(facts, k)
<1>. DEFINE S == Positions(facts, k)
<1>1. Len(facts) \in Nat /\ S \in SUBSET (1..Len(facts)) /\ S # {}
  BY DEF LookupValue, Collected, Positions
<1>2. Max(S) \in S
  BY <1>1, MaxInSet
<1>. QED
  BY <1>1, <1>2 DEF LookupValue, Latest, Collected, Positions

\* Store.LookupValue of a key that was recorded: the value of some record of it.
LEMMA LookupOfRecorded ==
    ASSUME NEW facts \in Seq(Fact), NEW i \in DOMAIN facts
    PROVE  \E j \in DOMAIN facts : /\ facts[j].key = facts[i].key
                                  /\ LookupValue(facts, facts[i].key) = facts[j].value
<1>. DEFINE S == Positions(facts, facts[i].key)
<1>1. Len(facts) \in Nat /\ S \in SUBSET (1..Len(facts)) /\ i \in S
  BY DEF Positions
<1>2. Max(S) \in S
  BY <1>1, MaxInSet
<1>. QED
  BY <1>1, <1>2 DEF LookupValue, Latest, Collected, Positions

-----------------------------------------------------------------------------
(* Kleene's tables are monotone.                                           *)

\* Everything s reads under the keys K, t reads too.
Below(s, t, K) ==
    \A c \in Components : \A k \in K :
        LookupValue(s[c], k) \in {NoValue, LookupValue(t[c], k)}

\* A comparison that is decided keeps its truth when more facts are read.
LEMMA AtomIsStable ==
    ASSUME NEW s, NEW t, NEW K, Below(s, t, K),
           NEW c \in Components, NEW a, a.fact = StateRef \/ (a.on = c /\ a.fact \in K),
           AtomTruth(a, s, NoStates) # "unresolved"
    PROVE  AtomTruth(a, t, NoStates) = AtomTruth(a, s, NoStates)
<1>1. a.fact # StateRef /\ a.on = c /\ a.fact \in K
  BY DEF AtomTruth, NoStates
<1>2. LookupValue(s[c], a.fact) # NoValue
  BY <1>1 DEF AtomTruth
<1>3. LookupValue(t[c], a.fact) = LookupValue(s[c], a.fact)
  BY <1>1, <1>2 DEF Below
<1>. QED
  BY <1>1, <1>3 DEF AtomTruth

\* AndNode.Eval and OrNode.Eval decide early, and never take it back.
LEMMA TruthIsStable ==
    ASSUME NEW s, NEW t, NEW K, Below(s, t, K),
           NEW c \in Components, NEW p, Reads(p, c, K),
           Truth(p, s, NoStates) # "unresolved"
    PROVE  Truth(p, t, NoStates) = Truth(p, s, NoStates)
<1>. DEFINE At(a) == AtomTruth(a, s, NoStates)
            After(a) == AtomTruth(a, t, NoStates)
<1>1. \A conj \in p : \A a \in conj : At(a) # "unresolved" => After(a) = At(a)
  <2>. SUFFICES ASSUME NEW conj \in p, NEW a \in conj, At(a) # "unresolved"
                PROVE  After(a) = At(a)
    OBVIOUS
  <2>1. a.fact = StateRef \/ (a.on = c /\ a.fact \in K)
    BY DEF Reads
  <2>. QED  BY <2>1, AtomIsStable
<1>. HIDE DEF At, After
<1>2. CASE \E conj \in p : \A a \in conj : At(a) = "true"
  <2>1. \E conj \in p : \A a \in conj : After(a) = "true"
    BY <1>1, <1>2
  <2>. QED  BY <1>2, <2>1 DEF Truth, At, After
<1>3. CASE /\ ~ \E conj \in p : \A a \in conj : At(a) = "true"
           /\ \A conj \in p : \E a \in conj : At(a) = "false"
  <2>1. \A conj \in p : \E a \in conj : After(a) = "false"
    BY <1>1, <1>3
  <2>2. ~ \E conj \in p : \A a \in conj : After(a) = "true"
    BY <2>1
  <2>. QED  BY <1>3, <2>1, <2>2 DEF Truth, At, After
<1>. QED  BY <1>2, <1>3 DEF Truth, At

-----------------------------------------------------------------------------
(* Verdicts, groups and chains under what more facts would say.            *)

\* s knows no more than t.
Sees(s, t, K) ==
    /\ s \in Store /\ t \in Store
    /\ Below(s, t, K)
    /\ \A c \in Components : Observed(s[c]) => Observed(t[c])

\* A comparison that is decided has read a value of its component.
LEMMA DecidedIsObserved ==
    ASSUME NEW s \in Store, NEW K, NEW c \in Components,
           NEW a, a.fact = StateRef \/ (a.on = c /\ a.fact \in K),
           AtomTruth(a, s, NoStates) # "unresolved"
    PROVE  Observed(s[c])
<1>1. a.on = c /\ LookupValue(s[c], a.fact) # NoValue
  BY DEF AtomTruth, NoStates
<1>2. s[c] \in Seq(Fact)
  BY DEF Store
<1>. QED  BY <1>1, <1>2, LookupIsRecorded DEF Observed

\* In a plain model no state decides the verdict (stateVerdict returns "").
LEMMA PlainStateVerdict ==
    ASSUME NEW K, PlainModel(K), NEW c \in Components, NEW s
    PROVE  StateVerdict(c, s) = ""
<1>. DEFINE hits == {i \in DOMAIN States[c] : Holds(States[c][i].when, s)}
<1>1. CASE hits = {}
  BY <1>1 DEF StateVerdict
<1>2. CASE hits # {}
  <2>1. States[c] \in Seq(Range(States[c]))
    BY ModelAssumption
  <2>2. Len(States[c]) \in Nat /\ hits \in SUBSET (1..Len(States[c]))
    BY <2>1
  <2>3. Min(hits) \in DOMAIN States[c]
    BY <1>2, <2>2, MinInSet
  <2>. QED  BY <1>2, <2>3 DEF StateVerdict, PlainModel
<1>. QED  BY <1>1, <1>2

\* ComponentVerdict never says healthy on the strength of missing facts: what
\* is healthy stays healthy when they come in.
LEMMA HealthyIsStable ==
    ASSUME NEW K, PlainModel(K), NEW s, NEW t, Sees(s, t, K),
           NEW c \in Components, Healthy(s, c)
    PROVE  Healthy(t, c) /\ ~Unhealthy(t, c)
<1>1. StateVerdict(c, s) = "" /\ StateVerdict(c, t) = ""
  BY PlainStateVerdict
<1>2. /\ \A r \in Rules[c] : Truth(r, s, NoStates) = "true"
      /\ Rules[c] = {} => Observed(s[c])
  BY <1>1 DEF Healthy, Holds
<1>3. \A r \in Rules[c] : Truth(r, t, NoStates) = "true"
  <2>. SUFFICES ASSUME NEW r \in Rules[c]  PROVE Truth(r, t, NoStates) = "true"
    OBVIOUS
  <2>1. Reads(r, c, K) /\ Truth(r, s, NoStates) # "unresolved"
    BY <1>2 DEF PlainModel
  <2>. QED  BY <1>2, <2>1, TruthIsStable DEF Sees
<1>4. Observed(s[c])
  <2>1. CASE Rules[c] = {}
    BY <1>2, <2>1
  <2>2. ASSUME NEW r \in Rules[c]  PROVE Observed(s[c])
    <3>1. PICK conj \in r : \A a \in conj : AtomTruth(a, s, NoStates) = "true"
      BY <1>2 DEF Truth
    <3>2. PICK a \in conj : TRUE
      BY <2>2, <3>1 DEF PlainModel
    <3>3. a.fact = StateRef \/ (a.on = c /\ a.fact \in K)
      BY <2>2, <3>1, <3>2 DEF PlainModel, Reads
    <3>4. AtomTruth(a, s, NoStates) # "unresolved"
      BY <3>1, <3>2
    <3>. QED  BY <3>3, <3>4, DecidedIsObserved DEF Sees
  <2>. QED  BY <2>1, <2>2
<1>5. ~IsAbsent(t[c]) /\ Observed(t[c])
  BY <1>4 DEF Sees, IsAbsent
<1>. QED  BY <1>1, <1>3, <1>5 DEF Healthy, Unhealthy, Holds

\* What is unhealthy stays unhealthy, unless it only seemed absent.
LEMMA UnhealthyIsStable ==
    ASSUME NEW K, PlainModel(K), NEW s, NEW t, Sees(s, t, K),
           NEW c \in Components, Unhealthy(s, c), IsAbsent(s[c]) => IsAbsent(t[c])
    PROVE  Unhealthy(t, c)
<1>1. StateVerdict(c, s) = "" /\ StateVerdict(c, t) = ""
  BY PlainStateVerdict
<1>2. CASE IsAbsent(s[c])
  BY <1>2 DEF Unhealthy
<1>3. ASSUME NEW r \in Rules[c], Truth(r, s, NoStates) = "false"
      PROVE  Unhealthy(t, c)
  <2>1. Reads(r, c, K) /\ Truth(r, s, NoStates) # "unresolved"
    BY <1>3 DEF PlainModel
  <2>2. Truth(r, t, NoStates) = "false"
    BY <1>3, <2>1, TruthIsStable DEF Sees
  <2>. QED  BY <1>1, <1>3, <2>2 DEF Unhealthy
<1>. QED  BY <1>1, <1>2, <1>3 DEF Unhealthy

\* SatisfiedGroup: a group that holds keeps holding.
LEMMA SatisfiedIsStable ==
    ASSUME NEW K, PlainModel(K), NEW s, NEW t, Sees(s, t, K),
           NEW parent \in Components, NEW child, SatisfiedGroup(s, parent, child)
    PROVE  SatisfiedGroup(t, parent, child)
<1>1. PICK i \in DOMAIN Depends[parent] :
        /\ Depends[parent][i].need > 0
        /\ child \in Range(Depends[parent][i].on)
        /\ Cardinality(HealthyMembers(s, Depends[parent][i])) >= Depends[parent][i].need
  BY DEF SatisfiedGroup
<1>. DEFINE dep == Depends[parent][i]
<1>2. dep.on \in Seq(Components) /\ dep.need \in Nat
  BY ModelAssumption
<1>3. HealthyMembers(s, dep) \subseteq HealthyMembers(t, dep)
  <2>1. \A j \in DOMAIN dep.on : dep.on[j] \in Components
    BY <1>2
  <2>. QED  BY <2>1, HealthyIsStable DEF HealthyMembers
<1>4. IsFiniteSet(HealthyMembers(t, dep))
  <2>1. Len(dep.on) \in Nat /\ HealthyMembers(t, dep) \in SUBSET Nat
        /\ \A j \in HealthyMembers(t, dep) : j <= Len(dep.on)
    BY <1>2 DEF HealthyMembers
  <2>. QED  BY <2>1, FS_BoundedSetOfNaturals
<1>5. Cardinality(HealthyMembers(s, dep)) <= Cardinality(HealthyMembers(t, dep))
      /\ Cardinality(HealthyMembers(s, dep)) \in Nat
      /\ Cardinality(HealthyMembers(t, dep)) \in Nat
  BY <1>3, <1>4, FS_Subset, FS_CardinalityType
<1>6. Cardinality(HealthyMembers(t, dep)) >= dep.need
  BY <1>1, <1>2, <1>5
<1>. QED  BY <1>1, <1>6 DEF SatisfiedGroup

\* isLive, one step: a step that full visibility leaves live is live now.
LEMMA StepIsStable ==
    ASSUME NEW K, PlainModel(K), NEW s, NEW t, Sees(s, t, K),
           NEW node \in Nodes, StepLive(t, node)
    PROVE  StepLive(s, node)
<1>. DEFINE c == node.on
            when == StateOf(node).when
            at == {i \in DOMAIN States[c] : States[c][i].name = node.state}
<1>1. c \in Components /\ node.state # DefaultState[c] /\ at # {}
  BY DEF Nodes, IsFailure, Range
<1>2. Reads(when, c, K)
  <2>1. States[c] \in Seq(Range(States[c]))
    BY <1>1, ModelAssumption
  <2>2. Len(States[c]) \in Nat /\ at \in SUBSET (1..Len(States[c]))
    BY <2>1
  <2>3. Min(at) \in DOMAIN States[c]
    BY <1>1, <2>2, MinInSet
  <2>. QED  BY <1>1, <2>3 DEF PlainModel, StateOf
<1>3. SUFFICES ASSUME ~StepLive(s, node)  PROVE FALSE
  OBVIOUS
<1>4. Refuted(when, s)
  BY <1>1, <1>3 DEF StepLive
<1>5. Refuted(when, t)
  <2>1. Truth(when, s, NoStates) # "unresolved"
    BY <1>4 DEF Refuted
  <2>. QED  BY <1>1, <1>2, <1>4, <2>1, TruthIsStable DEF Refuted, Sees
<1>6. Observed(s[c])
  <2>1. PICK conj \in when : \E a \in conj : AtomTruth(a, s, NoStates) = "false"
    BY <1>4 DEF Refuted, Truth, NoPredicate
  <2>2. PICK a \in conj : AtomTruth(a, s, NoStates) = "false"
    BY <2>1
  <2>3. a.fact = StateRef \/ (a.on = c /\ a.fact \in K)
    BY <1>2, <2>1, <2>2 DEF Reads
  <2>4. AtomTruth(a, s, NoStates) # "unresolved"
    BY <2>2
  <2>. QED  BY <1>1, <2>3, <2>4, DecidedIsObserved DEF Sees
<1>7. Observed(t[c]) /\ t[c] # <<>> /\ ~IsAbsent(t[c])
  BY <1>1, <1>6 DEF Sees, Observed, IsAbsent
<1>. QED  BY <1>5, <1>7 DEF StepLive

\* isLive: a chain that full visibility leaves live is live now.
LEMMA ChainIsStable ==
    ASSUME NEW K, PlainModel(K), NEW s, NEW t, Sees(s, t, K),
           NEW chain, \A i \in DOMAIN chain : chain[i] \in Nodes,
           DOMAIN chain = 1..Len(chain), Len(chain) \in Nat,
           ChainLive(t, chain)
    PROVE  ChainLive(s, chain)
<1>1. \A i \in DOMAIN chain : StepLive(s, chain[i])
  BY StepIsStable DEF ChainLive
<1>2. ASSUME NEW i \in DOMAIN chain \ {Len(chain)}
      PROVE  ~SatisfiedGroup(s, chain[i + 1].on, chain[i].on)
  <2>1. i + 1 \in DOMAIN chain
    BY <1>2
  <2>2. chain[i + 1].on \in Components
    BY <2>1 DEF Nodes
  <2>3. ~SatisfiedGroup(t, chain[i + 1].on, chain[i].on)
    BY <1>2 DEF ChainLive
  <2>. QED  BY <2>2, <2>3, SatisfiedIsStable
<1>. QED  BY <1>1, <1>2 DEF ChainLive

-----------------------------------------------------------------------------
(* Recording, suggesting, and what full visibility would add.              *)

\* Store.Append yields a store, and keeps what was recorded.
LEMMA AppendedIsStore ==
    ASSUME NEW st \in Store, NEW c \in Components, NEW f \in Fact
    PROVE  /\ Appended(st, c, f) \in Store
           /\ \A d \in Components : \A k :
                 Collected(Appended(st, c, f)[d], k) <=> Collected(st[d], k) \/ (d = c /\ k = f.key)
           /\ \A d \in Components : d # c => Appended(st, c, f)[d] = st[d]
           /\ Appended(st, c, f)[c] = Append(st[c], f)
<1>1. st[c] \in Seq(Fact) /\ \A d \in Components : st[d] \in Seq(Fact)
  BY DEF Store
<1>2. Appended(st, c, f) \in Store
  BY <1>1 DEF Store, Appended
<1>3. /\ Appended(st, c, f)[c] = Append(st[c], f)
      /\ \A d \in Components : d # c => Appended(st, c, f)[d] = st[d]
  BY <1>1 DEF Store, Appended
<1>4. ASSUME NEW k
      PROVE  Collected(Append(st[c], f), k) <=> Collected(st[c], k) \/ k = f.key
  <2>1. /\ DOMAIN Append(st[c], f) = 1..(Len(st[c]) + 1)
        /\ DOMAIN st[c] = 1..Len(st[c]) /\ Len(st[c]) \in Nat
        /\ \A i \in 1..Len(st[c]) : Append(st[c], f)[i] = st[c][i]
        /\ Append(st[c], f)[Len(st[c]) + 1] = f
    BY <1>1
  <2>. DEFINE now == Append(st[c], f)
              was == st[c]
              n == Len(st[c])
  <2>2. Collected(now, k) <=> \E i \in 1..(n + 1) : now[i].key = k
    BY <2>1 DEF Collected, Positions
  <2>3. Collected(was, k) <=> \E i \in 1..n : was[i].key = k
    BY <2>1 DEF Collected, Positions
  <2>4. ASSUME NEW i \in 1..(n + 1), now[i].key = k
        PROVE  k = f.key \/ \E j \in 1..n : was[j].key = k
    BY <2>1, <2>4
  <2>5. k = f.key => \E i \in 1..(n + 1) : now[i].key = k
    BY <2>1
  <2>6. ASSUME NEW j \in 1..n, was[j].key = k
        PROVE  \E i \in 1..(n + 1) : now[i].key = k
    <3>1. j \in 1..(n + 1) /\ now[j].key = k
      BY <2>1, <2>6
    <3>. QED  BY <3>1
  <2>. QED  BY <2>2, <2>3, <2>4, <2>5, <2>6
<1>. QED  BY <1>2, <1>3, <1>4

\* Whatever the strategy suggests is a fact of the component's type that was
\* never recorded (firstUncollectedFact, nextFactToProbe).
LEMMA SuggestedIsOpen ==
    ASSUME NEW st, NEW scenarios, NEW p \in Suggested(st, scenarios)
    PROVE  /\ p \in Probes
           /\ p.fact \in Range(TypeFacts[p.on])
           /\ ~Collected(st[p.on], p.fact)
<1>1. ASSUME NEW c \in Components, NEW wanted, p \in FirstUncollected(st, c, wanted)
      PROVE  /\ p \in Probes
             /\ p.fact \in Range(TypeFacts[p.on])
             /\ ~Collected(st[p.on], p.fact)
  <2>1. PICK i \in Uncollected(st, c, wanted) : p = [on |-> c, fact |-> TypeFacts[c][i]]
    BY <1>1 DEF FirstUncollected, Firsts
  <2>2. i \in DOMAIN TypeFacts[c] /\ ~Collected(st[c], TypeFacts[c][i])
    BY <2>1 DEF Uncollected
  <2>3. TypeFacts[c] \in Seq(Keys)
    BY ModelAssumption
  <2>4. p.on = c /\ p.fact = TypeFacts[c][i] /\ TypeFacts[c][i] \in Keys
    BY <2>1, <2>2, <2>3
  <2>. QED  BY <2>1, <2>2, <2>4 DEF Probes, Range
<1>2. CASE scenarios
  <2>1. PICK chain \in Chosen(st) : p \in ProbeFor(st, chain)
    BY <1>2 DEF Suggested, OccamProbes
  <2>2. chain \in Chains
    BY <2>1 DEF Chosen, ChosenAmong, Live
  <2>3. \A i \in DOMAIN chain : chain[i].on \in Components
    <3>1. PICK root \in Nodes : chain \in ChainsFrom(root)
      BY <2>2 DEF Chains
    <3>2. \A i \in DOMAIN chain : chain[i] \in Nodes
      BY <3>1 DEF ChainsFrom, Walks
    <3>. QED  BY <3>2 DEF Nodes
  <2>4. PICK i \in DOMAIN chain :
            p \in FirstUncollected(st, chain[i].on, StepFacts(chain, i))
    BY <2>1 DEF ProbeFor, Lasts
  <2>. QED  BY <1>1, <2>3, <2>4
<1>3. CASE ~scenarios
  <2>1. PICK c \in Components : p \in FirstUncollected(st, c, Keys)
    BY <1>3 DEF Suggested, BfsProbes, Firsts
  <2>. QED  BY <1>1, <2>1
<1>. QED  BY <1>2, <1>3

\* A fact that says what the world says of the component, or nothing.
Faithful(w, c, f) ==
    /\ f.key \in Range(TypeFacts[c])
    /\ f.value # NoValue => f.value = w[c][f.key]
    /\ f.status = "not_found" => w[c][f.key] = NoValue

\* The fields of a probed fact.
LEMMA ProbedFact ==
    ASSUME NEW k \in Keys, NEW v \in Values \cup {NoValue}, NEW status \in Statuses
    PROVE  /\ NewFact(k, v, status, "probe") \in Fact
           /\ NewFact(k, v, status, "probe").key = k
           /\ NewFact(k, v, status, "probe").value = v
           /\ NewFact(k, v, status, "probe").status = status
  BY DEF NewFact, Fact, Collectors

\* The facts of full visibility form a store, and looking a fact up in it is
\* looking at the world.
LEMMA SeenType ==
    ASSUME NEW w \in Worlds
    PROVE  /\ Seen(w) \in Store
           /\ \A c \in Components : \A j \in DOMAIN TypeFacts[c] :
                 /\ j \in DOMAIN Seen(w)[c]
                 /\ Seen(w)[c][j].key = TypeFacts[c][j]
           /\ \A c \in Components : \A j \in DOMAIN Seen(w)[c] :
                 /\ j \in DOMAIN TypeFacts[c]
                 /\ Seen(w)[c][j].key = TypeFacts[c][j]
                 /\ Seen(w)[c][j].value = w[c][TypeFacts[c][j]]
                 /\ Seen(w)[c][j].status = IF w[c][TypeFacts[c][j]] = NoValue THEN "not_found" ELSE ""
<1>. DEFINE all == Seen(w)
<1>1. \A c \in Components : DOMAIN TypeFacts[c] = 1..Len(TypeFacts[c]) /\ Len(TypeFacts[c]) \in Nat
  BY ModelAssumption
<1>2. ASSUME NEW c \in Components, NEW j \in DOMAIN TypeFacts[c]
      PROVE  /\ all[c][j] \in Fact
             /\ all[c][j].key = TypeFacts[c][j]
             /\ all[c][j].value = w[c][TypeFacts[c][j]]
             /\ all[c][j].status = IF w[c][TypeFacts[c][j]] = NoValue THEN "not_found" ELSE ""
  <2>1. TypeFacts[c][j] \in Keys /\ w[c][TypeFacts[c][j]] \in Values \cup {NoValue}
    BY ModelAssumption, ProbingAssumption
  <2>. DEFINE k == TypeFacts[c][j]
              v == w[c][TypeFacts[c][j]]
              status == IF w[c][TypeFacts[c][j]] = NoValue THEN "not_found" ELSE ""
  <2>2. all[c][j] = NewFact(k, v, status, "probe")
    BY DEF Seen
  <2>3. status \in Statuses
    BY DEF Statuses
  <2>4. k \in Keys /\ v \in Values \cup {NoValue}
    BY <2>1
  <2>5. all[c][j] \in Fact /\ all[c][j].key = k /\ all[c][j].value = v /\ all[c][j].status = status
    <3>. HIDE DEF k, v, status, all
    <3>. QED  BY <2>2, <2>3, <2>4, ProbedFact
  <2>. QED  BY <2>5
<1>3. ASSUME NEW c \in Components
      PROVE  DOMAIN all[c] = DOMAIN TypeFacts[c] /\ all[c] = [j \in DOMAIN all[c] |-> all[c][j]]
  BY DEF Seen
<1>4. all = [c \in Components |-> all[c]]
  BY DEF Seen
<1>. HIDE DEF all
<1>5. ASSUME NEW c \in Components
      PROVE  all[c] \in Seq(Fact)
  <2>1. all[c] \in [1..Len(TypeFacts[c]) -> Fact]
    BY <1>1, <1>2, <1>3
  <2>. QED  BY <1>1, <2>1, SeqDef
<1>6. all \in Store
  BY <1>4, <1>5 DEF Store
<1>7. \A c \in Components : \A j : j \in DOMAIN all[c] <=> j \in DOMAIN TypeFacts[c]
  BY <1>3
<1>. QED  BY <1>2, <1>6, <1>7 DEF all

-----------------------------------------------------------------------------
(* Recursive functions: one exists, and what holds of its value at 0 and  *)
(* is kept from each value to the next holds of all its values.            *)

\* Induction over sets of numbers: a set that holds 0 and, with a number, the
\* next one, holds them all.
LEMMA SetInduction ==
    ASSUME NEW T, 0 \in T, \A n \in Nat : n \in T => n + 1 \in T
    PROVE  \A n \in Nat : n \in T
<1> SUFFICES ASSUME NEW n \in Nat, n \notin T PROVE FALSE
  OBVIOUS
<1> DEFINE S == {m \in 1..n : m \notin T}
<1>1. n \in S
  OBVIOUS
<1> HIDE DEF S
<1>2. S \in SUBSET (1..n) /\ S # {}
  BY <1>1 DEF S
<1>3. Min(S) \in S /\ \A j \in S : Min(S) <= j
  BY <1>2, MinInSet
<1>4. PICK m \in S : \A j \in S : m <= j
  BY <1>3
<1>5. m \in 1..n /\ m \notin T
  BY <1>4 DEF S
<1>6. m - 1 \in Nat /\ m - 1 \notin T
  BY <1>5
<1>7. m - 1 \in S
  BY <1>5, <1>6 DEF S
<1>. QED  BY <1>4, <1>5, <1>7

\* What a recursion defines up to n.
Approximates(h, n, S, base, step) ==
    /\ h \in [0..n -> S] /\ h[0] = base
    /\ \A i \in 0..(n - 1) : h[i + 1] = step[<<i + 1, h[i]>>]

\* There is an approximation of every length.
LEMMA Approximated ==
    ASSUME NEW S, NEW base \in S, NEW step \in [Nat \X S -> S]
    PROVE  \A n \in Nat : \E h : Approximates(h, n, S, base, step)
<1> DEFINE T == {n \in Nat : \E h : Approximates(h, n, S, base, step)}
<1>1. 0 \in T
  <2>1. Approximates([i \in 0..0 |-> base], 0, S, base, step)
    BY DEF Approximates
  <2>. QED  BY <2>1
<1>2. ASSUME NEW n \in Nat, n \in T PROVE n + 1 \in T
  <2>1. PICK h : Approximates(h, n, S, base, step)
    BY <1>2
  <2> DEFINE g == [i \in 0..(n + 1) |-> IF i = n + 1 THEN step[<<n + 1, h[n]>>] ELSE h[i]]
  <2>2. h \in [0..n -> S] /\ h[n] \in S /\ step[<<n + 1, h[n]>>] \in S
    BY <2>1 DEF Approximates
  <2>3. g \in [0..(n + 1) -> S] /\ g[0] = base
    BY <2>1, <2>2 DEF Approximates
  <2>4. ASSUME NEW i \in 0..n PROVE g[i + 1] = step[<<i + 1, g[i]>>]
    <3>0. /\ i \in 0..(n + 1) /\ i + 1 \in 0..(n + 1)
          /\ g[i] = IF i = n + 1 THEN step[<<n + 1, h[n]>>] ELSE h[i]
          /\ g[i + 1] = IF i + 1 = n + 1 THEN step[<<n + 1, h[n]>>] ELSE h[i + 1]
      OBVIOUS
    <3> HIDE DEF g
    <3>1. CASE i = n
      <4>1. g[i] = h[n] /\ g[i + 1] = step[<<n + 1, h[n]>>]
        BY <3>0, <3>1
      <4>. QED  BY <4>1, <3>1
    <3>2. CASE i \in 0..(n - 1)
      <4>1. g[i] = h[i] /\ g[i + 1] = h[i + 1]
        BY <3>0, <3>2
      <4>. QED  BY <4>1, <2>1, <3>2 DEF Approximates
    <3>. QED  BY <3>1, <3>2
  <2>5. Approximates(g, n + 1, S, base, step)
    <3> HIDE DEF g
    <3>. QED  BY <2>3, <2>4 DEF Approximates
  <2>. QED  BY <2>5
<1> HIDE DEF T
<1>3. \A n \in Nat : n \in T
  BY <1>1, <1>2, SetInduction
<1>. QED  BY <1>3 DEF T

\* A longer approximation continues a shorter one.
LEMMA ApproximationsAgree ==
    ASSUME NEW S, NEW base \in S, NEW step \in [Nat \X S -> S],
           NEW n \in Nat, NEW m \in Nat, n <= m,
           NEW h, NEW g, Approximates(h, n, S, base, step), Approximates(g, m, S, base, step)
    PROVE  \A i \in 0..n : h[i] = g[i]
<1> DEFINE T == {i \in Nat : i <= n => h[i] = g[i]}
<1>1. 0 \in T
  BY DEF Approximates
<1>2. ASSUME NEW i \in Nat, i \in T PROVE i + 1 \in T
  <2> SUFFICES ASSUME i + 1 <= n PROVE h[i + 1] = g[i + 1]
    OBVIOUS
  <2>1. i \in 0..(n - 1) /\ i \in 0..(m - 1) /\ h[i] = g[i]
    BY <1>2
  <2>2. h[i + 1] = step[<<i + 1, h[i]>>]
    BY <2>1 DEF Approximates
  <2>3. g[i + 1] = step[<<i + 1, g[i]>>]
    BY <2>1 DEF Approximates
  <2>. QED  BY <2>1, <2>2, <2>3
<1> HIDE DEF T
<1>3. \A i \in Nat : i \in T
  BY <1>1, <1>2, SetInduction
<1>. QED  BY <1>3 DEF T

\* What a recursion over the numbers computes.
Defines(f, S, base, step) ==
    f \in [Nat -> S] /\ f[0] = base /\ \A n \in Nat : f[n + 1] = step[<<n + 1, f[n]>>]

\* A recursion over the numbers defines a function.
LEMMA Recursion ==
    ASSUME NEW S, NEW base \in S, NEW step \in [Nat \X S -> S]
    PROVE  \E f : Defines(f, S, base, step)
<1> DEFINE upTo == [n \in Nat |-> CHOOSE h : Approximates(h, n, S, base, step)]
           f    == [n \in Nat |-> upTo[n][n]]
<1>1. \A n \in Nat : Approximates(upTo[n], n, S, base, step)
  BY Approximated
<1> HIDE DEF upTo
<1>2. f \in [Nat -> S] /\ f[0] = base
  BY <1>1 DEF Approximates
<1>3. ASSUME NEW n \in Nat PROVE f[n + 1] = step[<<n + 1, f[n]>>]
  <2>1. upTo[n + 1][n + 1] = step[<<n + 1, upTo[n + 1][n]>>]
    BY <1>1 DEF Approximates
  <2>2. Approximates(upTo[n], n, S, base, step) /\ Approximates(upTo[n + 1], n + 1, S, base, step)
    BY <1>1
  <2>3. n + 1 \in Nat /\ n <= n + 1 /\ n \in 0..n
    OBVIOUS
  <2> HIDE DEF f
  <2>4. \A h, g : Approximates(h, n, S, base, step) /\ Approximates(g, n + 1, S, base, step)
                    => \A i \in 0..n : h[i] = g[i]
    BY <2>3, ApproximationsAgree
  <2>5. upTo[n][n] = upTo[n + 1][n]
    BY <2>2, <2>3, <2>4
  <2>. QED  BY <2>1, <2>5 DEF f
<1>. QED  BY <1>2, <1>3 DEF Defines

\* The values of a sequence, after the operations the walk uses.
LEMMA RangeOf ==
    ASSUME NEW S, NEW s \in Seq(S)
    PROVE  /\ Range(s) \subseteq S
           /\ \A x \in S : Append(s, x) \in Seq(S) /\ Range(Append(s, x)) = Range(s) \cup {x}
           /\ s # <<>> => /\ Head(s) \in S /\ Tail(s) \in Seq(S)
                          /\ Range(s) = {Head(s)} \cup Range(Tail(s))
                          /\ Len(s) = Len(Tail(s)) + 1
           /\ Range(s) = {} <=> s = <<>>
<1>1. Range(s) \subseteq S
  BY DEF Range
<1>2. ASSUME NEW x \in S PROVE Append(s, x) \in Seq(S) /\ Range(Append(s, x)) = Range(s) \cup {x}
  <2>1. /\ Append(s, x) \in Seq(S) /\ DOMAIN Append(s, x) = 1..(Len(s) + 1) /\ DOMAIN s = 1..Len(s) /\ Len(s) \in Nat
        /\ \A i \in 1..Len(s) : Append(s, x)[i] = s[i]
        /\ Append(s, x)[Len(s) + 1] = x
    OBVIOUS
  <2>2. Range(Append(s, x)) \subseteq Range(s) \cup {x}
    BY <2>1 DEF Range
  <2>3. Range(s) \cup {x} \subseteq Range(Append(s, x))
    BY <2>1 DEF Range
  <2>. QED  BY <2>1, <2>2, <2>3
<1>3. ASSUME s # <<>>
      PROVE  /\ Head(s) \in S /\ Tail(s) \in Seq(S)
             /\ Range(s) = {Head(s)} \cup Range(Tail(s))
             /\ Len(s) = Len(Tail(s)) + 1
  <2>1. /\ Head(s) \in S /\ Tail(s) \in Seq(S) /\ Head(s) = s[1]
        /\ DOMAIN s = 1..Len(s) /\ Len(s) \in Nat /\ Len(s) >= 1
        /\ Len(Tail(s)) = Len(s) - 1 /\ DOMAIN Tail(s) = 1..(Len(s) - 1)
        /\ \A i \in 1..(Len(s) - 1) : Tail(s)[i] = s[i + 1]
    BY <1>3
  <2>2. Range(s) \subseteq {Head(s)} \cup Range(Tail(s))
    <3>. SUFFICES ASSUME NEW i \in 1..Len(s), i # 1 PROVE s[i] \in Range(Tail(s))
      BY <2>1 DEF Range
    <3>1. i - 1 \in 1..(Len(s) - 1) /\ i = (i - 1) + 1
      BY <2>1
    <3>. QED  BY <2>1, <3>1 DEF Range
  <2>3. {Head(s)} \cup Range(Tail(s)) \subseteq Range(s)
    <3>1. Head(s) \in Range(s)
      BY <2>1 DEF Range
    <3>2. ASSUME NEW i \in 1..(Len(s) - 1) PROVE Tail(s)[i] \in Range(s)
      <4>1. i + 1 \in DOMAIN s
        BY <2>1
      <4>. QED  BY <2>1, <4>1 DEF Range
    <3>. QED  BY <2>1, <3>1, <3>2 DEF Range
  <2>. QED  BY <2>1, <2>2, <2>3
<1>4. Range(s) = {} <=> s = <<>>
  BY DEF Range
<1>. QED  BY <1>1, <1>2, <1>3, <1>4

\* The values of two sequences joined.
LEMMA RangeOfJoined ==
    ASSUME NEW S, NEW s \in Seq(S), NEW t \in Seq(S)
    PROVE  Range(s \o t) = Range(s) \cup Range(t)
<1>1. /\ s \o t \in Seq(S) /\ DOMAIN (s \o t) = 1..(Len(s) + Len(t)) /\ DOMAIN s = 1..Len(s) /\ Len(s) \in Nat
      /\ DOMAIN t = 1..Len(t) /\ Len(t) \in Nat
      /\ \A i \in 1..Len(s) : (s \o t)[i] = s[i]
      /\ \A i \in 1..Len(t) : (s \o t)[Len(s) + i] = t[i]
  OBVIOUS
<1>2. Range(s \o t) \subseteq Range(s) \cup Range(t)
  <2>. SUFFICES ASSUME NEW i \in 1..(Len(s) + Len(t)), i > Len(s)
                PROVE  (s \o t)[i] \in Range(t)
    BY <1>1 DEF Range
  <2>1. i - Len(s) \in 1..Len(t) /\ i = Len(s) + (i - Len(s))
    BY <1>1
  <2>. QED  BY <1>1, <2>1 DEF Range
<1>3. Range(s) \subseteq Range(s \o t)
  BY <1>1 DEF Range
<1>4. Range(t) \subseteq Range(s \o t)
  <2>. SUFFICES ASSUME NEW i \in 1..Len(t) PROVE t[i] \in Range(s \o t)
    BY <1>1 DEF Range
  <2>1. Len(s) + i \in DOMAIN (s \o t)
    BY <1>1
  <2>. QED  BY <1>1, <2>1 DEF Range
<1>. QED  BY <1>1, <1>2, <1>3, <1>4

\* What a recursion over 0..N computes, as the equations it satisfies.
Computes(f, N, S, base, step) ==
    f \in [0..N -> S] /\ f[0] = base /\ \A n \in 1..N : f[n] = step[<<n, f[n - 1]>>]

\* Every recursion over 0..N has a solution.
LEMMA RecursionUpTo ==
    ASSUME NEW N \in Nat, NEW S, NEW base \in S, NEW step \in [(1..N) \X S -> S]
    PROVE  \E f : Computes(f, N, S, base, step)
<1> DEFINE all == [x \in Nat \X S |-> IF x[1] \in 1..N THEN step[x] ELSE base]
<1>1. all \in [Nat \X S -> S] /\ \A n \in 1..N, v \in S : all[<<n, v>>] = step[<<n, v>>]
  OBVIOUS
<1> HIDE DEF all
<1>2. PICK f : Approximates(f, N, S, base, all)
  BY <1>1, Approximated
<1>3. f \in [0..N -> S] /\ f[0] = base
  BY <1>2 DEF Approximates
<1>4. ASSUME NEW n \in 1..N PROVE f[n] = step[<<n, f[n - 1]>>]
  <2>1. n - 1 \in 0..(N - 1) /\ (n - 1) + 1 = n /\ f[n - 1] \in S
    BY <1>3
  <2>2. f[n] = all[<<n, f[n - 1]>>]
    BY <1>2, <2>1 DEF Approximates
  <2>. QED  BY <1>1, <2>1, <2>2
<1>. QED  BY <1>3, <1>4 DEF Computes

\* Induction up to a bound.
LEMMA InductionUpTo ==
    ASSUME NEW N \in Nat, NEW T, 0 \in T, \A n \in 1..N : n - 1 \in T => n \in T
    PROVE  \A n \in 0..N : n \in T
<1> DEFINE P == {n \in Nat : n <= N => n \in T}
<1>1. ASSUME NEW n \in Nat, n \in P PROVE n + 1 \in P
  <2> SUFFICES ASSUME n + 1 <= N PROVE n + 1 \in T
    OBVIOUS
  <2>1. n + 1 \in 1..N /\ (n + 1) - 1 = n /\ n \in T
    BY <1>1
  <2>. QED  BY <2>1
<1>2. 0 \in P
  OBVIOUS
<1> HIDE DEF P
<1>3. \A n \in Nat : n \in P
  BY <1>1, <1>2, SetInduction
<1>. QED  BY <1>3 DEF P

-----------------------------------------------------------------------------
(* bfsWalk visits the components the entry leads to.                       *)

\* The targets of c's first n dependencies that are open, n by n.
LEMMA OpenTargetsSteps ==
    ASSUME NEW c \in Components, NEW store, NEW states
    PROVE  \E u \in [0..Len(Depends[c]) -> Seq(Components)] :
              /\ u[0] = <<>>
              /\ \A n \in 1..Len(Depends[c]) :
                    u[n] = IF GuardActive(Depends[c][n], store, states)
                           THEN u[n - 1] \o Depends[c][n].on ELSE u[n - 1]
              /\ OpenTargets(c, store, states) = u[Len(Depends[c])]
<1> DEFINE S == Seq(Components)
           N == Len(Depends[c])
           base == <<>>
           step == [x \in (1..N) \X S |-> IF GuardActive(Depends[c][x[1]], store, states)
                                          THEN x[2] \o Depends[c][x[1]].on ELSE x[2]]
           sol(f) == f = [n \in 0..N |-> IF n = 0 THEN <<>>
                     ELSE IF GuardActive(Depends[c][n], store, states)
                          THEN f[n - 1] \o Depends[c][n].on ELSE f[n - 1]]
           u == CHOOSE f : sol(f)
<1>1. N \in Nat /\ \A n \in 1..N : n \in DOMAIN Depends[c] /\ Depends[c][n].on \in S
  BY ModelAssumption
<1>2. u[N] = OpenTargets(c, store, states)
  BY DEF OpenTargets
<1>3. step \in [(1..N) \X S -> S]
  <2>1. ASSUME NEW x \in (1..N) \X S PROVE step[x] \in S
    <3>1. x[1] \in 1..N /\ x[2] \in S /\ Depends[c][x[1]].on \in S
      BY <1>1
    <3>. QED  BY <3>1
  <2>. QED  BY <2>1
<1>4. \A n \in 1..N, v \in S : step[<<n, v>>] = IF GuardActive(Depends[c][n], store, states)
                                          THEN v \o Depends[c][n].on ELSE v
  OBVIOUS
<1>5. base \in S
  OBVIOUS
<1> HIDE DEF step, S, N, base
<1>6. PICK f : Computes(f, N, S, base, step)
  <2>1. N \in Nat
    BY <1>1
  <2>. QED  BY <1>3, <1>5, <2>1, RecursionUpTo
<1>7. ASSUME NEW n \in 0..N, n # 0
      PROVE  n \in 1..N /\ f[n - 1] \in S
  BY <1>1, <1>6, <1>7 DEF Computes
<1>8. sol(f)
  <2>1. \A n \in 0..N : f[n] = IF n = 0 THEN <<>>
                     ELSE IF GuardActive(Depends[c][n], store, states)
                          THEN f[n - 1] \o Depends[c][n].on ELSE f[n - 1]
    BY <1>4, <1>6, <1>7 DEF base, Computes
  <2>. QED  BY <1>6, <2>1 DEF Computes
<1>9. sol(u)
  BY <1>8
<1> HIDE DEF u
<1>10. u[0] = <<>> /\ \A n \in 1..N : u[n] = IF GuardActive(Depends[c][n], store, states)
                          THEN u[n - 1] \o Depends[c][n].on ELSE u[n - 1]
  <2>1. 0 \in 0..N /\ \A n \in 1..N : n \in 0..N /\ n # 0
    BY <1>1
  <2> HIDE DEF N
  <2>. QED  BY <2>1, <1>9, Zenon
<1>11. \A n \in 0..N : u[n] \in S
  <2> DEFINE P == {m \in Nat : u[m] \in S}
  <2>1. 0 \in P
    BY <1>5, <1>10 DEF base
  <2>2. ASSUME NEW n \in 1..N, n - 1 \in P PROVE n \in P
    <3>1. u[n - 1] \in S /\ Depends[c][n].on \in S
      BY <1>1, <2>2
    <3>2. u[n - 1] \o Depends[c][n].on \in S
      BY <3>1 DEF S
    <3>. QED  BY <1>1, <1>10, <3>1, <3>2
  <2> HIDE DEF P
  <2>3. \A n \in 0..N : n \in P
    BY <1>1, <2>1, <2>2, InductionUpTo
  <2>. QED  BY <2>3 DEF P
<1>12. u = [n \in 0..N |-> u[n]]
  BY <1>9
<1>13. u \in [0..N -> S]
  BY <1>11, <1>12
<1>. QED  BY <1>2, <1>10, <1>13 DEF S, N

\* The edges out of c of its first n dependencies.
EdgesUpTo(c, n) == UNION {{<<c, i, j>> : j \in DOMAIN Depends[c][i].on} : i \in 1..n}

EdgesFrom(C) == {e \in AllEdges : e[1] \in C}

\* The edges of one more dependency.
LEMMA EdgesStep ==
    ASSUME NEW c \in Components, NEW n \in 1..Len(Depends[c]),
           IsFiniteSet(EdgesUpTo(c, n - 1))
    PROVE  /\ IsFiniteSet(EdgesUpTo(c, n))
           /\ Cardinality(EdgesUpTo(c, n)) = Cardinality(EdgesUpTo(c, n - 1)) + Len(Depends[c][n].on)
<1> DEFINE L == Len(Depends[c][n].on)
           D == {<<c, n, j>> : j \in 1..L}
           E == EdgesUpTo(c, n - 1)
<1>1. L \in Nat /\ DOMAIN Depends[c][n].on = 1..L /\ n \in Nat /\ n >= 1
  BY ModelAssumption
<1>2. IsFiniteSet(D) /\ Cardinality(D) = L
  <2>1. IsFiniteSet(1..L) /\ Cardinality(1..L) = L
    <3> HIDE DEF L
    <3>1. 1 \in Int /\ L \in Int /\ L \in Nat
      BY <1>1
    <3>2. IsFiniteSet(1..L) /\ Cardinality(1..L) = IF 1 > L THEN 0 ELSE L - 1 + 1
      BY <3>1, FS_Interval
    <3>. QED  BY <3>1, <3>2
  <2> DEFINE g == [j \in 1..L |-> <<c, n, j>>]
  <2>2. g \in Bijection(1..L, D)
    <3>1. g \in [1..L -> D]
      OBVIOUS
    <3>2. \A i, j \in 1..L : g[i] = g[j] => i = j
      OBVIOUS
    <3>3. \A d \in D : \E j \in 1..L : g[j] = d
      OBVIOUS
    <3> HIDE DEF g, D
    <3>. QED  BY <3>1, <3>2, <3>3 DEF Bijection, Injection, Surjection, IsInjective
  <2>. QED  BY <2>1, <2>2, FS_Bijection DEF ExistsBijection
<1>3. EdgesUpTo(c, n) = E \cup D
  <2>1. ASSUME NEW e \in EdgesUpTo(c, n) PROVE e \in E \cup D
    <3>1. PICK i \in 1..n : e \in {<<c, i, j>> : j \in DOMAIN Depends[c][i].on}
      BY <2>1 DEF EdgesUpTo
    <3>2. CASE i = n
      BY <1>1, <3>1, <3>2
    <3>3. CASE i \in 1..(n - 1)
      BY <3>1, <3>3 DEF EdgesUpTo
    <3>. QED  BY <1>1, <3>2, <3>3
  <2>2. E \subseteq EdgesUpTo(c, n)
    <3>1. \A i \in 1..(n - 1) : i \in 1..n
      BY <1>1
    <3>. QED  BY <3>1 DEF EdgesUpTo
  <2>3. D \subseteq EdgesUpTo(c, n)
    <3>1. D = {<<c, n, j>> : j \in DOMAIN Depends[c][n].on} /\ n \in 1..n
      BY <1>1
    <3>. QED  BY <3>1 DEF EdgesUpTo
  <2>. QED  BY <2>1, <2>2, <2>3
<1>4. E \cap D = {}
  <2>. SUFFICES ASSUME NEW e \in E, e \in D PROVE FALSE
    OBVIOUS
  <2>1. PICK i \in 1..(n - 1) : e \in {<<c, i, j>> : j \in DOMAIN Depends[c][i].on}
    BY DEF EdgesUpTo
  <2>2. e[2] = i /\ e[2] = n
    BY <2>1
  <2>. QED  BY <1>1, <2>1, <2>2
<1> HIDE DEF D, L, E
<1>5. IsFiniteSet(E)
  BY DEF E
<1>6. /\ IsFiniteSet(E \cup D)
      /\ Cardinality(E \cup D) = Cardinality(E) + Cardinality(D) - Cardinality(E \cap D)
  BY <1>2, <1>5, FS_Union
<1>7. Cardinality(E \cap D) = 0 /\ Cardinality(E) \in Nat
  BY <1>4, <1>5, FS_EmptySet, FS_CardinalityType
<1>. QED  BY <1>1, <1>2, <1>3, <1>6, <1>7 DEF E, L

\* A component's open dependencies have no more targets than it has edges.
LEMMA FewTargets ==
    ASSUME NEW c \in Components, NEW store, NEW states
    PROVE  /\ OpenTargets(c, store, states) \in Seq(Components)
           /\ IsFiniteSet(EdgesFrom({c}))
           /\ Len(OpenTargets(c, store, states)) <= Cardinality(EdgesFrom({c}))
<1> DEFINE N == Len(Depends[c])
<1>1. N \in Nat /\ \A n \in 1..N : Depends[c][n].on \in Seq(Components)
  BY ModelAssumption
<1>2. PICK u \in [0..N -> Seq(Components)] :
              /\ u[0] = <<>>
              /\ \A n \in 1..N :
                    u[n] = IF GuardActive(Depends[c][n], store, states)
                           THEN u[n - 1] \o Depends[c][n].on ELSE u[n - 1]
              /\ OpenTargets(c, store, states) = u[N]
  BY OpenTargetsSteps
<1> HIDE DEF N
<1> DEFINE len(n) == Len(u[n])
           Few(n) == IsFiniteSet(EdgesUpTo(c, n)) /\ len(n) <= Cardinality(EdgesUpTo(c, n))
           P == {n \in 0..N : Few(n)}
<1>3. 0 \in P
  <2>1. EdgesUpTo(c, 0) = {} /\ 0 \in 0..N
    BY <1>1 DEF EdgesUpTo
  <2>2. len(0) = 0
    BY <1>2
  <2>3. Few(0)
    <3> HIDE DEF len
    <3>1. IsFiniteSet(EdgesUpTo(c, 0)) /\ Cardinality(EdgesUpTo(c, 0)) = 0
      BY <2>1, FS_EmptySet
    <3>. QED  BY <2>2, <3>1
  <2> HIDE DEF Few
  <2>. QED  BY <2>1, <2>3
<1>4. ASSUME NEW n \in 1..N, n - 1 \in P PROVE n \in P
  <2>1. n \in 0..N /\ n - 1 \in 0..N /\ u[n - 1] \in Seq(Components)
    BY <1>1, <1>2
  <2>2. /\ IsFiniteSet(EdgesUpTo(c, n)) /\ IsFiniteSet(EdgesUpTo(c, n - 1))
        /\ Cardinality(EdgesUpTo(c, n)) = Cardinality(EdgesUpTo(c, n - 1)) + Len(Depends[c][n].on)
        /\ len(n - 1) <= Cardinality(EdgesUpTo(c, n - 1))
    BY <1>4, EdgesStep DEF N
  <2>3. Cardinality(EdgesUpTo(c, n - 1)) \in Nat /\ len(n - 1) \in Nat /\ Len(Depends[c][n].on) \in Nat
    BY <1>1, <2>1, <2>2, FS_CardinalityType
  <2>4. len(n) <= len(n - 1) + Len(Depends[c][n].on)
    <3>1. Len(u[n - 1] \o Depends[c][n].on) = len(n - 1) + Len(Depends[c][n].on)
      BY <1>1, <2>1
    <3>2. u[n] = u[n - 1] \o Depends[c][n].on \/ u[n] = u[n - 1]
      BY <1>2
    <3>3. len(n) = len(n - 1) + Len(Depends[c][n].on) \/ len(n) = len(n - 1)
      BY <3>1, <3>2
    <3> HIDE DEF len
    <3>. QED  BY <2>3, <3>3
  <2>5. len(n) \in Nat
    BY <1>2, <2>1
  <2>6. Few(n)
    <3>1. Cardinality(EdgesUpTo(c, n)) \in Nat
      BY <2>2, FS_CardinalityType
    <3> HIDE DEF len
    <3>. QED  BY <2>2, <2>3, <2>4, <2>5, <3>1
  <2> HIDE DEF Few
  <2>. QED  BY <2>1, <2>6
<1> HIDE DEF P
<1>5. N \in P
  <2>1. \A n \in 0..N : n \in P
    BY <1>1, <1>3, <1>4, InductionUpTo
  <2>. QED  BY <1>1, <2>1
<1>6. EdgesUpTo(c, N) = EdgesFrom({c})
  <2>1. EdgesUpTo(c, N) \subseteq EdgesFrom({c})
    <3>. SUFFICES ASSUME NEW e \in EdgesUpTo(c, N) PROVE e \in EdgesFrom({c})
      OBVIOUS
    <3>1. PICK i \in 1..N : e \in {<<c, i, j>> : j \in DOMAIN Depends[c][i].on}
      BY DEF EdgesUpTo
    <3>2. i \in DOMAIN Depends[c]
      BY ModelAssumption DEF N
    <3>3. e \in AllEdges /\ e[1] = c
      BY <3>1, <3>2 DEF AllEdges
    <3>. QED  BY <3>3 DEF EdgesFrom
  <2>2. ASSUME NEW e \in EdgesFrom({c}) PROVE e \in EdgesUpTo(c, N)
    <3>1. PICK d \in Components :
             e \in UNION {{<<d, i, j>> : j \in DOMAIN Depends[d][i].on} : i \in DOMAIN Depends[d]}
      BY <2>2 DEF EdgesFrom, AllEdges
    <3>2. PICK i \in DOMAIN Depends[d] : e \in {<<d, i, j>> : j \in DOMAIN Depends[d][i].on}
      BY <3>1
    <3>3. PICK j \in DOMAIN Depends[d][i].on : e = <<d, i, j>>
      BY <3>2
    <3>4. d = c
      BY <2>2, <3>3 DEF EdgesFrom
    <3>5. i \in 1..N
      BY <3>4, ModelAssumption DEF N
    <3>. QED  BY <3>3, <3>4, <3>5 DEF EdgesUpTo
  <2>. QED  BY <2>1, <2>2
<1>7. Few(N) /\ OpenTargets(c, store, states) \in Seq(Components)
  BY <1>1, <1>2, <1>5 DEF P
<1>. QED  BY <1>2, <1>6, <1>7

\* There are finitely many edges.
LEMMA FiniteEdges == IsFiniteSet(AllEdges)
<1> DEFINE E == {EdgesFrom({c}) : c \in Components}
           g == [c \in Components |-> EdgesFrom({c})]
<1>1. g \in Surjection(Components, E)
  <2>1. g \in [Components -> E] /\ \A x \in E : \E c \in Components : g[c] = x
    OBVIOUS
  <2> HIDE DEF g, E
  <2>. QED  BY <2>1 DEF Surjection
<1>2. IsFiniteSet(E)
  BY <1>1, ModelAssumption, FS_Surjection
<1>3. \A x \in E : IsFiniteSet(x)
  BY FewTargets
<1>4. IsFiniteSet(UNION E)
  BY <1>2, <1>3, FS_UNION
<1>5. AllEdges \subseteq UNION E
  <2>. SUFFICES ASSUME NEW e \in AllEdges PROVE \E c \in Components : e \in EdgesFrom({c})
    OBVIOUS
  <2>1. PICK c \in Components :
             e \in UNION {{<<c, i, j>> : j \in DOMAIN Depends[c][i].on} : i \in DOMAIN Depends[c]}
    BY DEF AllEdges
  <2>2. e[1] = c
    BY <2>1
  <2>. QED  BY <2>2 DEF EdgesFrom
<1>. QED  BY <1>4, <1>5, FS_Subset

\* A turn of bfsWalk on what is visited and queued.
AfterTurn(w, store) ==
    IF w.queue = <<>> THEN w
    ELSE IF Head(w.queue) \in Range(w.out) THEN [w EXCEPT !.queue = Tail(@)]
    ELSE [out   |-> Append(w.out, Head(w.queue)),
          queue |-> Tail(w.queue) \o OpenTargets(Head(w.queue), store, DerivedStates(store))]

\* What each turn of bfsWalk leaves.
LEMMA WalkTurns ==
    ASSUME NEW entry \in Components, NEW store
    PROVE  \E turn :
              /\ \A n \in Nat : turn[n] \in [out : Seq(Components), queue : Seq(Components)]
              /\ turn[0] = [out |-> <<>>, queue |-> <<entry>>]
              /\ \A n \in Nat : turn[n + 1] = AfterTurn(turn[n], store)
              /\ BfsWalkFrom(entry, store) = turn[1 + Cardinality(AllEdges)].out
<1> DEFINE S == [out : Seq(Components), queue : Seq(Components)]
           states == DerivedStates(store)
           base == [out |-> <<>>, queue |-> <<entry>>]
           after(w) == IF w.queue = <<>> THEN w
                       ELSE IF Head(w.queue) \in Range(w.out) THEN [w EXCEPT !.queue = Tail(@)]
                       ELSE [out   |-> Append(w.out, Head(w.queue)),
                             queue |-> Tail(w.queue) \o OpenTargets(Head(w.queue), store, states)]
           step == [x \in Nat \X S |-> after(x[2])]
           sol(f) == f = [n \in Nat |-> IF n = 0 THEN base ELSE LET w == f[n - 1] IN
                       IF w.queue = <<>> THEN w
                       ELSE IF Head(w.queue) \in Range(w.out) THEN [w EXCEPT !.queue = Tail(@)]
                       ELSE [out   |-> Append(w.out, Head(w.queue)),
                             queue |-> Tail(w.queue) \o OpenTargets(Head(w.queue), store, states)]]
           turn == CHOOSE f : sol(f)
<1>1. turn[1 + Cardinality(AllEdges)].out = BfsWalkFrom(entry, store)
  BY DEF BfsWalkFrom
<1>2. base \in S
  OBVIOUS
<1>3. ASSUME NEW w \in S PROVE after(w) \in S
  <2>0. w.out \in Seq(Components) /\ w.queue \in Seq(Components)
    OBVIOUS
  <2>1. CASE w.queue # <<>>
    <3>1. Head(w.queue) \in Components /\ Tail(w.queue) \in Seq(Components)
      BY <2>0, <2>1
    <3>2. OpenTargets(Head(w.queue), store, states) \in Seq(Components)
      BY <3>1, FewTargets
    <3>3. Tail(w.queue) \o OpenTargets(Head(w.queue), store, states) \in Seq(Components)
      BY <3>1, <3>2
    <3>4. Append(w.out, Head(w.queue)) \in Seq(Components)
      BY <2>0, <3>1
    <3>. QED  BY <2>0, <2>1, <3>1, <3>3, <3>4
  <2>. QED  BY <2>1
<1> HIDE DEF S, base, after, states
<1>4. step \in [Nat \X S -> S] /\ \A n \in Nat, v \in S : step[<<n, v>>] = after(v)
  <2>1. \A x \in Nat \X S : x[2] \in S
    OBVIOUS
  <2>. QED  BY <1>3, <2>1
<1> HIDE DEF step
<1>5. PICK f : Defines(f, S, base, step)
  BY <1>2, <1>4, Recursion
<1>6. \A n \in Nat : n # 0 => f[n] = after(f[n - 1])
  <2>. SUFFICES ASSUME NEW n \in Nat, n # 0 PROVE f[n] = after(f[n - 1])
    OBVIOUS
  <2>1. n - 1 \in Nat /\ (n - 1) + 1 = n
    OBVIOUS
  <2>2. f[n] = step[<<n, f[n - 1]>>] /\ f[n - 1] \in S
    BY <1>5, <2>1 DEF Defines
  <2>. QED  BY <1>4, <2>1, <2>2
<1>7. f = [n \in Nat |-> f[n]] /\ f[0] = base
  BY <1>5 DEF Defines
<1>8. sol(f)
  BY <1>6, <1>7 DEF after
<1>9. sol(turn)
  BY <1>8
<1> HIDE DEF turn
<1>10. turn[0] = base
  BY <1>9
<1>11. ASSUME NEW n \in Nat PROVE turn[n + 1] = after(turn[n])
  <2>1. n + 1 \in Nat /\ n + 1 # 0 /\ (n + 1) - 1 = n
    OBVIOUS
  <2>2. \A m \in Nat : m # 0 => turn[m] = after(turn[m - 1])
    BY <1>9 DEF after
  <2>. QED  BY <2>1, <2>2
<1>12. \A n \in Nat : turn[n] \in S
  <2> DEFINE P == {n \in Nat : turn[n] \in S}
  <2>1. 0 \in P
    BY <1>2, <1>10
  <2>2. \A n \in Nat : n \in P => n + 1 \in P
    BY <1>3, <1>11
  <2> HIDE DEF P
  <2>3. \A n \in Nat : n \in P
    BY <2>1, <2>2, SetInduction
  <2>. QED  BY <2>3 DEF P
<1>. QED  BY <1>1, <1>10, <1>11, <1>12 DEF S, base, after, states, AfterTurn

Targets(c, store) == Range(OpenTargets(c, store, DerivedStates(store)))

\* A set of components no open dependency leads out of.
Closed(C, entry, store) == entry \in C /\ \A c \in C : Targets(c, store) \subseteq C

\* What holds of the walk's visited components and queue after n turns.
Walking(out, queue, n, entry, store) ==
    LET met == Range(out) \cup Range(queue) IN
    /\ entry \in met
    /\ \A c \in Range(out) : Targets(c, store) \subseteq met
    /\ \A C : Closed(C, entry, store) => met \subseteq C
    /\ queue = <<>> \/ n + Len(queue) <= 1 + Cardinality(EdgesFrom(Range(out)))

\* What bfsWalk keeps true: before its first turn,
LEMMA WalkStarts ==
    ASSUME NEW entry \in Components, NEW store
    PROVE  Walking(<<>>, <<entry>>, 0, entry, store)
<1>1. Range(<<>>) = {} /\ Range(<<entry>>) = {entry} /\ Len(<<entry>>) = 1
  BY DEF Range
<1>2. EdgesFrom({}) = {} /\ Cardinality({}) = 0
  BY FS_EmptySet DEF EdgesFrom
<1>3. 0 + Len(<<entry>>) <= 1 + Cardinality(EdgesFrom(Range(<<>>)))
  <2>1. Cardinality(EdgesFrom(Range(<<>>))) = 0
    BY <1>1, <1>2
  <2>. QED  BY <1>1, <2>1
<1>. QED  BY <1>1, <1>3 DEF Walking, Closed

\* Visiting one more component lets its edges into the queue, once.
LEMMA MoreEdges ==
    ASSUME NEW C, NEW c, c \notin C
    PROVE  Cardinality(EdgesFrom(C \cup {c})) = Cardinality(EdgesFrom(C)) + Cardinality(EdgesFrom({c}))
<1>1. /\ EdgesFrom(C \cup {c}) = EdgesFrom(C) \cup EdgesFrom({c})
      /\ EdgesFrom(C) \cap EdgesFrom({c}) = {}
  BY DEF EdgesFrom
<1>2. \A D : IsFiniteSet(EdgesFrom(D))
  BY FiniteEdges, FS_Subset DEF EdgesFrom
<1>3. Cardinality(EdgesFrom(C) \cup EdgesFrom({c})) =
        Cardinality(EdgesFrom(C)) + Cardinality(EdgesFrom({c})) - Cardinality(EdgesFrom(C) \cap EdgesFrom({c}))
  BY <1>2, FS_Union
<1>4. Cardinality(EdgesFrom(C) \cap EdgesFrom({c})) = 0
  BY <1>1, FS_EmptySet
<1>5. Cardinality(EdgesFrom(C)) \in Nat /\ Cardinality(EdgesFrom({c})) \in Nat
  BY <1>2, FS_CardinalityType
<1>6. Cardinality(EdgesFrom(C \cup {c})) =
        Cardinality(EdgesFrom(C)) + Cardinality(EdgesFrom({c})) - 0
  BY <1>1, <1>3, <1>4
<1>. QED  BY <1>5, <1>6

\* A turn that finds the component visited.
LEMMA WalkDrops ==
    ASSUME NEW entry \in Components, NEW store, NEW n \in Nat,
           NEW out \in Seq(Components), NEW queue \in Seq(Components),
           Walking(out, queue, n, entry, store), queue # <<>>, Head(queue) \in Range(out)
    PROVE  Walking(out, Tail(queue), n + 1, entry, store)
<1>1. /\ Range(queue) = {Head(queue)} \cup Range(Tail(queue))
      /\ Len(queue) = Len(Tail(queue)) + 1 /\ Tail(queue) \in Seq(Components)
  BY RangeOf
<1>2. Range(out) \cup Range(Tail(queue)) = Range(out) \cup Range(queue)
  BY <1>1
<1>3. (n + 1) + Len(Tail(queue)) = n + Len(queue)
  <2>1. Len(Tail(queue)) \in Nat
    BY <1>1
  <2>. QED  BY <1>1, <2>1
<1>4. (n + 1) + Len(Tail(queue)) <= 1 + Cardinality(EdgesFrom(Range(out)))
  BY <1>3 DEF Walking
<1>. QED  BY <1>2, <1>4 DEF Walking

\* A turn that visits a component.
LEMMA WalkVisits ==
    ASSUME NEW entry \in Components, NEW store, NEW n \in Nat,
           NEW out \in Seq(Components), NEW queue \in Seq(Components),
           Walking(out, queue, n, entry, store), queue # <<>>, Head(queue) \notin Range(out)
    PROVE  Walking(Append(out, Head(queue)),
                   Tail(queue) \o OpenTargets(Head(queue), store, DerivedStates(store)),
                   n + 1, entry, store)
<1> DEFINE h == Head(queue)
           t == OpenTargets(h, store, DerivedStates(store))
           was == Cardinality(EdgesFrom(Range(out)))
           new == Cardinality(EdgesFrom({h}))
           met == Range(out) \cup Range(queue)
           out1 == Append(out, h)
           queue1 == Tail(queue) \o t
<1>1. /\ h \in Components /\ Tail(queue) \in Seq(Components)
      /\ Range(queue) = {h} \cup Range(Tail(queue))
      /\ Len(queue) = Len(Tail(queue)) + 1
  BY RangeOf
<1>2. t \in Seq(Components) /\ Len(t) <= new /\ IsFiniteSet(EdgesFrom({h})) /\ Range(t) = Targets(h, store)
  BY <1>1, FewTargets DEF Targets
<1>3. was \in Nat /\ new \in Nat
  BY <1>2, FiniteEdges, FS_Subset, FS_CardinalityType DEF EdgesFrom
<1>4. n + Len(queue) <= 1 + was
  BY DEF Walking
<1>5. Range(out1) = Range(out) \cup {h}
  BY <1>1, RangeOf
<1> HIDE DEF h, t
<1>6. Range(queue1) = Range(Tail(queue)) \cup Range(t) /\ Len(queue1) = Len(Tail(queue)) + Len(t)
  <2>1. Tail(queue) \in Seq(Components) /\ t \in Seq(Components)
    BY <1>1, <1>2
  <2>2. Range(Tail(queue) \o t) = Range(Tail(queue)) \cup Range(t)
    BY <2>1, RangeOfJoined
  <2>. QED  BY <2>1, <2>2
<1>7. Cardinality(EdgesFrom(Range(out1))) = was + new
  <2>1. h \notin Range(out)
    BY DEF h
  <2>. QED  BY <1>5, <2>1, MoreEdges
<1> HIDE DEF was, new, out1, queue1
<1>8. (n + 1) + Len(queue1) <= 1 + Cardinality(EdgesFrom(Range(out1)))
  <2>1. Len(Tail(queue)) \in Nat /\ Len(t) \in Nat
    BY <1>1, <1>2
  <2>. QED  BY <1>1, <1>2, <1>3, <1>4, <1>6, <1>7, <2>1
<1>9. Range(out1) \cup Range(queue1) = met \cup Targets(h, store)
  BY <1>1, <1>2, <1>5, <1>6
<1>10. \A c \in Range(out1) : Targets(c, store) \subseteq Range(out1) \cup Range(queue1)
  BY <1>5, <1>9 DEF Walking
<1>11. \A C : Closed(C, entry, store) => Range(out1) \cup Range(queue1) \subseteq C
  BY <1>1, <1>9 DEF Walking, Closed
<1>12. Walking(out1, queue1, n + 1, entry, store)
  BY <1>8, <1>9, <1>10, <1>11 DEF Walking
<1>. QED  BY <1>12 DEF out1, queue1, h, t

\* bfsWalk visits what the entry leads to over open dependencies, and no more.
LEMMA WalkIsClosure ==
    ASSUME NEW entry \in Components, NEW store
    PROVE  /\ BfsWalkFrom(entry, store) \in Seq(Components)
           /\ Closed(Range(BfsWalkFrom(entry, store)), entry, store)
           /\ \A C : Closed(C, entry, store) => Range(BfsWalkFrom(entry, store)) \subseteq C
<1> DEFINE N == 1 + Cardinality(AllEdges)
<1>1. PICK turn :
              /\ \A n \in Nat : turn[n] \in [out : Seq(Components), queue : Seq(Components)]
              /\ turn[0] = [out |-> <<>>, queue |-> <<entry>>]
              /\ \A n \in Nat : turn[n + 1] = AfterTurn(turn[n], store)
              /\ BfsWalkFrom(entry, store) = turn[N].out
  BY WalkTurns
<1> DEFINE out(n) == turn[n].out
           queue(n) == turn[n].queue
           P == {n \in Nat : Walking(out(n), queue(n), n, entry, store)}
<1>2. /\ \A n \in Nat : out(n) \in Seq(Components) /\ queue(n) \in Seq(Components)
      /\ out(0) = <<>> /\ queue(0) = <<entry>>
      /\ BfsWalkFrom(entry, store) = out(N)
  <2>1. ASSUME NEW n \in Nat PROVE turn[n].out \in Seq(Components) /\ turn[n].queue \in Seq(Components)
    <3>1. turn[n] \in [out : Seq(Components), queue : Seq(Components)]
      BY <1>1
    <3>. QED  BY <3>1
  <2>2. turn[0].out = <<>> /\ turn[0].queue = <<entry>>
    BY <1>1
  <2>. QED  BY <1>1, <2>1, <2>2
<1>3. ASSUME NEW n \in Nat
      PROVE  IF queue(n) = <<>> THEN out(n + 1) = out(n) /\ queue(n + 1) = queue(n)
             ELSE IF Head(queue(n)) \in Range(out(n)) THEN out(n + 1) = out(n) /\ queue(n + 1) = Tail(queue(n))
             ELSE /\ out(n + 1) = Append(out(n), Head(queue(n)))
                  /\ queue(n + 1) = Tail(queue(n)) \o OpenTargets(Head(queue(n)), store, DerivedStates(store))
  <2>1. turn[n] \in [out : Seq(Components), queue : Seq(Components)] /\ turn[n + 1] = AfterTurn(turn[n], store)
    BY <1>1
  <2>2. CASE turn[n].queue = <<>>
    BY <2>1, <2>2 DEF AfterTurn
  <2>3. CASE turn[n].queue # <<>> /\ Head(turn[n].queue) \in Range(turn[n].out)
    <3>1. turn[n + 1] = [turn[n] EXCEPT !.queue = Tail(@)]
      BY <2>1, <2>3 DEF AfterTurn
    <3>2. turn[n + 1].out = turn[n].out /\ turn[n + 1].queue = Tail(turn[n].queue)
      BY <2>1, <3>1
    <3>. QED  BY <2>3, <3>2
  <2>4. CASE turn[n].queue # <<>> /\ Head(turn[n].queue) \notin Range(turn[n].out)
    <3>1. turn[n + 1] =
            [out   |-> Append(turn[n].out, Head(turn[n].queue)),
             queue |-> Tail(turn[n].queue) \o OpenTargets(Head(turn[n].queue), store, DerivedStates(store))]
      BY <2>1, <2>4 DEF AfterTurn
    <3>2. \A r, a, b : r = [out |-> a, queue |-> b] => r.out = a /\ r.queue = b
      OBVIOUS
    <3>3. /\ turn[n + 1].out = Append(turn[n].out, Head(turn[n].queue))
          /\ turn[n + 1].queue = Tail(turn[n].queue) \o OpenTargets(Head(turn[n].queue), store, DerivedStates(store))
      <4> DEFINE r == turn[n + 1]
                 a == Append(turn[n].out, Head(turn[n].queue))
                 b == Tail(turn[n].queue) \o OpenTargets(Head(turn[n].queue), store, DerivedStates(store))
      <4>1. r = [out |-> a, queue |-> b]
        BY <3>1
      <4> HIDE DEF r, a, b
      <4>2. r.out = a /\ r.queue = b
        BY <4>1, <3>2
      <4>. QED  BY <4>2 DEF r, a, b
    <3>. QED  BY <2>4, <3>3
  <2>. QED  BY <2>2, <2>3, <2>4
<1> HIDE DEF out, queue
<1>4. 0 \in P
  BY <1>2, WalkStarts
<1>5. ASSUME NEW n \in Nat, n \in P PROVE n + 1 \in P
  <2>1. out(n) \in Seq(Components) /\ queue(n) \in Seq(Components) /\ Walking(out(n), queue(n), n, entry, store)
    BY <1>2, <1>5
  <2>2. Walking(out(n + 1), queue(n + 1), n + 1, entry, store)
    <3>1. CASE queue(n) = <<>>
      BY <1>3, <2>1, <3>1 DEF Walking
    <3>2. CASE queue(n) # <<>> /\ Head(queue(n)) \in Range(out(n))
      BY <1>3, <2>1, <3>2, WalkDrops
    <3>3. CASE queue(n) # <<>> /\ Head(queue(n)) \notin Range(out(n))
      BY <1>3, <2>1, <3>3, WalkVisits
    <3>. QED  BY <3>1, <3>2, <3>3
  <2>. QED  BY <2>2
<1> HIDE DEF P
<1>6. Cardinality(AllEdges) \in Nat /\ N \in Nat
  <2>1. Cardinality(AllEdges) \in Nat
    BY FiniteEdges, FS_CardinalityType
  <2>. QED  BY <2>1
<1>7. Walking(out(N), queue(N), N, entry, store)
  <2>1. \A n \in Nat : n \in P
    BY <1>4, <1>5, SetInduction
  <2>. QED  BY <1>6, <2>1 DEF P
<1> DEFINE edges == Cardinality(EdgesFrom(Range(out(N))))
           all == Cardinality(AllEdges)
<1>8. edges <= all /\ edges \in Nat
  BY FiniteEdges, FS_Subset, FS_CardinalityType DEF EdgesFrom
<1>9. queue(N) = <<>>
  <2>. SUFFICES ASSUME queue(N) # <<>> PROVE FALSE
    OBVIOUS
  <2>1. Len(queue(N)) = Len(Tail(queue(N))) + 1 /\ Tail(queue(N)) \in Seq(Components)
    BY <1>2, <1>6, RangeOf
  <2>2. (1 + all) + Len(queue(N)) <= 1 + edges
    BY <1>7 DEF Walking
  <2> HIDE DEF N, all, edges
  <2>3. Len(Tail(queue(N))) \in Nat
    BY <2>1
  <2>4. all \in Nat
    BY <1>6 DEF all
  <2>. QED  BY <1>8, <2>1, <2>2, <2>3, <2>4
<1>10. Range(queue(N)) = {}
  BY <1>9 DEF Range
<1>11. BfsWalkFrom(entry, store) = out(N) /\ out(N) \in Seq(Components)
  BY <1>2, <1>6
<1> HIDE DEF N
<1>12. /\ Closed(Range(out(N)), entry, store)
       /\ \A C : Closed(C, entry, store) => Range(out(N)) \subseteq C
  BY <1>7, <1>10 DEF Walking, Closed
<1>. QED  BY <1>11, <1>12

-----------------------------------------------------------------------------
(* Facts that answer.                                                      *)

\* A fact a probe or the operator put on record: what the world says, or a
\* status that says why there is no value.
Answers(w, c, f) == Faithful(w, c, f) /\ (f.value = NoValue => f.status # "")

\* dispatch.Record puts an answer on record.
LEMMA OutcomeIsAnswer ==
    ASSUME NEW w \in Worlds, NEW p \in Probes, p.fact \in Range(TypeFacts[p.on]),
           NEW f \in Outcomes(w, p)
    PROVE  f \in Fact /\ f.key = p.fact /\ Answers(w, p.on, f)
<1> DEFINE k == p.fact
           v == w[p.on][p.fact]
<1>1. k \in Keys /\ v \in Values \cup {NoValue}
  BY ProbingAssumption DEF Probes
<1>2. CASE f = NewFact(k, v, IF v = NoValue THEN "not_found" ELSE "", "probe")
  <2> DEFINE status == IF v = NoValue THEN "not_found" ELSE ""
  <2>1. status \in Statuses
    BY DEF Statuses
  <2>2. f = NewFact(k, v, status, "probe")
    BY <1>2
  <2>3. f \in Fact /\ f.key = k /\ f.value = v /\ f.status = status
    <3> HIDE DEF k, v, status
    <3>. QED  BY <1>1, <2>1, <2>2, ProbedFact
  <2>. QED  BY <2>3 DEF Answers, Faithful, k, v
<1>3. ASSUME NEW status \in Failures, f = NewFact(k, NoValue, status, "probe")
      PROVE  f \in Fact /\ f.key = k /\ Answers(w, p.on, f)
  <2>1. status \in {"forbidden", "transient"} /\ status \in Statuses
    BY ProbingAssumption DEF Statuses
  <2>2. f \in Fact /\ f.key = k /\ f.value = NoValue /\ f.status = status
    <3> HIDE DEF k
    <3>. QED  BY <1>1, <1>3, <2>1, ProbedFact
  <2>. QED  BY <2>1, <2>2 DEF Answers, Faithful
<1>. QED  BY <1>2, <1>3 DEF Outcomes

\* What is on record after Store.Append.
LEMMA AppendedRange ==
    ASSUME NEW st \in Store, NEW c \in Components, NEW f \in Fact, NEW d \in Components
    PROVE  \A g : g \in Range(Appended(st, c, f)[d]) <=> g \in Range(st[d]) \/ (d = c /\ g = f)
<1>1. /\ Appended(st, c, f)[c] = Append(st[c], f)
      /\ d # c => Appended(st, c, f)[d] = st[d]
  BY AppendedIsStore
<1>2. st[c] \in Seq(Fact)
  BY DEF Store
<1>3. Range(Append(st[c], f)) = Range(st[c]) \cup {f}
  BY <1>2, RangeOf
<1>. QED  BY <1>1, <1>3

\* A store that grew by one record knows all it knew, if the record is of a
\* key that had none.
LEMMA AppendedSees ==
    ASSUME NEW st \in Store, NEW c \in Components, NEW f \in Fact, ~Collected(st[c], f.key), NEW K
    PROVE  Sees(st, Appended(st, c, f), K)
<1> DEFINE now == Appended(st, c, f)
<1>1. now \in Store /\ st \in Store
  BY AppendedIsStore
<1>2. /\ now[c] = Append(st[c], f)
      /\ \A d \in Components : d # c => now[d] = st[d]
  BY AppendedIsStore
<1>3. st[c] \in Seq(Fact)
  BY DEF Store
<1> HIDE DEF now
<1> DEFINE was == st[c]
           is == now[c]
<1>4. /\ was \in Seq(Fact) /\ Len(was) \in Nat /\ DOMAIN was = 1..Len(was)
      /\ DOMAIN is = 1..(Len(was) + 1)
      /\ \A i \in 1..Len(was) : is[i] = was[i]
      /\ is[Len(was) + 1] = f
  BY <1>2, <1>3
<1>5. ASSUME NEW k, LookupValue(was, k) # NoValue PROVE LookupValue(is, k) = LookupValue(was, k)
  <2>1. Collected(was, k) /\ k # f.key
    BY <1>5 DEF LookupValue
  <2> HIDE DEF was, is
  <2>2. Positions(is, k) = Positions(was, k)
    <3>1. \A i \in 1..(Len(was) + 1) : i = Len(was) + 1 \/ i \in 1..Len(was)
      BY <1>4
    <3>2. \A i \in 1..Len(was) : i \in 1..(Len(was) + 1)
      BY <1>4
    <3>. QED  BY <1>4, <2>1, <3>1, <3>2 DEF Positions
  <2>3. Max(Positions(was, k)) \in Positions(was, k)
    <3>1. Positions(was, k) \in SUBSET (1..Len(was)) /\ Positions(was, k) # {}
      BY <1>4, <2>1 DEF Positions, Collected
    <3>. QED  BY <1>4, <3>1, MaxInSet
  <2>4. Max(Positions(was, k)) \in 1..Len(was)
    BY <1>4, <2>3 DEF Positions
  <2>. QED  BY <1>4, <2>1, <2>2, <2>4 DEF LookupValue, Latest, Collected
<1>6. Observed(was) => Observed(is)
  <2> HIDE DEF was, is
  <2>1. \A i \in 1..Len(was) : i \in 1..(Len(was) + 1)
    BY <1>4
  <2>. QED  BY <1>4, <2>1 DEF Observed
<1>7. Below(st, now, K)
  BY <1>2, <1>5 DEF Below
<1>8. \A d \in Components : Observed(st[d]) => Observed(now[d])
  BY <1>2, <1>6
<1>. QED  BY <1>1, <1>7, <1>8 DEF Sees, now

-----------------------------------------------------------------------------
(* The cause.                                                              *)

\* Max is well defined on numbers up to n.
LEMMA MaxUpTo ==
    ASSUME NEW n \in Nat, NEW S \in SUBSET (0..n), S # {}
    PROVE  Max(S) \in S /\ \A j \in S : j <= Max(S)
<1> DEFINE T == {j \in 1..(n + 1) : j - 1 \in S}
<1>1. T \in SUBSET (1..(n + 1)) /\ T # {} /\ n + 1 \in Nat
  <2>1. PICK j \in S : TRUE
    OBVIOUS
  <2>2. j \in 0..n
    OBVIOUS
  <2>3. j + 1 \in 1..(n + 1) /\ (j + 1) - 1 = j
    BY <2>2
  <2>4. j + 1 \in T
    BY <2>3
  <2>5. T \in SUBSET (1..(n + 1)) /\ n + 1 \in Nat
    OBVIOUS
  <2> HIDE DEF T
  <2>. QED  BY <2>4, <2>5
<1>2. PICK m \in T : \A j \in T : j <= m
  <2> HIDE DEF T
  <2>. QED  BY <1>1, MaxInSet
<1>3. m - 1 \in S /\ m \in 1..(n + 1)
  OBVIOUS
<1>4. \A j \in S : m - 1 >= j
  <2>. SUFFICES ASSUME NEW j \in S PROVE m - 1 >= j
    OBVIOUS
  <2>1. j + 1 \in T
    OBVIOUS
  <2>2. j + 1 <= m /\ j \in Nat
    BY <1>2, <2>1
  <2>. QED  BY <1>3, <2>2
<1> DEFINE x == m - 1
<1>5. x \in S /\ \A j \in S : x >= j
  BY <1>3, <1>4
<1> HIDE DEF x
<1>6. Max(S) \in S /\ \A j \in S : Max(S) >= j
  BY <1>5, Zenon DEF Max
<1>. QED  BY <1>6

\* The components the walk visits are numbered by their depths.
LEMMA DepthType ==
    ASSUME NEW entry, NEW active, IsFiniteSet(DOMAIN active)
    PROVE  \A x \in DOMAIN active : Depths(entry, active)[x] \in 0..Cardinality(DOMAIN active)
<1> DEFINE N == Cardinality(DOMAIN active)
           layer == CHOOSE f : f = [n \in Nat |-> IF n = 0 THEN {entry} ELSE UNION {active[y] : y \in f[n - 1]}]
           S(x) == {0} \cup {n \in 0..N : x \in layer[n]}
<1>1. Depths(entry, active) = [x \in DOMAIN active |-> Max(S(x))]
  BY DEF Depths
<1> HIDE DEF layer
<1>2. N \in Nat
  BY FS_CardinalityType
<1> HIDE DEF N
<1>3. ASSUME NEW x PROVE Max(S(x)) \in 0..N
  <2>1. S(x) \in SUBSET (0..N) /\ S(x) # {}
    BY <1>2
  <2> HIDE DEF S
  <2>. QED  BY <1>2, <2>1, MaxUpTo
<1>. QED  BY <1>1, <1>3 DEF N

\* Some component is deepest.
LEMMA SomeDeepest ==
    ASSUME NEW N \in Nat, NEW S, NEW depth, \A x \in S : depth[x] \in 0..N, S # {}
    PROVE  Deepest(S, depth) # {}
<1> DEFINE D == {depth[x] : x \in S}
<1>1. D \in SUBSET (0..N) /\ D # {}
  OBVIOUS
<1> HIDE DEF D
<1>2. PICK d \in D : \A j \in D : j <= d
  BY <1>1, MaxUpTo
<1>3. PICK x \in S : depth[x] = d
  BY DEF D
<1>4. \A y \in S : depth[y] <= depth[x]
  BY <1>2, <1>3 DEF D
<1>. QED  BY <1>4 DEF Deepest

\* RootCause names a component that is in play, broken and not covered; and it
\* names none only if there is no such component.
LEMMA CauseIsCandidate ==
    ASSUME NEW entry \in Components, NEW st
    PROVE  LET broken == Candidates(st, Range(BfsWalkFrom(entry, st))) IN
           IF broken = {} THEN RootCauseFrom(entry, st) = NoValue
           ELSE RootCauseFrom(entry, st) \in broken
<1> DEFINE inPlay == Range(BfsWalkFrom(entry, st))
           active == ActiveEdges(st, inPlay)
           opaque == {c \in inPlay : ComponentVerdict(st, c) # "healthy"}
           broken == Candidates(st, inPlay)
           causes == Causes(broken, active, opaque)
           depth  == Depths(entry, active)
           best   == Deepest(causes, depth)
<1>1. RootCauses(entry, st) = best
  BY DEF RootCauses
<1>2. inPlay \subseteq Components
  BY WalkIsClosure, RangeOf
<1>3. DOMAIN active = inPlay
  BY DEF ActiveEdges
<1>4. IsFiniteSet(inPlay)
  BY <1>2, ModelAssumption, FS_Subset
<1>5. broken \subseteq inPlay
  BY DEF Candidates
<1>6. /\ causes \subseteq broken
      /\ broken # {} => causes # {}
  <2> HIDE DEF broken, active, opaque
  <2>. QED  BY DEF Causes
<1> HIDE DEF inPlay, active, opaque, broken, causes
<1>7. \A x \in inPlay : depth[x] \in 0..Cardinality(inPlay)
  BY <1>3, <1>4, DepthType
<1> HIDE DEF depth
<1>8. best \subseteq causes /\ (causes # {} => best # {})
  <2>1. Cardinality(inPlay) \in Nat
    BY <1>4, FS_CardinalityType
  <2>2. \A x \in causes : depth[x] \in 0..Cardinality(inPlay)
    BY <1>5, <1>6, <1>7
  <2>. QED  BY <2>1, <2>2, SomeDeepest DEF Deepest
<1> HIDE DEF best
<1>9. CASE broken = {}
  <2>1. best = {}
    BY <1>6, <1>8, <1>9
  <2>2. RootCauseFrom(entry, st) = NoValue
    BY <1>1, <2>1 DEF RootCauseFrom
  <2>. QED  BY <1>9, <2>2 DEF broken, inPlay
<1>10. CASE broken # {}
  <2> DEFINE places == {i \in DOMAIN Order : Order[i] \in best}
  <2>1. best # {} /\ best \subseteq Components /\ best \subseteq broken
    BY <1>2, <1>5, <1>6, <1>8, <1>10
  <2>2. DOMAIN Order = 1..Len(Order) /\ Len(Order) \in Nat
    BY ModelAssumption
  <2>3. places \in SUBSET (1..Len(Order)) /\ places # {}
    <3>1. PICK x \in best : TRUE
      BY <2>1
    <3>2. x \in Range(Order)
      BY <2>1, ModelAssumption
    <3>. QED  BY <2>2, <3>1, <3>2 DEF Range
  <2>4. Min(places) \in places
    <3> HIDE DEF places
    <3>. QED  BY <2>2, <2>3, MinInSet
  <2>5. RootCauseFrom(entry, st) = Order[Min(places)]
    BY <1>1, <2>1 DEF RootCauseFrom
  <2>. QED  BY <1>10, <2>1, <2>4, <2>5 DEF broken, inPlay
<1>. QED  BY <1>9, <1>10

\* A component is not found broken before something was recorded for it.
LEMMA UnhealthyIsOnRecord ==
    ASSUME NEW K, PlainModel(K), NEW st \in Store, NEW c \in Components, Unhealthy(st, c)
    PROVE  st[c] # <<>>
<1>1. StateVerdict(c, st) = ""
  BY PlainStateVerdict
<1>2. CASE IsAbsent(st[c])
  BY <1>2 DEF IsAbsent
<1>3. ASSUME NEW r \in Rules[c], Truth(r, st, NoStates) = "false" PROVE st[c] # <<>>
  <2>1. r # NoPredicate /\ Reads(r, c, K)
    BY ModelAssumption DEF PlainModel
  <2>2. \A conj \in r : \E a \in conj : AtomTruth(a, st, NoStates) = "false"
    BY <1>3 DEF Truth
  <2>3. PICK conj \in r : \E a \in conj : AtomTruth(a, st, NoStates) = "false"
    BY <2>1, <2>2 DEF NoPredicate
  <2>4. PICK a \in conj : AtomTruth(a, st, NoStates) = "false"
    BY <2>3
  <2>5. a.fact = StateRef \/ (a.on = c /\ a.fact \in K)
    BY <2>1, <2>3, <2>4 DEF Reads
  <2>6. Observed(st[c])
    BY <2>4, <2>5, DecidedIsObserved
  <2>. QED  BY <2>6 DEF Observed
<1>. QED  BY <1>1, <1>2, <1>3 DEF Unhealthy


-----------------------------------------------------------------------------
(* Two stores that answer alike where it matters name the same cause.      *)

\* The stores answer every question about the components in C alike.
Alike(s, t, C) ==
    \A c \in C : /\ \A k : LookupValue(s[c], k) = LookupValue(t[c], k)
                 /\ Observed(s[c]) <=> Observed(t[c])
                 /\ IsAbsent(s[c]) <=> IsAbsent(t[c])

\* So do the derived states.
StatesAlike(f, g, C) == \A c \in C : (c \in DOMAIN f <=> c \in DOMAIN g) /\ (c \in DOMAIN f => f[c] = g[c])

\* A predicate that asks only about those.
AsksAlike(p, f, g, C) ==
    \A conj \in p : \A a \in conj :
        /\ a.fact = StateRef => StatesAlike(f, g, {a.on})
        /\ a.fact # StateRef => a.on \in C

\* Such a predicate has the same truth.
LEMMA TruthAlike ==
    ASSUME NEW s, NEW t, NEW f, NEW g, NEW C, Alike(s, t, C), NEW p, AsksAlike(p, f, g, C)
    PROVE  Truth(p, s, f) = Truth(p, t, g)
<1>1. ASSUME NEW conj \in p, NEW a \in conj PROVE AtomTruth(a, s, f) = AtomTruth(a, t, g)
  <2>1. CASE a.fact = StateRef
    <3>1. (a.on \in DOMAIN f <=> a.on \in DOMAIN g) /\ (a.on \in DOMAIN f => f[a.on] = g[a.on])
      BY <2>1 DEF AsksAlike, StatesAlike
    <3>. QED  BY <2>1, <3>1 DEF AtomTruth
  <2>2. CASE a.fact # StateRef
    <3>1. LookupValue(s[a.on], a.fact) = LookupValue(t[a.on], a.fact)
      BY <2>2 DEF AsksAlike, Alike
    <3>. QED  BY <2>2, <3>1 DEF AtomTruth
  <2>. QED  BY <2>1, <2>2
<1>2. /\ \A conj \in p : (\A a \in conj : AtomTruth(a, s, f) = "true") <=> (\A a \in conj : AtomTruth(a, t, g) = "true")
      /\ \A conj \in p : (\E a \in conj : AtomTruth(a, s, f) = "false") <=> (\E a \in conj : AtomTruth(a, t, g) = "false")
  BY <1>1
<1>. QED  BY <1>2 DEF Truth

\* In a plain model the verdict of a component is the same.
LEMMA VerdictAlike ==
    ASSUME NEW K, PlainModel(K), NEW s, NEW t, NEW c \in Components, Alike(s, t, {c})
    PROVE  /\ Unhealthy(s, c) <=> Unhealthy(t, c)
           /\ Healthy(s, c) <=> Healthy(t, c)
           /\ ComponentVerdict(s, c) = ComponentVerdict(t, c)
<1>1. StateVerdict(c, s) = "" /\ StateVerdict(c, t) = ""
  BY PlainStateVerdict
<1>2. ASSUME NEW r \in Rules[c] PROVE Truth(r, s, NoStates) = Truth(r, t, NoStates)
  <2>1. AsksAlike(r, NoStates, NoStates, {c})
    <3>1. Reads(r, c, K)
      BY DEF PlainModel
    <3>. QED  BY <3>1 DEF Reads, StatesAlike, AsksAlike
  <2>. QED  BY <2>1, TruthAlike
<1>3. (IsAbsent(s[c]) <=> IsAbsent(t[c])) /\ (Observed(s[c]) <=> Observed(t[c]))
  BY DEF Alike
<1>4. Unhealthy(s, c) <=> Unhealthy(t, c)
  BY <1>1, <1>2, <1>3 DEF Unhealthy
<1>5. Healthy(s, c) <=> Healthy(t, c)
  BY <1>1, <1>2, <1>3 DEF Healthy, Holds
<1>. QED  BY <1>4, <1>5 DEF ComponentVerdict

\* So are the groups that hold, if their members are always in play.
LEMMA GroupsAlike ==
    ASSUME NEW K, PlainModel(K), Grounded, NEW s, NEW t, Alike(s, t, AlwaysInPlay)
    PROVE  /\ \A p \in Components : \A x : SatisfiedGroup(s, p, x) <=> SatisfiedGroup(t, p, x)
           /\ \A x : RedundancyCovered(s, x) <=> RedundancyCovered(t, x)
<1>1. ASSUME NEW p \in Components, NEW i \in DOMAIN Depends[p], Depends[p][i].need > 0
      PROVE  HealthyMembers(s, Depends[p][i]) = HealthyMembers(t, Depends[p][i])
  <2> DEFINE on == Depends[p][i].on
  <2>1. Range(on) \subseteq AlwaysInPlay
    BY <1>1 DEF Grounded
  <2>2. \A j \in DOMAIN on : on[j] \in AlwaysInPlay /\ on[j] \in Components
    BY <2>1 DEF Range, AlwaysInPlay
  <2>3. ASSUME NEW j \in DOMAIN on PROVE Healthy(s, on[j]) <=> Healthy(t, on[j])
    <3>1. on[j] \in Components /\ Alike(s, t, {on[j]})
      BY <2>2 DEF Alike
    <3>. QED  BY <3>1, VerdictAlike
  <2>. QED  BY <2>3 DEF HealthyMembers
<1>2. ASSUME NEW p \in Components, NEW x
      PROVE  SatisfiedGroup(s, p, x) <=> SatisfiedGroup(t, p, x)
  BY <1>1 DEF SatisfiedGroup
<1>. QED  BY <1>2 DEF RedundancyCovered

\* What state derivation knows after each component in declaration order.
LEMMA DerivedSteps ==
    ASSUME NEW st
    PROVE  \E u : /\ u[0] = NoStates
                  /\ \A n \in 1..Len(Order) :
                        u[n] = [c \in {Order[i] : i \in 1..n} |->
                                  IF c = Order[n] THEN StateIn(Order[n], st, u[n - 1]) ELSE u[n - 1][c]]
                  /\ DerivedStates(st) = u[Len(Order)]
<1> DEFINE N == Len(Order)
           Met(n) == {Order[i] : i \in 1..n}
           after(n, v) == [c \in Met(n) |-> IF c = Order[n] THEN StateIn(Order[n], st, v) ELSE v[c]]
           sol(f) == f = [n \in 0..N |->
                            IF n = 0 THEN NoStates
                            ELSE [c \in {Order[i] : i \in 1..n} |->
                                    IF c = Order[n] THEN StateIn(Order[n], st, f[n - 1]) ELSE f[n - 1][c]]]
           u == CHOOSE f : sol(f)
           Names == {Unknown} \cup UNION {{States[c][i].name : i \in DOMAIN States[c]} : c \in Components}
           S == UNION {[Met(n) -> Names] : n \in 0..N}
           turn(n, v) == IF DOMAIN v = Met(n - 1) THEN after(n, v) ELSE NoStates
           step == [x \in (1..N) \X S |-> turn(x[1], x[2])]
<1>1. DerivedStates(st) = u[N]
  BY DEF DerivedStates
<1>2. N \in Nat /\ \A n \in 1..N : Order[n] \in Components
  BY ModelAssumption
<1>3. NoStates \in S /\ Met(0) = {}
  <2>1. Met(0) = {} /\ 0 \in 0..N
    BY <1>2
  <2>2. NoStates \in [{} -> Names]
    BY DEF NoStates
  <2>. QED  BY <2>1, <2>2
<1>4. ASSUME NEW c \in Components, NEW v PROVE StateIn(c, st, v) \in Names
  <2> DEFINE hits == {i \in DOMAIN States[c] : Truth(States[c][i].when, st, v) = "true"}
  <2>1. CASE hits = {}
    BY <2>1 DEF StateIn
  <2>2. CASE hits # {}
    <3>1. States[c] \in Seq(Range(States[c]))
      BY ModelAssumption
    <3>2. Len(States[c]) \in Nat /\ hits \in SUBSET (1..Len(States[c]))
      BY <3>1
    <3>3. Min(hits) \in DOMAIN States[c]
      BY <2>2, <3>2, MinInSet
    <3> DEFINE name == States[c][Min(hits)].name
    <3>4. StateIn(c, st, v) = name
      BY <2>2 DEF StateIn
    <3>5. name \in {States[c][i].name : i \in DOMAIN States[c]}
      BY <3>3
    <3> HIDE DEF name
    <3>. QED  BY <3>4, <3>5
  <2>. QED  BY <2>1, <2>2
<1>5. ASSUME NEW n \in 1..N, NEW v \in S PROVE turn(n, v) \in S
  <2>1. CASE DOMAIN v = Met(n - 1)
    <3>1. v \in [Met(n - 1) -> Names]
      <4>1. PICK m \in 0..N : v \in [Met(m) -> Names]
        OBVIOUS
      <4> HIDE DEF Met, Names
      <4>. QED  BY <2>1, <4>1
    <3>2. ASSUME NEW c \in Met(n), c # Order[n] PROVE c \in Met(n - 1)
      <4>1. PICK i \in 1..n : c = Order[i]
        OBVIOUS
      <4>2. i \in 1..(n - 1)
        BY <1>2, <3>2, <4>1
      <4>. QED  BY <4>1, <4>2
    <3>3. StateIn(Order[n], st, v) \in Names
      BY <1>2, <1>4
    <3>4. after(n, v) \in [Met(n) -> Names]
      <4> HIDE DEF Met, Names
      <4>. QED  BY <3>1, <3>2, <3>3
    <3>5. n \in 0..N
      BY <1>2
    <3> HIDE DEF after, Met, Names
    <3>. QED  BY <2>1, <3>4, <3>5
  <2>2. CASE DOMAIN v # Met(n - 1)
    <3> HIDE DEF S, Met, after
    <3>. QED  BY <1>3, <2>2
  <2>. QED  BY <2>1, <2>2
<1> HIDE DEF S, N, turn
<1>6. step \in [(1..N) \X S -> S] /\ \A n \in 1..N, v \in S : step[<<n, v>>] = turn(n, v)
  <2>1. \A x \in (1..N) \X S : x[1] \in 1..N /\ x[2] \in S
    OBVIOUS
  <2>. QED  BY <1>5, <2>1
<1> HIDE DEF step
<1>7. PICK f : Computes(f, N, S, NoStates, step)
  BY <1>2, <1>3, <1>6, RecursionUpTo
<1>8. f[0] = NoStates /\ f = [n \in 0..N |-> f[n]] /\ \A n \in 1..N : f[n] = turn(n, f[n - 1])
  <2>1. f \in [0..N -> S] /\ f[0] = NoStates /\ \A n \in 1..N : f[n] = step[<<n, f[n - 1]>>]
    BY <1>7 DEF Computes
  <2>2. ASSUME NEW n \in 1..N PROVE f[n] = turn(n, f[n - 1])
    <3>1. n - 1 \in 0..N
      BY <1>2
    <3>. QED  BY <1>6, <2>1, <3>1
  <2>. QED  BY <2>1, <2>2
<1> DEFINE P == {n \in 0..N : DOMAIN f[n] = Met(n)}
<1>9. 0 \in P
  BY <1>2, <1>3, <1>8 DEF NoStates
<1>10. ASSUME NEW n \in 1..N, n - 1 \in P PROVE n \in P
  <2>1. DOMAIN f[n - 1] = Met(n - 1) /\ n \in 0..N
    BY <1>2, <1>10
  <2>2. f[n] = after(n, f[n - 1])
    <3> HIDE DEF P, Met, after
    <3>. QED  BY <1>8, <2>1 DEF turn
  <2>3. DOMAIN f[n] = Met(n)
    BY <2>2
  <2>. QED  BY <2>1, <2>3
<1> HIDE DEF P
<1>11. \A n \in 0..N : n \in P
  BY <1>2, <1>9, <1>10, InductionUpTo
<1>12. ASSUME NEW n \in 1..N PROVE f[n] = after(n, f[n - 1])
  <2>1. n - 1 \in 0..N
    BY <1>2
  <2>. QED  BY <1>8, <1>11, <2>1 DEF turn, P
<1>13. sol(f)
  <2>1. \A n \in 0..N : n # 0 => n \in 1..N
    BY <1>2
  <2>. QED  BY <1>8, <1>12, <2>1
<1>14. sol(u)
  BY <1>13
<1> HIDE DEF u
<1>15. u[0] = NoStates /\ \A n \in 1..N : u[n] = after(n, u[n - 1])
  <2>1. 0 \in 0..N /\ \A n \in 1..N : n \in 0..N /\ n # 0
    BY <1>2
  <2>. QED  BY <1>14, <2>1
<1>. QED  BY <1>1, <1>15 DEF N

\* The states of the components always in play are derived alike.
LEMMA DerivedAlike ==
    ASSUME Grounded, NEW s, NEW t, Alike(s, t, AlwaysInPlay)
    PROVE  StatesAlike(DerivedStates(s), DerivedStates(t), AlwaysInPlay)
<1> DEFINE N == Len(Order)
           G == AlwaysInPlay
           Met(n) == {Order[i] : i \in 1..n}
           turn(u, st, n) == u[n] = [c \in Met(n) |->
                                       IF c = Order[n] THEN StateIn(Order[n], st, u[n - 1]) ELSE u[n - 1][c]]
<1>1. N \in Nat /\ (\A n \in 1..N : Order[n] \in Components) /\ Met(0) = {}
  BY ModelAssumption
<1>2. PICK u : u[0] = NoStates /\ (\A n \in 1..N : turn(u, s, n)) /\ DerivedStates(s) = u[N]
  BY DerivedSteps
<1>3. PICK v : v[0] = NoStates /\ (\A n \in 1..N : turn(v, t, n)) /\ DerivedStates(t) = v[N]
  BY DerivedSteps
<1> DEFINE P == {n \in 0..N : DOMAIN u[n] = Met(n) /\ DOMAIN v[n] = Met(n) /\ StatesAlike(u[n], v[n], G)}
<1>4. 0 \in P
  <2>1. DOMAIN NoStates = {}
    BY DEF NoStates
  <2>. QED  BY <1>1, <1>2, <1>3, <2>1 DEF StatesAlike
<1>5. ASSUME NEW n \in 1..N, n - 1 \in P PROVE n \in P
  <2> DEFINE f == u[n - 1]
             g == v[n - 1]
             c == Order[n]
  <2>1. DOMAIN f = Met(n - 1) /\ DOMAIN g = Met(n - 1) /\ StatesAlike(f, g, G)
    BY <1>5
  <2>2. /\ u[n] = [d \in Met(n) |-> IF d = c THEN StateIn(c, s, f) ELSE f[d]]
        /\ v[n] = [d \in Met(n) |-> IF d = c THEN StateIn(c, t, g) ELSE g[d]]
    BY <1>2, <1>3
  <2>3. ASSUME NEW d \in Met(n), d # c PROVE d \in Met(n - 1)
    <3>1. PICK i \in 1..n : d = Order[i]
      OBVIOUS
    <3>2. i \in 1..(n - 1)
      BY <1>1, <2>3, <3>1
    <3>. QED  BY <3>1, <3>2
  <2>4. n \in 0..N /\ c \in Components
    BY <1>1
  <2> HIDE DEF f, g, c, Met, N
  <2>5. ASSUME c \in G PROVE StateIn(c, s, f) = StateIn(c, t, g)
    <3>1. ASSUME NEW i \in DOMAIN States[c]
          PROVE  Truth(States[c][i].when, s, f) = Truth(States[c][i].when, t, g)
      <4>1. \A conj \in States[c][i].when : \A a \in conj : a.on \in G
        BY <2>4, <2>5 DEF Grounded
      <4>2. AsksAlike(States[c][i].when, f, g, G)
        BY <2>1, <4>1 DEF AsksAlike, StatesAlike
      <4>. QED  BY <4>2, TruthAlike
    <3>. QED  BY <3>1 DEF StateIn
  <2>6. \A d \in G \cap Met(n) : u[n][d] = v[n][d]
    BY <2>1, <2>2, <2>3, <2>5 DEF StatesAlike
  <2>7. DOMAIN u[n] = Met(n) /\ DOMAIN v[n] = Met(n)
    BY <2>2
  <2>8. StatesAlike(u[n], v[n], G)
    BY <2>6, <2>7 DEF StatesAlike
  <2>. QED  BY <2>4, <2>7, <2>8
<1> HIDE DEF P
<1>6. \A n \in 0..N : n \in P
  BY <1>1, <1>4, <1>5, InductionUpTo
<1>7. N \in P
  BY <1>1, <1>6
<1>. QED  BY <1>2, <1>3, <1>7 DEF P

\* OpenTargets are the targets of the open dependencies.
LEMMA OpenTargetsAre ==
    ASSUME NEW c \in Components, NEW st, NEW states
    PROVE  Range(OpenTargets(c, st, states)) =
             UNION {Range(Depends[c][i].on) :
                      i \in {j \in DOMAIN Depends[c] : GuardActive(Depends[c][j], st, states)}}
<1> DEFINE N == Len(Depends[c])
           open(i) == GuardActive(Depends[c][i], st, states)
           on(i) == Depends[c][i].on
           From(n) == UNION {Range(on(i)) : i \in {j \in 1..n : open(j)}}
<1>1. N \in Nat /\ DOMAIN Depends[c] = 1..N /\ \A i \in 1..N : on(i) \in Seq(Components)
  <2>1. Depends[c] \in Seq(Range(Depends[c]))
    BY ModelAssumption
  <2>2. N \in Nat /\ DOMAIN Depends[c] = 1..N
    BY <2>1
  <2>. QED  BY <2>2, ModelAssumption
<1>2. PICK u \in [0..N -> Seq(Components)] :
         /\ u[0] = <<>>
         /\ \A n \in 1..N : u[n] = IF open(n) THEN u[n - 1] \o on(n) ELSE u[n - 1]
         /\ OpenTargets(c, st, states) = u[N]
  BY OpenTargetsSteps
<1> HIDE DEF open, on, N
<1> DEFINE P == {n \in 0..N : Range(u[n]) = From(n)}
<1>3. 0 \in P
  <2>1. Range(<<>>) = {} /\ From(0) = {}
    BY DEF Range
  <2>2. 0 \in 0..N
    BY <1>1
  <2>. QED  BY <1>2, <2>1, <2>2
<1>4. ASSUME NEW n \in 1..N, n - 1 \in P PROVE n \in P
  <2>1. Range(u[n - 1]) = From(n - 1) /\ n \in 0..N /\ n - 1 \in 0..N
    BY <1>1, <1>4
  <2>2. \A i : i \in 1..n <=> i \in 1..(n - 1) \/ i = n
    BY <1>1
  <2>3. From(n) = From(n - 1) \cup (IF open(n) THEN Range(on(n)) ELSE {})
    BY <2>2
  <2> HIDE DEF From
  <2>4. Range(u[n]) = From(n)
    <3>1. CASE open(n)
      <4>1. u[n - 1] \in Seq(Components) /\ on(n) \in Seq(Components)
        BY <1>1, <1>2, <2>1
      <4>2. Range(u[n - 1] \o on(n)) = Range(u[n - 1]) \cup Range(on(n))
        BY <4>1, RangeOfJoined
      <4>. QED  BY <1>2, <2>1, <2>3, <3>1, <4>2
    <3>2. CASE ~open(n)
      BY <1>2, <2>1, <2>3, <3>2
    <3>. QED  BY <3>1, <3>2
  <2>. QED  BY <2>1, <2>4
<1> HIDE DEF P
<1>5. N \in P
  <2>1. \A n \in 0..N : n \in P
    BY <1>1, <1>3, <1>4, InductionUpTo
  <2>. QED  BY <1>1, <2>1
<1>6. Range(OpenTargets(c, st, states)) = From(N)
  BY <1>2, <1>5 DEF P
<1>. QED  BY <1>1, <1>6 DEF open, on

\* The same edges are open.
LEMMA TargetsAlike ==
    ASSUME Grounded, NEW s, NEW t, Alike(s, t, AlwaysInPlay), NEW c \in Components
    PROVE  Targets(c, s) = Targets(c, t)
<1> DEFINE f == DerivedStates(s)
           g == DerivedStates(t)
<1>1. StatesAlike(f, g, AlwaysInPlay)
  BY DerivedAlike
<1> HIDE DEF f, g
<1>2. ASSUME NEW i \in DOMAIN Depends[c]
      PROVE  GuardActive(Depends[c][i], s, f) <=> GuardActive(Depends[c][i], t, g)
  <2>1. \A conj \in Depends[c][i].while : \A a \in conj : a.on \in AlwaysInPlay
    BY DEF Grounded
  <2>2. AsksAlike(Depends[c][i].while, f, g, AlwaysInPlay)
    BY <1>1, <2>1 DEF AsksAlike, StatesAlike
  <2>3. Truth(Depends[c][i].while, s, f) = Truth(Depends[c][i].while, t, g)
    BY <2>2, TruthAlike
  <2>. QED  BY <2>3 DEF GuardActive
<1>3. {j \in DOMAIN Depends[c] : GuardActive(Depends[c][j], s, f)}
        = {j \in DOMAIN Depends[c] : GuardActive(Depends[c][j], t, g)}
  BY <1>2
<1>. QED  BY <1>3, OpenTargetsAre DEF Targets, f, g

\* The walk visits the same components.
LEMMA WalkAlike ==
    ASSUME Grounded, NEW s, NEW t, Alike(s, t, AlwaysInPlay), NEW entry \in Components
    PROVE  Range(BfsWalkFrom(entry, s)) = Range(BfsWalkFrom(entry, t))
<1> DEFINE here == Range(BfsWalkFrom(entry, s))
           there == Range(BfsWalkFrom(entry, t))
<1>1. /\ Closed(here, entry, s) /\ \A C : Closed(C, entry, s) => here \subseteq C
      /\ here \subseteq Components
  BY WalkIsClosure, RangeOf
<1>2. /\ Closed(there, entry, t) /\ \A C : Closed(C, entry, t) => there \subseteq C
      /\ there \subseteq Components
  BY WalkIsClosure, RangeOf
<1> HIDE DEF here, there
<1>3. \A C : C \subseteq Components => (Closed(C, entry, s) <=> Closed(C, entry, t))
  BY TargetsAlike DEF Closed
<1>4. here \subseteq there /\ there \subseteq here
  BY <1>1, <1>2, <1>3
<1>. QED  BY <1>4 DEF here, there

\* What is always in play, every walk from the entry visits.
LEMMA AlwaysVisited ==
    ASSUME Grounded, NEW st
    PROVE  AlwaysInPlay \subseteq Range(BfsWalk(st))
<1> DEFINE walk == Range(BfsWalkFrom(Entry, st))
<1>1. Entry \in Components
  BY DEF Grounded
<1>2. Closed(walk, Entry, st) /\ walk \subseteq Components
  BY <1>1, WalkIsClosure, RangeOf
<1> HIDE DEF walk
<1>3. ASSUME NEW p \in walk, NEW i \in DOMAIN Depends[p], Depends[p][i].while = NoPredicate
      PROVE  Range(Depends[p][i].on) \subseteq walk
  <2>1. GuardActive(Depends[p][i], st, DerivedStates(st)) /\ p \in Components
    BY <1>2, <1>3 DEF GuardActive
  <2>2. Range(Depends[p][i].on) \subseteq Targets(p, st)
    BY <2>1, OpenTargetsAre DEF Targets
  <2>. QED  BY <1>2, <2>2 DEF Closed
<1>4. Entry \in walk
  BY <1>2 DEF Closed
<1>5. AlwaysInPlay \subseteq walk
  BY <1>2, <1>3, <1>4 DEF AlwaysInPlay
<1>. QED  BY <1>5 DEF BfsWalk, walk

\* A component the walk visits leads nowhere else.
LEMMA WalksNest ==
    ASSUME NEW entry \in Components, NEW st, NEW c \in Range(BfsWalkFrom(entry, st))
    PROVE  Range(BfsWalkFrom(c, st)) \subseteq Range(BfsWalkFrom(entry, st))
<1> DEFINE walk == Range(BfsWalkFrom(entry, st))
<1>1. Closed(walk, entry, st) /\ walk \subseteq Components
  BY WalkIsClosure, RangeOf
<1>2. Closed(walk, c, st) /\ c \in Components
  BY <1>1 DEF Closed
<1>. QED  BY <1>2, WalkIsClosure

\* The rule that names a root cause reads nothing but the components in play.
LEMMA SameCause ==
    ASSUME NEW K, PlainModel(K), Grounded, NEW s, NEW t, NEW entry \in Components,
           Alike(s, t, AlwaysInPlay), Alike(s, t, Range(BfsWalkFrom(entry, s)))
    PROVE  RootCauseFrom(entry, s) = RootCauseFrom(entry, t)
<1> DEFINE inPlay == Range(BfsWalkFrom(entry, s))
<1>1. inPlay = Range(BfsWalkFrom(entry, t)) /\ inPlay \subseteq Components
  BY WalkAlike, WalkIsClosure, RangeOf
<1>2. Alike(s, t, inPlay)
  OBVIOUS
<1> HIDE DEF inPlay
<1>3. \A c \in inPlay : /\ Unhealthy(s, c) <=> Unhealthy(t, c)
                        /\ ComponentVerdict(s, c) = ComponentVerdict(t, c)
  <2>. SUFFICES ASSUME NEW c \in inPlay
                PROVE  /\ Unhealthy(s, c) <=> Unhealthy(t, c)
                       /\ ComponentVerdict(s, c) = ComponentVerdict(t, c)
    OBVIOUS
  <2>1. Alike(s, t, {c}) /\ c \in Components
    BY <1>1, <1>2 DEF Alike
  <2>. QED  BY <2>1, VerdictAlike
<1>4. \A x : RedundancyCovered(s, x) <=> RedundancyCovered(t, x)
  BY GroupsAlike
<1>5. Candidates(s, inPlay) = Candidates(t, inPlay)
  BY <1>3, <1>4 DEF Candidates
<1>6. {c \in inPlay : ComponentVerdict(s, c) # "healthy"} = {c \in inPlay : ComponentVerdict(t, c) # "healthy"}
  BY <1>3
<1>7. ActiveEdges(s, inPlay) = ActiveEdges(t, inPlay)
  <2>1. \A c \in inPlay : Targets(c, s) = Targets(c, t)
    BY <1>1, TargetsAlike
  <2>2. \A c \in inPlay : \A x : SatisfiedGroup(s, c, x) <=> SatisfiedGroup(t, c, x)
    BY <1>1, GroupsAlike
  <2>. QED  BY <2>1, <2>2 DEF ActiveEdges, Targets
<1>8. RootCauses(entry, s) = RootCauses(entry, t)
  <2>1. RootCauses(entry, s) =
          Deepest(Causes(Candidates(s, inPlay), ActiveEdges(s, inPlay),
                         {c \in inPlay : ComponentVerdict(s, c) # "healthy"}),
                  Depths(entry, ActiveEdges(s, inPlay)))
    BY DEF RootCauses, inPlay
  <2>2. RootCauses(entry, t) =
          Deepest(Causes(Candidates(t, inPlay), ActiveEdges(t, inPlay),
                         {c \in inPlay : ComponentVerdict(t, c) # "healthy"}),
                  Depths(entry, ActiveEdges(t, inPlay)))
    BY <1>1 DEF RootCauses
  <2>. QED  BY <1>5, <1>6, <1>7, <2>1, <2>2
<1>. QED  BY <1>8 DEF RootCauseFrom

\* Looking a fact up under full visibility is looking at the world.
LEMMA SeenLookup ==
    ASSUME NEW w \in Worlds, NEW c \in Components, NEW k
    PROVE  LookupValue(Seen(w)[c], k) = IF k \in Range(TypeFacts[c]) THEN w[c][k] ELSE NoValue
<1> DEFINE all == Seen(w)[c]
<1>1. all \in Seq(Fact)
  BY SeenType DEF Store
<1>2. \A j \in DOMAIN all : /\ j \in DOMAIN TypeFacts[c] /\ all[j].key = TypeFacts[c][j]
                            /\ all[j].value = w[c][TypeFacts[c][j]]
  BY SeenType
<1>3. \A j \in DOMAIN TypeFacts[c] : j \in DOMAIN all /\ all[j].key = TypeFacts[c][j]
  BY SeenType
<1> HIDE DEF all
<1>4. CASE k \in Range(TypeFacts[c])
  <2>1. PICK j \in DOMAIN all : all[j].key = k
    BY <1>3, <1>4 DEF Range
  <2>2. PICK i \in DOMAIN all : all[i].key = k /\ LookupValue(all, k) = all[i].value
    BY <1>1, <2>1, LookupOfRecorded
  <2>3. LookupValue(all, k) = w[c][k]
    BY <1>2, <2>2
  <2>. QED  BY <1>4, <2>3 DEF all
<1>5. CASE k \notin Range(TypeFacts[c])
  <2>1. \A j \in DOMAIN all : all[j].key # k
    BY <1>2, <1>5 DEF Range
  <2>2. LookupValue(all, k) = NoValue
    BY <2>1 DEF LookupValue, Collected, Positions
  <2>. QED  BY <1>5, <2>2 DEF all
<1>. QED  BY <1>4, <1>5

\* PartialVisibility lists every fact that could not be read.
LEMMA NothingUnread ==
    ASSUME NEW st, PartialVisibility(st) = {}
    PROVE  \A c \in Components : Unreadable(st[c]) = {}
<1>. SUFFICES ASSUME NEW c \in Components, NEW k \in Unreadable(st[c]) PROVE FALSE
  OBVIOUS
<1>1. <<c, k>> \in {c} \X Unreadable(st[c])
  OBVIOUS
<1>. QED  BY <1>1 DEF PartialVisibility

\* A component whose every fact was read, or found missing, answers as it does
\* under full visibility.
LEMMA ReadWhole ==
    ASSUME NEW w \in Worlds, NEW st \in Store, NEW c \in Components,
           \A f \in Range(st[c]) : Answers(w, c, f),
           \A k \in Range(TypeFacts[c]) : Collected(st[c], k),
           Unreadable(st[c]) = {}
    PROVE  Alike(st, Seen(w), {c})
<1> DEFINE was == st[c]
           all == Seen(w)[c]
<1>1. was \in Seq(Fact) /\ Len(was) \in Nat /\ DOMAIN was = 1..Len(was)
  BY DEF Store
<1>2. \A i \in DOMAIN was : Answers(w, c, was[i])
  BY DEF Range
<1>3. \A k : LookupValue(all, k) = IF k \in Range(TypeFacts[c]) THEN w[c][k] ELSE NoValue
  BY SeenLookup
<1>4. /\ \A j \in DOMAIN all :
           /\ j \in DOMAIN TypeFacts[c] /\ all[j].value = w[c][TypeFacts[c][j]]
           /\ all[j].status = IF w[c][TypeFacts[c][j]] = NoValue THEN "not_found" ELSE ""
      /\ \A j \in DOMAIN TypeFacts[c] : j \in DOMAIN all
  BY SeenType
<1> HIDE DEF was, all
<1>5. ASSUME NEW k \in Range(TypeFacts[c])
      PROVE  /\ Latest(was, k).value = w[c][k] /\ LookupValue(was, k) = w[c][k]
             /\ w[c][k] = NoValue => \E i \in DOMAIN was : was[i].status = "not_found"
  <2>1. Collected(was, k) /\ k \in Keys /\ k \notin Unreadable(was)
    <3>1. TypeFacts[c] \in Seq(Keys)
      BY ModelAssumption
    <3>. QED  BY <3>1, RangeOf DEF was
  <2> DEFINE m == Max(Positions(was, k))
  <2>2. m \in DOMAIN was /\ was[m].key = k /\ Latest(was, k) = was[m]
    <3>1. Positions(was, k) \in SUBSET (1..Len(was)) /\ Positions(was, k) # {}
      BY <1>1, <2>1 DEF Positions, Collected
    <3>2. m \in Positions(was, k)
      BY <1>1, <3>1, MaxInSet
    <3>. QED  BY <3>2 DEF Positions, Latest
  <2> HIDE DEF m
  <2>3. was[m].status \notin {"forbidden", "transient"}
    BY <2>1, <2>2 DEF Unreadable
  <2>4. was[m] \in Fact /\ Answers(w, c, was[m])
    BY <1>1, <1>2, <2>2
  <2>5. was[m].status \in {"", "not_found"}
    BY <2>3, <2>4 DEF Fact, Statuses
  <2>6. was[m].value = w[c][k] /\ (w[c][k] = NoValue => was[m].status = "not_found")
    BY <2>2, <2>4, <2>5 DEF Answers, Faithful
  <2>. QED  BY <2>1, <2>2, <2>6 DEF LookupValue
<1>6. ASSUME NEW k PROVE LookupValue(was, k) = LookupValue(all, k)
  <2>1. CASE k \in Range(TypeFacts[c])
    BY <1>3, <1>5, <2>1
  <2>2. CASE k \notin Range(TypeFacts[c])
    <3>1. \A i \in DOMAIN was : was[i].key # k
      BY <1>2, <2>2 DEF Answers, Faithful
    <3>2. LookupValue(was, k) = NoValue
      BY <3>1 DEF LookupValue, Collected, Positions
    <3>. QED  BY <1>3, <2>2, <3>2
  <2>. QED  BY <2>1, <2>2
<1> DEFINE there == \E k \in Range(TypeFacts[c]) : w[c][k] # NoValue
<1>7. Observed(was) <=> there
  <2>1. ASSUME NEW i \in DOMAIN was, was[i].value # NoValue PROVE there
    BY <1>2, <2>1 DEF Answers, Faithful
  <2>2. ASSUME NEW k \in Range(TypeFacts[c]), w[c][k] # NoValue PROVE Observed(was)
    <3>1. LookupValue(was, k) # NoValue
      BY <1>5, <2>2
    <3>. QED  BY <1>1, <3>1, LookupIsRecorded DEF Observed
  <2>. QED  BY <2>1, <2>2 DEF Observed
<1>8. Observed(all) <=> there
  <2>1. ASSUME NEW i \in DOMAIN all, all[i].value # NoValue PROVE there
    BY <1>4, <2>1 DEF Range
  <2>2. ASSUME NEW j \in DOMAIN TypeFacts[c], w[c][TypeFacts[c][j]] # NoValue PROVE Observed(all)
    BY <1>4, <2>2 DEF Observed
  <2>. QED  BY <2>1, <2>2 DEF Observed, Range
<1>9. ASSUME ~there PROVE (\E i \in DOMAIN was : was[i].status = "not_found") <=>
                          (\E i \in DOMAIN all : all[i].status = "not_found")
  <2>1. ASSUME NEW i \in DOMAIN was PROVE \E j \in DOMAIN all : all[j].status = "not_found"
    <3>1. was[i].key \in Range(TypeFacts[c])
      BY <1>2 DEF Answers, Faithful
    <3>2. PICK j \in DOMAIN TypeFacts[c] : TRUE
      BY <3>1 DEF Range
    <3>3. w[c][TypeFacts[c][j]] = NoValue
      BY <1>9 DEF Range
    <3>. QED  BY <1>4, <3>2, <3>3
  <2>2. ASSUME NEW j \in DOMAIN all PROVE \E i \in DOMAIN was : was[i].status = "not_found"
    <3>1. TypeFacts[c][j] \in Range(TypeFacts[c])
      BY <1>4 DEF Range
    <3>. QED  BY <1>5, <1>9, <3>1
  <2>. QED  BY <2>1, <2>2
<1>10. IsAbsent(was) <=> IsAbsent(all)
  BY <1>7, <1>8, <1>9 DEF IsAbsent
<1>. QED  BY <1>6, <1>7, <1>8, <1>10 DEF Alike, was, all

\* Bfs suggests nothing more only when every fact of every component in play
\* is on record.
LEMMA BfsAsksAll ==
    ASSUME Entry \in Components, NEW st, BfsProbes(st) = {},
           NEW c \in Range(BfsWalk(st)), NEW k \in Range(TypeFacts[c])
    PROVE  Collected(st[c], k)
<1> DEFINE walk == BfsWalk(st)
           open == {i \in DOMAIN walk : walk[i] \in Components /\ Uncollected(st, walk[i], Keys) # {}}
<1>1. walk \in Seq(Components) /\ Len(walk) \in Nat /\ DOMAIN walk = 1..Len(walk)
  BY WalkIsClosure DEF BfsWalk
<1>2. PICK i \in DOMAIN walk : walk[i] = c
  BY DEF Range
<1>3. BfsProbes(st) = UNION {FirstUncollected(st, walk[j], Keys) : j \in Firsts(open)}
  BY DEF BfsProbes
<1> HIDE DEF walk
<1>4. ASSUME NEW n \in Nat, NEW S \in SUBSET (1..n), S # {} PROVE Firsts(S) # {}
  BY <1>4, MinInSet DEF Firsts
<1>5. open = {}
  <2>. SUFFICES ASSUME open # {} PROVE FALSE
    OBVIOUS
  <2>1. open \in SUBSET (1..Len(walk))
    BY <1>1
  <2>2. PICK j \in Firsts(open) : TRUE
    <3> HIDE DEF open
    <3>. QED  BY <1>1, <1>4, <2>1
  <2>3. j \in open
    BY DEF Firsts
  <2>4. walk[j] \in Components /\ Uncollected(st, walk[j], Keys) # {}
    BY <2>3
  <2> DEFINE d == walk[j]
  <2>5. Len(TypeFacts[d]) \in Nat /\ Uncollected(st, d, Keys) \in SUBSET (1..Len(TypeFacts[d]))
    <3>1. TypeFacts[d] \in Seq(Keys)
      BY <2>4, ModelAssumption
    <3>. QED  BY <3>1 DEF Uncollected
  <2>6. Firsts(Uncollected(st, d, Keys)) # {}
    BY <1>4, <2>4, <2>5
  <2>7. FirstUncollected(st, d, Keys) # {}
    BY <2>6 DEF FirstUncollected
  <2>. QED  BY <1>3, <2>2, <2>7
<1>6. c \in Components /\ TypeFacts[c] \in Seq(Keys)
  <2>1. c \in Components
    BY <1>1, <1>2
  <2>. QED  BY <2>1, ModelAssumption
<1>7. PICK j \in DOMAIN TypeFacts[c] : TypeFacts[c][j] = k
  BY DEF Range
<1>8. j \notin Uncollected(st, c, Keys) /\ k \in Keys
  BY <1>2, <1>5, <1>6, <1>7
<1>. QED  BY <1>7, <1>8 DEF Uncollected

\* Once bfs has nothing more to ask and every answer was a value or not found,
\* the cause it names is the one full visibility names.
LEMMA FullReadingNamesTheCause ==
    ASSUME NEW K, PlainModel(K), Grounded, NEW w \in Worlds, NEW st \in Store,
           BfsProbes(st) = {}, NEW entry \in Range(BfsWalk(st)),
           \A c \in Range(BfsWalk(st)) : /\ Unreadable(st[c]) = {}
                                         /\ \A f \in Range(st[c]) : Answers(w, c, f)
    PROVE  RootCauseFrom(entry, st) = RootCauseFrom(entry, Seen(w))
<1> DEFINE walk == Range(BfsWalk(st))
           all == Seen(w)
<1>1. Entry \in Components
  BY DEF Grounded
<1>2. walk \subseteq Components /\ entry \in Components
  BY <1>1, WalkIsClosure, RangeOf DEF BfsWalk
<1>3. Range(BfsWalkFrom(entry, st)) \subseteq walk
  BY <1>1, WalksNest DEF BfsWalk
<1>4. AlwaysInPlay \subseteq walk
  BY AlwaysVisited
<1>5. \A c \in walk : Alike(st, all, {c})
  BY <1>1, <1>2, BfsAsksAll, ReadWhole
<1> HIDE DEF walk, all
<1>6. Alike(st, all, AlwaysInPlay) /\ Alike(st, all, Range(BfsWalkFrom(entry, st)))
  BY <1>3, <1>4, <1>5 DEF Alike
<1>. QED  BY <1>2, <1>6, SameCause DEF all

=============================================================================
