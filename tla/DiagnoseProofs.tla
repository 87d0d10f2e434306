--------------------------- MODULE DiagnoseProofs ---------------------------
(***************************************************************************)
(* Theorems about the autopilot, for every model, world and bound: its     *)
(* types, its budget, what more visibility can and cannot change, and that *)
(* occam reads off the failure graph what it would read off the listing.   *)
(***************************************************************************)
EXTENDS Diagnose, HealthProofs, EnumerationGraphProofs

-----------------------------------------------------------------------------
(* The inductive invariant.                                                *)

\* What is being asked is within budget, belongs to its component's type and
\* is not on record yet; only generic components are asked of the operator.
Asking ==
    /\ pc \in {"probing", "prompting"} =>
          /\ probesRun < MaxProbes
          /\ pending.fact \in Range(TypeFacts[pending.on])
          /\ ~Collected(store[pending.on], pending.fact)
    /\ pc = "prompting" => pending.on \in Generic

\* The steps that record something.
Records == ProbeReturns \/ OperatorAnswers \/ OperatorSkips \/ StdinCloses

\* A component, its facts and the kinds of failure a probe records have
\* types; the one question a generic component has is the operator's.
LEMMA ConstantTypes ==
    /\ \A c \in Components : TypeFacts[c] \in Seq(Keys)
    /\ \A c \in Generic : c \in Components /\ TypeFacts[c] = <<OperatorFact>>
    /\ OperatorFact \in Keys /\ SkipMark \in Keys /\ OperatorFact # SkipMark
    /\ True \in Values
    /\ \A w \in Worlds : \A c \in Components : \A k \in Keys : w[c][k] \in Values \cup {NoValue}
    /\ \A w \in Worlds : \A c \in Generic : w[c][OperatorFact] # NoValue
    /\ Failures \subseteq {"forbidden", "transient"}
  BY ModelAssumption, DiagnoseAssumption, ProbingAssumption

\* The bounds are numbers, and NoProbe is no probe.
LEMMA BoundTypes ==
    /\ MaxProbes \in Nat /\ MaxSessions \in Nat /\ MaxAdded \in Nat
    /\ NoProbe \notin Probes
    /\ <<>> \in Seq(Probes) /\ NoReport.kind = "none"
  BY DiagnoseAssumption, ProbingAssumption DEF NoProbe, Probes, NoReport

\* The marker a skipped question leaves.
Marks(c, f) == c \in Generic /\ f.key = SkipMark /\ f.status = ""

\* A recording step appends the answer to the question in hand, a skip after
\* its marker.
LEMMA RecordingShape ==
    ASSUME TypeOK, Asking, Records
    PROVE  /\ pending \in Probes /\ pc \in {"probing", "prompting"}
           /\ \E f \in Fact :
                 /\ f.key = pending.fact /\ Faithful(world, pending.on, f)
                 /\ \/ Answers(world, pending.on, f) /\ store' = Appended(store, pending.on, f)
                    \/ \E mark \in Fact :
                          /\ Marks(pending.on, mark)
                          /\ store' = Appended(Appended(store, pending.on, mark), pending.on, f)
<1>1. pending \in Probes /\ pc \in {"probing", "prompting"}
  BY DEF TypeOK, Records, ProbeReturns, OperatorAnswers, OperatorSkips, StdinCloses
<1>. DEFINE c == pending.on
            v == world[c][pending.fact]
<1>2. /\ c \in Components /\ pending.fact \in Keys /\ v \in Values \cup {NoValue}
      /\ pending.fact \in Range(TypeFacts[c])
  <2>1. c \in Components /\ pending.fact \in Keys /\ world \in Worlds
    BY <1>1 DEF TypeOK, Probes
  <2>. QED  BY <1>1, <2>1, ConstantTypes DEF Asking
<1>3. ASSUME NEW w \in Values \cup {NoValue}, NEW status \in Statuses, NEW by \in Collectors,
             w # NoValue => w = v, status = "not_found" => v = NoValue
      PROVE  /\ NewFact(pending.fact, w, status, by) \in Fact
             /\ NewFact(pending.fact, w, status, by).key = pending.fact
             /\ Faithful(world, c, NewFact(pending.fact, w, status, by))
  BY <1>2, <1>3 DEF NewFact, Fact, Faithful
<1>4. CASE ProbeReturns
  <2>1. PICK f \in Outcomes(world, pending) : store' = Appended(store, c, f)
    BY <1>4 DEF ProbeReturns
  <2>2. f \in Fact /\ f.key = pending.fact /\ Answers(world, c, f)
    <3>1. world \in Worlds /\ pending \in Probes /\ pending.fact \in Range(TypeFacts[pending.on])
      BY <1>1, <1>2 DEF TypeOK
    <3>. QED  BY <2>1, <3>1, OutcomeIsAnswer
  <2>. QED  BY <1>1, <2>1, <2>2 DEF Answers
<1>5. ASSUME pc = "prompting"
      PROVE  c \in Generic /\ pending.fact = OperatorFact
  BY <1>1, <1>5, ConstantTypes DEF Asking, Range
<1>6. CASE OperatorAnswers
  <2>. DEFINE f == NewFact(pending.fact, v, "", "operator")
  <2>1. f \in Fact /\ f.key = pending.fact /\ Faithful(world, c, f)
    BY <1>2, <1>3 DEF Statuses, Collectors
  <2>0. Answers(world, c, f)
    <3>1. c \in Generic /\ v # NoValue
      BY <1>5, <1>6, ConstantTypes DEF OperatorAnswers, TypeOK
    <3>. QED  BY <2>1, <3>1 DEF NewFact, Answers
  <2>2. store' = Appended(store, c, f)
    BY <1>5, <1>6 DEF OperatorAnswers
  <2>. HIDE DEF f
  <2>. QED  BY <1>1, <2>0, <2>1, <2>2
<1>7. CASE OperatorSkips \/ StdinCloses
  <2>. DEFINE mark == NewFact(SkipMark, True, "", "operator")
              f    == NewFact(pending.fact, NoValue, "", "operator")
  <2>1. f \in Fact /\ f.key = pending.fact /\ Faithful(world, c, f)
    BY <1>2, <1>3 DEF Statuses, Collectors
  <2>2. mark \in Fact /\ Marks(c, mark)
    BY <1>5, <1>7, ConstantTypes DEF NewFact, Fact, Marks, Statuses, Collectors,
                                     OperatorSkips, StdinCloses
  <2>3. store' = Appended(Appended(store, c, mark), c, f)
    BY <1>5, <1>7 DEF OperatorSkips, StdinCloses, Skipped
  <2>. HIDE DEF f, mark
  <2>. QED  BY <1>1, <2>1, <2>2, <2>3
<1>. QED  BY <1>4, <1>6, <1>7 DEF Records

\* After a recording step the question is answered, and everything recorded
\* before stays.
LEMMA RecordingGrows ==
    ASSUME TypeOK, Asking, Records
    PROVE  /\ pending \in Probes /\ pc \in {"probing", "prompting"}
           /\ store' \in Store
           /\ \A c \in Components : \A k : Collected(store[c], k) => Collected(store'[c], k)
           /\ Collected(store'[pending.on], pending.fact)
<1>1. pending \in Probes /\ pc \in {"probing", "prompting"}
  BY RecordingShape
<1>. DEFINE c == pending.on
<1>2. store \in Store /\ c \in Components
  BY <1>1 DEF TypeOK, Probes
<1>3. ASSUME NEW st \in Store, NEW f \in Fact
      PROVE  /\ Appended(st, c, f) \in Store
             /\ \A d \in Components : \A k : Collected(st[d], k) => Collected(Appended(st, c, f)[d], k)
             /\ Collected(Appended(st, c, f)[c], f.key)
  BY <1>2, AppendedIsStore
<1>4. PICK f \in Fact :
        /\ f.key = pending.fact
        /\ \/ store' = Appended(store, c, f)
           \/ \E mark \in Fact : store' = Appended(Appended(store, c, mark), c, f)
  BY RecordingShape
<1>5. CASE store' = Appended(store, c, f)
  BY <1>1, <1>2, <1>3, <1>4, <1>5
<1>6. ASSUME NEW mark \in Fact, store' = Appended(Appended(store, c, mark), c, f)
      PROVE  /\ store' \in Store
             /\ \A d \in Components : \A k : Collected(store[d], k) => Collected(store'[d], k)
             /\ Collected(store'[c], pending.fact)
  <2>. DEFINE mid == Appended(store, c, mark)
  <2>1. mid \in Store /\ \A d \in Components : \A k : Collected(store[d], k) => Collected(mid[d], k)
    BY <1>2, <1>3
  <2>2. store' = Appended(mid, c, f)
    BY <1>6
  <2>. HIDE DEF mid
  <2>. QED  BY <1>3, <1>4, <2>1, <2>2
<1>. QED  BY <1>1, <1>4, <1>5, <1>6

-----------------------------------------------------------------------------
(* Types.                                                                  *)

\* The part of the invariant types rest on.
TInv == TypeOK /\ Asking

\* A run begins with the types it keeps,
LEMMA InitTypes == Init => TInv
<1>. SUFFICES ASSUME Init  PROVE TInv
  OBVIOUS
<1>1. disk \in Store /\ store \in Store
  BY DEF Init, EmptyStore, Store
<1>2. expired \in BOOLEAN
  BY DEF Init
<1>. QED
  BY <1>1, <1>2, BoundTypes DEF Init, TInv, TypeOK, Asking, Headlines

\* A stop puts the probe in hand down.
LEMMA StopTypes ==
    ASSUME TInv, NEW kind \in Headlines, NEW root, NEW chain,
           Stop(Report(kind, root, chain)),
           store' \in Store, disk' \in Store, trail' \in Seq(Probes)
    PROVE  TInv'
  BY DEF TInv, TypeOK, Asking, Stop, Report

\* and every step keeps them.
LEMMA NextTypes == TInv /\ [Next]_vars => TInv'
<1>. SUFFICES ASSUME TInv, [Next]_vars  PROVE TInv'
  OBVIOUS
<1>. USE DEF TInv
<1>1. CASE Start
  <2>1. store' \in Store
    <3>1. EmptyStore \in Store
      BY DEF EmptyStore, Store
    <3>. QED  BY <1>1, <3>1 DEF Start, CurrentStore, TypeOK
  <2>2. report'.kind \in Headlines /\ pc' \in {"stopped", "deciding"}
    BY <1>1, BoundTypes DEF Start, Report, Headlines
  <2>3. /\ sessions' \in 0..MaxSessions
        /\ pending' = NoProbe /\ trail' = <<>> /\ probesRun' = 0
        /\ options' \in Options /\ UNCHANGED <<world, disk, added>>
    BY <1>1, BoundTypes DEF Start, TypeOK
  <2>4. expired' \in BOOLEAN
    BY <1>1 DEF Start
  <2>. QED  BY <2>1, <2>2, <2>3, <2>4, BoundTypes DEF TypeOK, Asking
<1>2. CASE Decide
  <2>1. CASE Suggest
    <3>1. PICK p \in Suggested(store, options.scenarios) :
            pending' = p /\ pc' = IF p.on \in Generic THEN "prompting" ELSE "probing"
      BY <2>1 DEF Suggest
    <3>2. /\ p \in Probes /\ p.fact \in Range(TypeFacts[p.on])
          /\ ~Collected(store[p.on], p.fact)
      BY SuggestedIsOpen
    <3>3. probesRun < MaxProbes
          /\ UNCHANGED <<world, options, disk, store, trail, probesRun, expired, report, sessions, added>>
      BY <2>1 DEF Suggest, Deciding
    <3>. QED  BY <3>1, <3>2, <3>3, BoundTypes DEF TypeOK, Asking
  <2>2. ASSUME NEW kind \in Headlines, NEW root, NEW chain,
               Stop(Report(kind, root, chain)), UNCHANGED <<disk, store, trail>>
        PROVE  TInv'
    BY <2>2, StopTypes DEF TypeOK
  <2>3. CASE OutOfBudget \/ OutOfTime \/ GetStuck \/ RefuseWrite
    BY <2>2, <2>3 DEF OutOfBudget, OutOfTime, GetStuck, RefuseWrite, Headlines
  <2>4. CASE ConcludeOccam \/ ConcludeBfs
    <3>1. \A root : Headline(root) \in Headlines
      BY DEF Headline, Headlines
    <3>. QED  BY <2>2, <2>4, <3>1 DEF ConcludeOccam, ConcludeBfs
  <2>. QED  BY <1>2, <2>1, <2>3, <2>4 DEF Decide
<1>3. CASE Records
  <2>1. store' \in Store /\ pending \in Probes
    BY <1>3, RecordingGrows
  <2>2. Persist
    BY <1>3 DEF Records, ProbeReturns, OperatorAnswers, OperatorSkips, StdinCloses, Recorded
  <2>3. disk' \in Store
    BY <2>1, <2>2 DEF Persist, TypeOK
  <2>4. trail' \in Seq(Probes)
    <3>1. trail' = Append(trail, pending)
      BY <1>3 DEF Records, ProbeReturns, OperatorAnswers, OperatorSkips, StdinCloses, Recorded
    <3>2. trail \in Seq(Probes)
      BY DEF TypeOK
    <3>. QED  BY <2>1, <3>1, <3>2, AppendProperties
  <2>5. CASE StdinCloses
    BY <2>1, <2>3, <2>4, <2>5, StopTypes DEF StdinCloses, Headlines
  <2>6. CASE Recorded
    <3>1. probesRun < MaxProbes
      BY <1>3 DEF Asking, Records, ProbeReturns, OperatorAnswers, OperatorSkips, StdinCloses
    <3>. QED  BY <2>1, <2>3, <2>4, <2>6, <3>1, BoundTypes DEF Recorded, TypeOK, Asking
  <2>. QED  BY <1>3, <2>5, <2>6 DEF Records, ProbeReturns, OperatorAnswers, OperatorSkips
<1>4. CASE ProbeFails
  <2>1. disk' \in Store
    BY <1>4 DEF ProbeFails, Persist, TypeOK
  <2>. QED  BY <1>4, <2>1, StopTypes DEF ProbeFails, TypeOK, Headlines
<1>5. CASE OperatorMistypes
  BY <1>5, StopTypes DEF OperatorMistypes, TypeOK, Headlines
<1>6. CASE DeadlinePasses
  BY <1>6 DEF DeadlinePasses, TypeOK, Asking
<1>7. CASE Crash
  <2>1. store' \in Store
    BY <1>7 DEF Crash, EmptyStore, Store
  <2>2. /\ pc' = "idle" /\ pending' = NoProbe
        /\ trail' = <<>> /\ probesRun' = 0 /\ report' = NoReport
        /\ UNCHANGED <<world, options, disk, sessions, added>>
    BY <1>7 DEF Crash
  <2>3. expired' \in BOOLEAN
    BY <1>7 DEF Crash
  <2>. QED  BY <2>1, <2>2, <2>3, BoundTypes DEF TypeOK, Asking, Headlines
<1>8. CASE AddsFact
  <2>0. PICK c \in Components : \E k \in Range(TypeFacts[c]) : AddFact(c, k)
    BY <1>8 DEF AddsFact
  <2>1. PICK k \in Range(TypeFacts[c]) : AddFact(c, k)
    BY <2>0
  <2>2. k \in Keys /\ world[c][k] \in Values \cup {NoValue}
    BY ConstantTypes DEF TypeOK, Range
  <2>. DEFINE f == NewFact(k, world[c][k], "", "manual")
  <2>3. f \in Fact
    BY <2>2 DEF NewFact, Fact, Statuses, Collectors
  <2>4. disk' \in Store
    <3>1. disk \in Store /\ disk' = Appended(disk, c, f)
      BY <2>1 DEF AddFact, TypeOK
    <3>. HIDE DEF f
    <3>. QED  BY <2>3, <3>1, AppendedIsStore
  <2>5. added' \in 0..MaxAdded
    <3>1. added < MaxAdded /\ added' = added + 1
      BY <2>1 DEF AddFact
    <3>. QED  BY <3>1, BoundTypes DEF TypeOK
  <2>6. UNCHANGED <<world, options, store, pc, pending, trail, probesRun, expired, report, sessions>>
    BY <2>1 DEF AddFact
  <2>. QED  BY <2>4, <2>5, <2>6 DEF TypeOK, Asking
<1>9. CASE UNCHANGED vars
  BY <1>9 DEF vars, TypeOK, Asking
<1>. QED
  BY <1>1, <1>2, <1>3, <1>4, <1>5, <1>6, <1>7, <1>8, <1>9 DEF Next, Run, Prompt, Records

\* Every variable keeps its type, the budget its bound, and there is a probe in
\* hand exactly while one is run or asked about.
THEOREM TypeCorrect == Spec => []TypeOK
<1>1. TInv => TypeOK
  BY DEF TInv
<1>. QED  BY <1>1, InitTypes, NextTypes, PTL DEF Spec

-----------------------------------------------------------------------------
(* The budget.                                                             *)

BInv == TInv /\ BudgetBuysFacts

\* A recording step adds to the trail a question that is not in it, and the
\* answer to the store.
LEMMA RecordingBuys ==
    ASSUME BInv, Records
    PROVE  /\ Len(trail') = Len(trail) + 1 /\ Len(trail') <= MaxProbes
           /\ probesRun = Len(trail)
           /\ \A i, j \in DOMAIN trail' : trail'[i] = trail'[j] => i = j
           /\ \A i \in DOMAIN trail' : Collected(store'[trail'[i].on], trail'[i].fact)
<1>1. /\ pending \in Probes /\ pc \in {"probing", "prompting"}
      /\ \A c \in Components : \A k : Collected(store[c], k) => Collected(store'[c], k)
      /\ Collected(store'[pending.on], pending.fact)
  BY RecordingGrows DEF BInv, TInv
<1>2. trail' = Append(trail, pending)
  BY DEF Records, ProbeReturns, OperatorAnswers, OperatorSkips, StdinCloses, Recorded
<1>3. /\ trail \in Seq(Probes) /\ probesRun \in Nat /\ MaxProbes \in Nat
      /\ probesRun < MaxProbes /\ ~Collected(store[pending.on], pending.fact)
  BY <1>1, BoundTypes DEF BInv, TInv, TypeOK, Asking
<1>4. /\ probesRun = Len(trail)
      /\ \A i, j \in DOMAIN trail : trail[i] = trail[j] => i = j
      /\ \A i \in DOMAIN trail : Collected(store[trail[i].on], trail[i].fact)
  BY <1>1 DEF BInv, BudgetBuysFacts
<1>. DEFINE n == Len(trail)
<1>5. /\ n \in Nat /\ DOMAIN trail = 1..n /\ DOMAIN trail' = 1..(n + 1)
      /\ \A i \in 1..n : trail'[i] = trail[i] /\ trail[i] \in Probes
      /\ trail'[n + 1] = pending /\ Len(trail') = n + 1
  BY <1>1, <1>2, <1>3, AppendProperties
<1>6. \A i \in 1..n : trail[i] # pending
  BY <1>3, <1>4, <1>5
<1>7. \A i, j \in 1..(n + 1) : trail'[i] = trail'[j] => i = j
  <2>. SUFFICES ASSUME NEW i \in 1..(n + 1), NEW j \in 1..(n + 1), trail'[i] = trail'[j]
                PROVE  i = j
    OBVIOUS
  <2>1. CASE i \in 1..n /\ j \in 1..n
    BY <1>4, <1>5, <2>1
  <2>2. CASE i = n + 1 /\ j \in 1..n
    BY <1>5, <1>6, <2>2
  <2>3. CASE i \in 1..n /\ j = n + 1
    BY <1>5, <1>6, <2>3
  <2>. QED  BY <1>5, <2>1, <2>2, <2>3
<1>8. ASSUME NEW i \in 1..(n + 1)
      PROVE  Collected(store'[trail'[i].on], trail'[i].fact)
  <2>1. CASE i \in 1..n
    <3>1. trail[i].on \in Components
      BY <1>5, <2>1 DEF Probes
    <3>. QED  BY <1>1, <1>4, <1>5, <2>1, <3>1
  <2>2. CASE i = n + 1
    BY <1>1, <1>5, <2>2
  <2>. QED  BY <1>5, <2>1, <2>2
<1>. QED  BY <1>3, <1>4, <1>5, <1>7, <1>8

\* No step spends a unit of budget that leaves no fact, or asks twice.
LEMMA NextBudget == BInv /\ [Next]_vars => BInv'
<1>. SUFFICES ASSUME BInv, [Next]_vars  PROVE BInv'
  OBVIOUS
<1>1. TInv'
  BY NextTypes DEF BInv
<1>2. SUFFICES BudgetBuysFacts'
  BY <1>1 DEF BInv
<1>3. CASE UNCHANGED <<store, trail, probesRun>> /\ (pc' # "stopped" => pc # "stopped")
  BY <1>3 DEF BInv, BudgetBuysFacts
<1>4. CASE trail' = <<>> /\ probesRun' = 0
  BY <1>4, BoundTypes DEF BudgetBuysFacts
<1>5. CASE Records
  <2>1. /\ Len(trail') = Len(trail) + 1 /\ Len(trail') <= MaxProbes
        /\ probesRun = Len(trail)
        /\ \A i, j \in DOMAIN trail' : trail'[i] = trail'[j] => i = j
        /\ \A i \in DOMAIN trail' : Collected(store'[trail'[i].on], trail'[i].fact)
    BY <1>5, RecordingBuys
  <2>2. pc' = "stopped" \/ probesRun' = probesRun + 1
    BY <1>5 DEF Records, ProbeReturns, OperatorAnswers, OperatorSkips, StdinCloses, Recorded, Stop
  <2>. QED  BY <2>1, <2>2 DEF BudgetBuysFacts
<1>6. CASE Start \/ Crash
  BY <1>4, <1>6 DEF Start, Crash
<1>7. CASE Decide \/ ProbeFails \/ OperatorMistypes
  <2>1. UNCHANGED <<store, trail, probesRun>> /\ pc # "stopped"
    BY <1>7 DEF Decide, OutOfBudget, OutOfTime, ConcludeOccam, GetStuck, ConcludeBfs, Suggest,
                RefuseWrite, ProbeFails, OperatorMistypes, Stop, Deciding
  <2>. QED  BY <1>3, <2>1
<1>8. CASE DeadlinePasses \/ AddsFact \/ UNCHANGED vars
  BY <1>3, <1>8 DEF DeadlinePasses, AddsFact, AddFact, vars
<1>. QED  BY <1>5, <1>6, <1>7, <1>8 DEF Next, Run, Prompt, Records

\* Every unit of the budget buys a fact that was not on record, in every model
\* and world: the loop never repeats itself (BudgetBuysFacts).
THEOREM BudgetCorrect == Spec => []BudgetBuysFacts
<1>1. Init => BInv
  <2>. SUFFICES ASSUME Init  PROVE BudgetBuysFacts
    BY InitTypes DEF BInv
  <2>. QED  BY BoundTypes DEF Init, BudgetBuysFacts
<1>2. BInv => BudgetBuysFacts
  BY DEF BInv
<1>. QED  BY <1>1, <1>2, NextBudget, PTL DEF Spec

-----------------------------------------------------------------------------
(* Prompts.                                                                *)

\* Unattended, every question for the operator was answered before the loop.
PInv ==
    /\ TInv
    /\ ~options.terminal => /\ pc # "prompting"
                            /\ pc \in {"deciding", "probing"} => ~Unseeded(store)

\* No step prompts without a terminal.
LEMMA NextPrompts == PInv /\ [Next]_vars => PInv'
<1>. SUFFICES ASSUME PInv, [Next]_vars, ~options'.terminal
              PROVE  /\ pc' # "prompting"
                     /\ pc' \in {"deciding", "probing"} => ~Unseeded(store')
  BY NextTypes DEF PInv
<1>1. CASE Start
  BY <1>1 DEF Start
<1>0. Start \/ ~options.terminal
  BY DEF Next, Decide, OutOfBudget, OutOfTime, ConcludeOccam, GetStuck, ConcludeBfs, Suggest, RefuseWrite,
         Run, ProbeReturns, ProbeFails, Prompt, OperatorAnswers, OperatorSkips, StdinCloses,
         OperatorMistypes, Recorded, Stop, DeadlinePasses, Crash, AddsFact, AddFact, vars
<1>2. CASE Suggest
  <2>1. PICK p \in Suggested(store, options.scenarios) :
          pending' = p /\ pc' = IF p.on \in Generic THEN "prompting" ELSE "probing"
    BY <1>2 DEF Suggest
  <2>2. ~Unseeded(store) /\ store' = store
    BY <1>0, <1>1, <1>2 DEF Suggest, Deciding, PInv
  <2>3. p.on \notin Generic
    <3>1. p.fact \in Range(TypeFacts[p.on]) /\ ~Collected(store[p.on], p.fact)
      BY SuggestedIsOpen
    <3>. QED  BY <2>2, <3>1, ConstantTypes DEF Unseeded, Range
  <2>. QED  BY <2>1, <2>2, <2>3
<1>3. CASE Records
  <2>1. /\ pc \in {"probing", "prompting"}
        /\ \A c \in Components : \A k : Collected(store[c], k) => Collected(store'[c], k)
    BY <1>3, RecordingGrows DEF PInv, TInv
  <2>2. ~Unseeded(store')
    <3>1. ~options.terminal
      BY <1>0, <2>1 DEF Start
    <3>. QED  BY <2>1, <3>1, ConstantTypes DEF PInv, Unseeded
  <2>3. pc' # "prompting"
    BY <1>3 DEF Records, ProbeReturns, OperatorAnswers, OperatorSkips, StdinCloses, Recorded, Stop
  <2>. QED  BY <2>2, <2>3
<1>4. CASE pc' \in {"idle", "stopped"}
  BY <1>4
<1>5. CASE UNCHANGED <<options, pc, store>>
  BY <1>5 DEF PInv
<1>6. CASE OutOfBudget \/ OutOfTime \/ ConcludeOccam \/ GetStuck \/ ConcludeBfs \/ RefuseWrite
             \/ ProbeFails \/ OperatorMistypes \/ Crash
  BY <1>4, <1>6 DEF OutOfBudget, OutOfTime, ConcludeOccam, GetStuck, ConcludeBfs, RefuseWrite,
                    ProbeFails, OperatorMistypes, Stop, Crash
<1>7. CASE DeadlinePasses \/ AddsFact \/ UNCHANGED vars
  BY <1>5, <1>7 DEF DeadlinePasses, AddsFact, AddFact, vars
<1>. QED
  BY <1>1, <1>2, <1>3, <1>6, <1>7 DEF Next, Decide, Run, Prompt, Records

\* The check before the loop (modelUsesUnseededGenericComponent) covers every
\* question the loop could come to, in every model: nobody is asked anything
\* when stdin is not a terminal.
THEOREM UnattendedIsQuiet == Spec => []PromptsAreAttended
<1>1. Init => PInv
  BY InitTypes DEF Init, PInv
<1>2. PInv => PromptsAreAttended
  BY DEF PInv, PromptsAreAttended
<1>. QED  BY <1>1, <1>2, NextPrompts, PTL DEF Spec

-----------------------------------------------------------------------------
(* The state file: diagnose and what is on disk, as long as no other       *)
(* process writes the file while a session runs (~MayAddLive: a fact added *)
(* beside it may be overwritten).                                          *)

(* Prefixes.                                                               *)

\* A list is a prefix of itself,
LEMMA PrefixReflexive ==
    ASSUME NEW S, NEW s \in Seq(S)
    PROVE  IsPrefix(s, s)
  BY DEF IsPrefix

\* and a prefix of a list stays one when the list grows.
LEMMA PrefixAppend ==
    ASSUME NEW S, NEW s \in Seq(S), NEW t \in Seq(S), NEW e \in S, IsPrefix(s, t)
    PROVE  IsPrefix(s, Append(t, e))
<1>1. /\ Append(t, e) \in Seq(S) /\ Len(Append(t, e)) = Len(t) + 1
      /\ \A i \in 1..Len(t) : Append(t, e)[i] = t[i]
  BY AppendProperties
<1>2. Len(s) \in Nat /\ Len(t) \in Nat /\ Len(s) <= Len(t)
  BY DEF IsPrefix
<1>3. SubSeq(Append(t, e), 1, Len(s)) = SubSeq(t, 1, Len(s))
  BY <1>1, <1>2
<1>. QED  BY <1>1, <1>2, <1>3 DEF IsPrefix

\* Everything a holds, b holds, in the same order.
Within(a, b) == \A c \in Components : IsPrefix(a[c], b[c])

\* A store holds all it holds.
LEMMA WithinItself ==
    ASSUME NEW a \in Store
    PROVE  Within(a, a)
<1>1. \A c \in Components : a[c] \in Seq(Fact)
  BY DEF Store
<1>. QED  BY <1>1, PrefixReflexive DEF Within

\* Store.Append extends the list of one component and touches no other.
LEMMA AppendedKeeps ==
    ASSUME NEW a \in Store, NEW b \in Store, NEW c \in Components, NEW f \in Fact, Within(a, b)
    PROVE  Within(a, Appended(b, c, f))
<1>1. ASSUME NEW x \in Components
      PROVE  IsPrefix(a[x], Appended(b, c, f)[x])
  <2>1. a[x] \in Seq(Fact) /\ b[x] \in Seq(Fact) /\ IsPrefix(a[x], b[x])
    BY DEF Store, Within
  <2>2. CASE x = c
    <3>1. IsPrefix(a[x], Append(b[x], f))
      BY <2>1, PrefixAppend
    <3>2. Appended(b, c, f)[x] = Append(b[x], f)
      BY <2>2, AppendedIsStore
    <3>. QED  BY <3>1, <3>2
  <2>3. CASE x # c
    <3>1. Appended(b, c, f)[x] = b[x]
      BY <2>3, AppendedIsStore
    <3>. QED  BY <2>1, <3>1
  <2>. QED  BY <2>2, <2>3
<1>. QED  BY <1>1 DEF Within

\* A key recorded in a prefix is recorded.
LEMMA CollectedInPrefix ==
    ASSUME NEW s \in Seq(Fact), NEW t \in Seq(Fact), NEW k, IsPrefix(s, t), Collected(s, k)
    PROVE  Collected(t, k)
<1>1. PICK i \in DOMAIN s : s[i].key = k
  BY DEF Collected, Positions
<1>2. i \in DOMAIN t /\ i \in 1..Len(s) /\ Len(s) \in Nat /\ Len(s) <= Len(t)
  BY <1>1 DEF IsPrefix
<1>3. SubSeq(s, 1, Len(s))[i] = s[i] /\ SubSeq(t, 1, Len(s))[i] = t[i]
  BY <1>1, <1>2
<1>4. t[i] = s[i]
  BY <1>3 DEF IsPrefix
<1>. QED  BY <1>1, <1>2, <1>4 DEF Collected, Positions

-----------------------------------------------------------------------------
(* The invariant.                                                          *)

DInv == TInv /\ DiskIsKnown

Running == pc \in {"deciding", "probing", "prompting"}

\* A recording step keeps what was there.
LEMMA RecordingKeeps ==
    ASSUME TInv, Records, NEW a \in Store, Within(a, store)
    PROVE  Within(a, store')
<1>1. pending \in Probes /\ store \in Store /\ pending.on \in Components
  BY RecordingShape DEF TInv, TypeOK, Probes
<1>. DEFINE c == pending.on
<1>2. PICK f \in Fact :
        \/ store' = Appended(store, c, f)
        \/ \E mark \in Fact : store' = Appended(Appended(store, c, mark), c, f)
  BY RecordingShape DEF TInv
<1>3. CASE store' = Appended(store, c, f)
  BY <1>1, <1>3, AppendedKeeps
<1>4. ASSUME NEW mark \in Fact, store' = Appended(Appended(store, c, mark), c, f)
      PROVE  Within(a, store')
  <2>. DEFINE mid == Appended(store, c, mark)
  <2>1. mid \in Store /\ Within(a, mid)
    BY <1>1, AppendedIsStore, AppendedKeeps
  <2>2. store' = Appended(mid, c, f)
    BY <1>4
  <2>. HIDE DEF mid
  <2>. QED  BY <1>1, <2>1, <2>2, AppendedKeeps
<1>. QED  BY <1>2, <1>3, <1>4

\* A save writes what the session holds, which includes what was on disk.
LEMMA NextDisk ==
    ASSUME ~MayAddLive, DInv, [Next]_vars
    PROVE  DiskIsKnown' /\ Within(disk, disk')
<1>. USE DEF DInv
<1>1. /\ TInv' /\ disk \in Store /\ store \in Store /\ store' \in Store /\ disk' \in Store
      /\ Within(disk, disk)
  BY NextTypes, WithinItself DEF TInv, TypeOK
<1>2. Incident /\ Running => Within(disk, store)
  BY DEF DiskIsKnown, Running, Within
<1>3. SUFFICES (Incident /\ Running' => Within(disk', store')) /\ Within(disk, disk')
  BY DEF DiskIsKnown, Running, Within
<1>4. CASE Start
  <2>1. disk' = disk /\ store' = CurrentStore
    BY <1>4 DEF Start
  <2>. QED  BY <1>1, <2>1 DEF CurrentStore
<1>5. CASE Decide \/ DeadlinePasses \/ OperatorMistypes
  <2>1. UNCHANGED <<disk, store>> /\ Running
    BY <1>5 DEF Decide, OutOfBudget, OutOfTime, ConcludeOccam, GetStuck, ConcludeBfs, Suggest,
                RefuseWrite, Deciding, DeadlinePasses, OperatorMistypes, Running
  <2>. QED  BY <1>1, <1>2, <2>1
<1>6. CASE Records
  <2>1. Running
    BY <1>6, RecordingShape DEF TInv, Running
  <2>2. Incident => Within(disk, store')
    BY <1>1, <1>2, <1>6, <2>1, RecordingKeeps
  <2>3. Persist
    BY <1>6 DEF Records, ProbeReturns, OperatorAnswers, OperatorSkips, StdinCloses, Recorded
  <2>4. Within(store', store')
    BY <1>1, WithinItself
  <2>. QED  BY <1>1, <2>2, <2>3, <2>4 DEF Persist
<1>7. CASE ProbeFails
  <2>1. store' = store /\ Persist /\ Running
    BY <1>7 DEF ProbeFails, Running
  <2>2. Within(store, store)
    BY <1>1, WithinItself
  <2>. QED  BY <1>1, <1>2, <2>1, <2>2 DEF Persist
<1>8. CASE Crash
  BY <1>1, <1>8 DEF Crash, Running
<1>9. CASE AddsFact
  <2>0. PICK c \in Components : \E k \in Range(TypeFacts[c]) : AddFact(c, k)
    BY <1>9 DEF AddsFact
  <2>1. PICK k \in Range(TypeFacts[c]) : AddFact(c, k)
    BY <2>0
  <2>2. ~Running'
    BY <2>1 DEF AddFact, Running
  <2>. DEFINE f == NewFact(k, world[c][k], "", "manual")
  <2>3. f \in Fact
    <3>1. k \in Keys /\ world[c][k] \in Values \cup {NoValue}
      BY ConstantTypes DEF TInv, TypeOK, Range
    <3>. QED  BY <3>1 DEF NewFact, Fact, Statuses, Collectors
  <2>4. disk' = Appended(disk, c, f)
    BY <2>1 DEF AddFact
  <2>5. Within(disk, disk')
    <3>. HIDE DEF f
    <3>. QED  BY <1>1, <2>3, <2>4, AppendedKeeps
  <2>. QED  BY <2>2, <2>5
<1>10. CASE UNCHANGED vars
  BY <1>1, <1>2, <1>10 DEF vars, Running
<1>. QED
  BY <1>4, <1>5, <1>6, <1>7, <1>8, <1>9, <1>10 DEF Next, Run, Prompt, Records

\* A session begins with what the file holds.
LEMMA InitDisk == Init => DInv
  BY InitTypes DEF Init, DInv, DiskIsKnown

\* Alone on its state file, a session knows all the file holds, across failed
\* saves, crashes and restarts.
THEOREM DiskStaysKnown ==
    ASSUME ~MayAddLive
    PROVE  Spec => []DiskIsKnown
<1>1. DInv /\ [Next]_vars => DInv'
  BY NextDisk, NextTypes DEF DInv
<1>2. DInv => DiskIsKnown
  BY DEF DInv
<1>. QED  BY <1>1, <1>2, InitDisk, PTL DEF Spec

\* ... so no save drops a fact ...
THEOREM DiskGrows ==
    ASSUME ~MayAddLive
    PROVE  Spec => DiskOnlyGrows
<1>1. DInv /\ [Next]_vars => DInv' /\ [\A c \in Components : IsPrefix(disk[c], disk'[c])]_vars
  BY NextDisk, NextTypes DEF DInv, Within
<1>. QED  BY <1>1, InitDisk, PTL DEF Spec, DiskOnlyGrows

\* ... and no question whose answer is in the file is put again.
THEOREM NothingIsAskedAgain ==
    ASSUME ~MayAddLive, Incident
    PROVE  Spec => NeverAsksAgain
<1>1. ASSUME DInv, [Next]_vars, pending' \notin {pending, NoProbe}
      PROVE  ~Collected(disk[pending'.on], pending'.fact)
  <2>1. CASE Suggest
    <3>1. PICK p \in Suggested(store, options.scenarios) : pending' = p
      BY <2>1 DEF Suggest
    <3>2. p \in Probes /\ ~Collected(store[p.on], p.fact)
      BY SuggestedIsOpen
    <3>3. IsPrefix(disk[p.on], store[p.on])
      BY <1>1, <2>1, <3>2 DEF DInv, DiskIsKnown, Suggest, Deciding, Probes
    <3>4. disk[p.on] \in Seq(Fact) /\ store[p.on] \in Seq(Fact)
      BY <1>1, <3>2 DEF DInv, TInv, TypeOK, Store, Probes
    <3>. QED  BY <3>1, <3>2, <3>3, <3>4, CollectedInPrefix
  <2>2. CASE pending' \in {pending, NoProbe}
    BY <1>1, <2>2
  <2>. QED
    BY <1>1, <2>1, <2>2
    DEF Next, Decide, Run, Prompt, Start, OutOfBudget, OutOfTime, ConcludeOccam, GetStuck,
        ConcludeBfs, RefuseWrite, ProbeReturns, ProbeFails, OperatorAnswers, OperatorSkips,
        StdinCloses, OperatorMistypes, DeadlinePasses, Crash, AddsFact, AddFact, Recorded, Stop, vars
<1>2. DInv /\ [Next]_vars =>
        DInv' /\ [pending' \notin {pending, NoProbe} => ~Collected(disk[pending'.on], pending'.fact)]_vars
  BY <1>1, NextDisk, NextTypes DEF DInv
<1>. QED  BY <1>2, InitDisk, PTL DEF Spec, NeverAsksAgain

-----------------------------------------------------------------------------
(***************************************************************************)
(* What partial visibility can and cannot change.  In every plain model    *)
(* the explanations, the verdicts and the all-clears diagnose reaches with *)
(* some facts missing, refused or skipped are not contradicted by the      *)
(* facts it has not seen; and when it has seen them all, what it concludes *)
(* is what full visibility concludes.                                      *)
(***************************************************************************)

\* Everything on record is what the world says, nothing, or a skip marker.
Truthful(w, st) ==
    \A c \in Components : \A i \in DOMAIN st[c] : Faithful(w, c, st[c][i]) \/ Marks(c, st[c][i])

SInv == TInv /\ Truthful(world, store) /\ Truthful(world, disk)

\* A store of truths with one more truth is one.
LEMMA AppendedIsTruthful ==
    ASSUME NEW w, NEW st \in Store, NEW c \in Components, NEW f \in Fact,
           Truthful(w, st), Faithful(w, c, f) \/ Marks(c, f)
    PROVE  Truthful(w, Appended(st, c, f))
<1>1. ASSUME NEW d \in Components, NEW i \in DOMAIN Appended(st, c, f)[d]
      PROVE  Faithful(w, d, Appended(st, c, f)[d][i]) \/ Marks(d, Appended(st, c, f)[d][i])
  <2>1. CASE d # c
    <3>1. Appended(st, c, f)[d] = st[d]
      BY <2>1, AppendedIsStore
    <3>. QED  BY <1>1, <3>1 DEF Truthful
  <2>2. CASE d = c
    <3>1. Appended(st, c, f)[d] = Append(st[d], f) /\ st[d] \in Seq(Fact)
      BY <2>2, AppendedIsStore DEF Store
    <3>2. /\ i \in 1..(Len(st[d]) + 1) /\ DOMAIN st[d] = 1..Len(st[d]) /\ Len(st[d]) \in Nat
          /\ \A j \in 1..Len(st[d]) : Append(st[d], f)[j] = st[d][j]
          /\ Append(st[d], f)[Len(st[d]) + 1] = f
      BY <1>1, <3>1
    <3>3. CASE i = Len(st[d]) + 1
      BY <2>2, <3>1, <3>2, <3>3
    <3>4. CASE i \in 1..Len(st[d])
      BY <3>1, <3>2, <3>4 DEF Truthful
    <3>. QED  BY <3>2, <3>3, <3>4
  <2>. QED  BY <2>1, <2>2
<1>. QED  BY <1>1 DEF Truthful

\* A store of nothing holds nothing false.
LEMMA EmptyIsTruthful == \A w : Truthful(w, EmptyStore)
  BY DEF Truthful, EmptyStore

\* Probes, the operator and `mgtt fact add` record the truth, so the store and
\* the state file hold nothing else.
LEMMA NextTruthful == SInv /\ [Next]_vars => SInv'
<1>. SUFFICES ASSUME SInv, [Next]_vars
              PROVE  world' = world /\ Truthful(world, store') /\ Truthful(world, disk')
  BY NextTypes DEF SInv
<1>1. /\ store \in Store /\ disk \in Store /\ world \in Worlds
      /\ Truthful(world, store) /\ Truthful(world, disk)
  BY DEF SInv, TInv, TypeOK
<1>2. CASE Start
  <2>1. world' = world /\ disk' = disk /\ store' = CurrentStore
    BY <1>2 DEF Start
  <2>. QED  BY <1>1, <2>1, EmptyIsTruthful DEF CurrentStore
<1>3. CASE Decide \/ DeadlinePasses \/ OperatorMistypes
  <2>1. UNCHANGED <<world, disk, store>>
    BY <1>3 DEF Decide, OutOfBudget, OutOfTime, ConcludeOccam, GetStuck, ConcludeBfs, Suggest,
                RefuseWrite, Stop, DeadlinePasses, OperatorMistypes
  <2>. QED  BY <1>1, <2>1
<1>4. CASE Records
  <2>1. Persist /\ world' = world
    BY <1>4 DEF Records, ProbeReturns, OperatorAnswers, OperatorSkips, StdinCloses, Recorded, Stop
  <2>2. Truthful(world, store')
    <3>1. pending \in Probes /\ pending.on \in Components
      BY <1>4, RecordingShape DEF SInv, TInv, Probes
    <3>. DEFINE c == pending.on
    <3>2. PICK f \in Fact :
            /\ Faithful(world, c, f)
            /\ \/ store' = Appended(store, c, f)
               \/ \E mark \in Fact :
                     Marks(c, mark) /\ store' = Appended(Appended(store, c, mark), c, f)
      BY <1>4, RecordingShape DEF SInv, TInv
    <3>3. CASE store' = Appended(store, c, f)
      BY <1>1, <3>1, <3>2, <3>3, AppendedIsTruthful
    <3>4. ASSUME NEW mark \in Fact, Marks(c, mark),
                 store' = Appended(Appended(store, c, mark), c, f)
          PROVE  Truthful(world, store')
      <4>. DEFINE mid == Appended(store, c, mark)
      <4>1. mid \in Store /\ Truthful(world, mid)
        BY <1>1, <3>1, <3>4, AppendedIsStore, AppendedIsTruthful
      <4>2. store' = Appended(mid, c, f)
        BY <3>4
      <4>. HIDE DEF mid
      <4>. QED  BY <3>1, <3>2, <4>1, <4>2, AppendedIsTruthful
    <3>. QED  BY <3>2, <3>3, <3>4
  <2>. QED  BY <1>1, <2>1, <2>2 DEF Persist
<1>5. CASE ProbeFails
  BY <1>1, <1>5 DEF ProbeFails, Persist, Stop
<1>6. CASE Crash
  BY <1>1, <1>6, EmptyIsTruthful DEF Crash
<1>7. CASE AddsFact
  <2>0. PICK c \in Components : \E k \in Range(TypeFacts[c]) : AddFact(c, k)
    BY <1>7 DEF AddsFact
  <2>1. PICK k \in Range(TypeFacts[c]) : AddFact(c, k)
    BY <2>0
  <2>. DEFINE f == NewFact(k, world[c][k], "", "manual")
  <2>2. f \in Fact /\ Faithful(world, c, f)
    <3>1. k \in Keys /\ world[c][k] \in Values \cup {NoValue}
      BY <1>1, ConstantTypes DEF Range
    <3>. QED  BY <3>1 DEF NewFact, Fact, Statuses, Collectors, Faithful
  <2>3. disk' = Appended(disk, c, f) /\ UNCHANGED <<world, options, store>>
    BY <2>1 DEF AddFact
  <2>. HIDE DEF f
  <2>. QED  BY <1>1, <2>2, <2>3, AppendedIsTruthful
<1>8. CASE UNCHANGED vars
  BY <1>1, <1>8 DEF vars
<1>. QED
  BY <1>2, <1>3, <1>4, <1>5, <1>6, <1>7, <1>8 DEF Next, Run, Prompt, Records

\* A run begins with a store that holds nothing false.
LEMMA InitTruthful == Init => SInv
  BY InitTypes, EmptyIsTruthful DEF Init, SInv

-----------------------------------------------------------------------------
(* What full visibility would add.                                         *)

\* Full visibility sees all that the store sees.
LEMMA SeenSeesAll ==
    ASSUME SInv
    PROVE  Sees(store, Seen(world), ReadKeys)
<1>1. store \in Store /\ world \in Worlds /\ Truthful(world, store)
  BY DEF SInv, TInv, TypeOK
<1>. DEFINE all == Seen(world)
<1>2. /\ all \in Store
      /\ \A c \in Components : \A j \in DOMAIN TypeFacts[c] :
            j \in DOMAIN all[c] /\ all[c][j].key = TypeFacts[c][j]
      /\ \A c \in Components : \A j \in DOMAIN all[c] :
            all[c][j].value = world[c][all[c][j].key]
  <2>1. all \in Store
    BY <1>1, SeenType
  <2>2. ASSUME NEW c \in Components, NEW j \in DOMAIN TypeFacts[c]
        PROVE  j \in DOMAIN all[c] /\ all[c][j].key = TypeFacts[c][j]
    BY <1>1, SeenType
  <2>3. ASSUME NEW c \in Components, NEW j \in DOMAIN all[c]
        PROVE  all[c][j].value = world[c][all[c][j].key]
    <3>1. all[c][j].key = TypeFacts[c][j] /\ all[c][j].value = world[c][TypeFacts[c][j]]
      BY <1>1, SeenType
    <3>. QED  BY <3>1
  <2>. QED  BY <2>1, <2>2, <2>3
<1>. HIDE DEF all
<1>3. ASSUME NEW c \in Components, NEW k \in Range(TypeFacts[c])
      PROVE  LookupValue(all[c], k) = world[c][k]
  <2>1. PICK j \in DOMAIN TypeFacts[c] : TypeFacts[c][j] = k
    BY DEF Range
  <2>2. j \in DOMAIN all[c] /\ all[c][j].key = k /\ all[c] \in Seq(Fact)
    BY <1>2, <2>1 DEF Store
  <2>3. PICK i \in DOMAIN all[c] : all[c][i].key = k /\ LookupValue(all[c], k) = all[c][i].value
    BY <2>2, LookupOfRecorded
  <2>. QED  BY <1>2, <2>3
<1>4. ASSUME NEW c \in Components, NEW k \in ReadKeys, LookupValue(store[c], k) # NoValue
      PROVE  LookupValue(store[c], k) = LookupValue(all[c], k)
  <2>1. store[c] \in Seq(Fact)
    BY <1>1 DEF Store
  <2>2. PICK i \in DOMAIN store[c] :
          store[c][i].key = k /\ store[c][i].value = LookupValue(store[c], k)
    BY <1>4, <2>1, LookupIsRecorded
  <2>3. Faithful(world, c, store[c][i])
    BY <1>1, <2>2 DEF Truthful, Marks, ReadKeys
  <2>. QED  BY <1>3, <1>4, <2>2, <2>3 DEF Faithful
<1>5. ASSUME NEW c \in Components, Observed(store[c])
      PROVE  Observed(all[c])
  <2>1. PICK i \in DOMAIN store[c] : store[c][i].value # NoValue
    BY <1>5 DEF Observed
  <2>2. PICK k \in Range(TypeFacts[c]) : world[c][k] # NoValue
    <3>1. CASE Faithful(world, c, store[c][i])
      BY <2>1, <3>1 DEF Faithful
    <3>2. CASE Marks(c, store[c][i])
      <4>1. TypeFacts[c] = <<OperatorFact>> /\ world[c][OperatorFact] # NoValue
        BY <1>1, <3>2, ConstantTypes DEF Marks
      <4>. QED  BY <4>1 DEF Range
    <3>. QED  BY <1>1, <3>1, <3>2 DEF Truthful
  <2>3. PICK j \in DOMAIN TypeFacts[c] : TypeFacts[c][j] = k
    BY DEF Range
  <2>. QED  BY <1>2, <2>2, <2>3 DEF Observed
<1>. QED  BY <1>1, <1>2, <1>4, <1>5 DEF Sees, Below, all

-----------------------------------------------------------------------------
(* The theorems.                                                           *)

\* A chain is a sequence of failure states.
LEMMA ChainType ==
    ASSUME NEW chain \in Chains
    PROVE  /\ \A i \in DOMAIN chain : chain[i] \in Nodes
           /\ DOMAIN chain = 1..Len(chain) /\ Len(chain) \in Nat
<1>1. PICK root \in Nodes : chain \in ChainsFrom(root)
  BY DEF Chains
<1>2. PICK n \in Nat : chain \in [1..n -> Nodes]
  <2>1. CASE chain \in Walks(root)
    <3>1. PICK n \in 2..Cardinality(Components) : chain \in [1..n -> Nodes]
      BY <2>1 DEF Walks
    <3>. QED  BY <3>1
  <2>2. CASE chain \in [1..1 -> {root}]
    <3>1. chain \in [1..1 -> Nodes]
      BY <2>2
    <3>. QED  BY <3>1
  <2>. QED  BY <1>1, <2>1, <2>2 DEF ChainsFrom
<1>3. chain \in Seq(Nodes)
  BY <1>2, SeqDef
<1>. QED  BY <1>3

\* What the store rules out, full visibility rules out.
LEMMA TruthIsLive ==
    ASSUME PlainModel(ReadKeys), SInv
    PROVE  TruthStaysLive
<1>. SUFFICES ASSUME NEW chain \in Chains, ChainLive(Seen(world), chain)
              PROVE  ChainLive(store, chain)
  BY DEF TruthStaysLive
<1>1. Sees(store, Seen(world), ReadKeys)
  BY SeenSeesAll
<1>2. /\ \A i \in DOMAIN chain : chain[i] \in Nodes
      /\ DOMAIN chain = 1..Len(chain) /\ Len(chain) \in Nat
  BY ChainType
<1>. QED  BY <1>1, <1>2, ChainIsStable

\* FilterLive drops no true explanation: in every plain model, for every world
\* and whatever could not be read, a chain that full visibility leaves live is
\* live at every moment of every session.
THEOREM LiveSetKeepsTruth ==
    ASSUME PlainModel(ReadKeys)
    PROVE  Spec => []TruthStaysLive
<1>1. SInv => TruthStaysLive
  BY TruthIsLive
<1>. QED  BY <1>1, InitTruthful, NextTruthful, PTL DEF Spec

CInv == SInv /\ ConclusionHolds

\* Every conclusion occam draws is one that explains the system, if any does.
LEMMA NextConclusion ==
    ASSUME PlainModel(ReadKeys), CInv, [Next]_vars
    PROVE  ConclusionHolds'
<1>1. TruthStaysLive
  BY TruthIsLive DEF CInv
<1>2. CASE ConcludeOccam
  <2>1. PICK chain \in Live(store) : report' = Report(Headline(chain[1].on), chain[1].on, chain)
    BY <1>2 DEF ConcludeOccam, Stop
  <2>2. report'.chain = chain /\ world' = world
    BY <1>2, <2>1 DEF Report, ConcludeOccam, Stop
  <2>3. \A other \in Live(store) : other = chain
    BY <1>2 DEF ConcludeOccam, OccamDone
  <2>4. ASSUME NEW other \in Chains, ChainLive(Seen(world), other)
        PROVE  ChainLive(Seen(world), chain)
    <3>1. other \in Live(store)
      BY <1>1, <2>4 DEF TruthStaysLive, Live
    <3>. QED  BY <2>3, <2>4, <3>1
  <2>5. \/ ChainLive(Seen(world), chain)
        \/ \A other \in Chains : ~ChainLive(Seen(world), other)
    BY <2>4
  <2>. QED  BY <2>2, <2>5 DEF ConclusionHolds
<1>3. CASE report'.chain = <<>>
  BY <1>3 DEF ConclusionHolds
<1>4. CASE UNCHANGED <<world, report>>
  BY <1>4 DEF CInv, ConclusionHolds
<1>5. CASE Start \/ Crash \/ OutOfBudget \/ OutOfTime \/ GetStuck \/ ConcludeBfs \/ RefuseWrite
             \/ StdinCloses \/ OperatorMistypes \/ ProbeFails
  BY <1>3, <1>5 DEF Start, Crash, OutOfBudget, OutOfTime, GetStuck, ConcludeBfs, RefuseWrite,
                    StdinCloses, OperatorMistypes, ProbeFails, Stop, Report, NoReport
<1>6. CASE Suggest \/ ProbeReturns \/ OperatorAnswers \/ OperatorSkips \/ DeadlinePasses
             \/ AddsFact \/ UNCHANGED vars
  BY <1>4, <1>6 DEF Suggest, ProbeReturns, OperatorAnswers, OperatorSkips, Recorded,
                    DeadlinePasses, AddsFact, AddFact, vars
<1>. QED  BY <1>2, <1>5, <1>6 DEF Next, Decide, Run, Prompt

\* When some chain explains the system, the chain occam concludes with does,
\* in every plain model: it is never the survivor of a wrong elimination.
THEOREM ConclusionIsTrue ==
    ASSUME PlainModel(ReadKeys)
    PROVE  Spec => []ConclusionHolds
<1>1. Init => CInv
  BY InitTruthful DEF Init, NoReport, ConclusionHolds, CInv
<1>2. CInv /\ [Next]_vars => CInv'
  BY NextTruthful, NextConclusion DEF CInv
<1>3. CInv => ConclusionHolds
  BY DEF CInv
<1>. QED  BY <1>1, <1>2, <1>3, PTL DEF Spec

\* A component found absent is not there.
LEMMA AbsentIsMissing ==
    ASSUME WholeOrMissing, SInv, NEW c \in Components, IsAbsent(store[c])
    PROVE  IsAbsent(Seen(world)[c])
<1>1. world \in Worlds /\ Truthful(world, store)
  BY DEF SInv, TInv, TypeOK
<1>2. PICK i \in DOMAIN store[c] : store[c][i].status = "not_found"
  BY DEF IsAbsent
<1>3. PICK k \in Range(TypeFacts[c]) : world[c][k] = NoValue
  BY <1>1, <1>2 DEF Truthful, Faithful, Marks
<1>4. \A x \in Range(TypeFacts[c]) : world[c][x] = NoValue
  BY <1>1, <1>3 DEF WholeOrMissing
<1>. DEFINE facts == Seen(world)[c]
<1>5. \A j \in DOMAIN facts : facts[j].value = NoValue /\ facts[j].status = "not_found"
  <2>. SUFFICES ASSUME NEW j \in DOMAIN facts
                PROVE  facts[j].value = NoValue /\ facts[j].status = "not_found"
    OBVIOUS
  <2>1. j \in DOMAIN TypeFacts[c]
    BY <1>1, SeenType
  <2>2. /\ facts[j].value = world[c][TypeFacts[c][j]]
        /\ facts[j].status = IF world[c][TypeFacts[c][j]] = NoValue THEN "not_found" ELSE ""
    BY <1>1, SeenType
  <2>3. world[c][TypeFacts[c][j]] = NoValue
    BY <1>4, <2>1 DEF Range
  <2>. HIDE DEF facts
  <2>. QED  BY <2>2, <2>3
<1>6. DOMAIN facts # {}
  <2>1. PICK j \in DOMAIN TypeFacts[c] : TypeFacts[c][j] = k
    BY DEF Range
  <2>. QED  BY <1>1, <2>1, SeenType
<1>. HIDE DEF facts
<1>. QED  BY <1>5, <1>6 DEF IsAbsent, Observed, facts

\* Whatever truth is on record, the verdicts are those of full visibility.
LEMMA VerdictsSound ==
    ASSUME PlainModel(ReadKeys), WholeOrMissing, SInv
    PROVE  VerdictIsSound
<1>. SUFFICES ASSUME NEW c \in Components
              PROVE  ComponentVerdict(store, c) \in {Unknown, ComponentVerdict(Seen(world), c)}
  BY DEF VerdictIsSound
<1>1. Sees(store, Seen(world), ReadKeys)
  BY SeenSeesAll
<1>2. CASE Unhealthy(store, c)
  <2>1. Unhealthy(Seen(world), c)
    BY <1>1, <1>2, AbsentIsMissing, UnhealthyIsStable
  <2>. QED  BY <1>2, <2>1 DEF ComponentVerdict
<1>3. CASE ~Unhealthy(store, c) /\ Healthy(store, c)
  <2>1. Healthy(Seen(world), c) /\ ~Unhealthy(Seen(world), c)
    BY <1>1, <1>3, HealthyIsStable
  <2>. QED  BY <1>3, <2>1 DEF ComponentVerdict
<1>. QED  BY <1>2, <1>3 DEF ComponentVerdict

\* A verdict reached with some facts missing is the verdict full visibility
\* gives, in every plain model whose components are all there or all missing.
THEOREM VerdictsHold ==
    ASSUME PlainModel(ReadKeys), WholeOrMissing
    PROVE  Spec => []VerdictIsSound
  BY VerdictsSound, InitTruthful, NextTruthful, PTL DEF Spec

-----------------------------------------------------------------------------
(* What a conclusion by bfs rests on.                                      *)

\* Unless the operator declined to speak about a component, all its facts are
\* answers.
AnsweredUnlessSkipped(w, st) ==
    \A c \in Components : Collected(st[c], SkipMark) \/ \A f \in Range(st[c]) : Answers(w, c, f)

\* A report is made at the end, of the store the session still holds: bfs had
\* nothing left to ask.
ReportInv ==
    /\ pc # "stopped" => report.kind = "none"
    /\ report.kind \in {"all_healthy", "none_seen", "root_cause"} /\ ~options.scenarios =>
          BfsProbes(store) = {} /\ report.root = RootCause(store)
    /\ report.kind = "all_healthy" =>
          BfsProbes(store) = {} /\ RootCause(store) = NoValue /\ CannotRuleOut(store) = {}

RInv ==
    /\ SInv /\ AnsweredUnlessSkipped(world, store) /\ AnsweredUnlessSkipped(world, disk)
    /\ ReportInv

\* One more answer, or a skip marker.
LEMMA AppendedAnswers ==
    ASSUME NEW w, NEW st \in Store, NEW c \in Components, NEW f \in Fact,
           AnsweredUnlessSkipped(w, st),
           Answers(w, c, f) \/ f.key = SkipMark \/ Collected(st[c], SkipMark)
    PROVE  AnsweredUnlessSkipped(w, Appended(st, c, f))
<1>. SUFFICES ASSUME NEW d \in Components, ~Collected(Appended(st, c, f)[d], SkipMark),
                     NEW g \in Range(Appended(st, c, f)[d])
              PROVE  Answers(w, d, g)
  BY DEF AnsweredUnlessSkipped
<1>1. ~Collected(st[d], SkipMark) /\ ~(d = c /\ SkipMark = f.key)
  BY AppendedIsStore
<1>2. g \in Range(st[d]) \/ (d = c /\ g = f)
  BY AppendedRange
<1>. QED  BY <1>1, <1>2 DEF AnsweredUnlessSkipped

\* Nothing is on record at first.
LEMMA EmptyAnswers == \A w : AnsweredUnlessSkipped(w, EmptyStore)
  BY DEF AnsweredUnlessSkipped, EmptyStore, Range

\* Every step keeps the answers.
LEMMA NextAnswers ==
    ASSUME RInv, [Next]_vars
    PROVE  AnsweredUnlessSkipped(world, store') /\ AnsweredUnlessSkipped(world, disk')
<1>1. /\ store \in Store /\ disk \in Store /\ world \in Worlds
      /\ AnsweredUnlessSkipped(world, store) /\ AnsweredUnlessSkipped(world, disk)
  BY DEF RInv, SInv, TInv, TypeOK
<1>2. CASE Start
  BY <1>1, <1>2, EmptyAnswers DEF Start, CurrentStore
<1>3. CASE Decide \/ DeadlinePasses \/ OperatorMistypes
  <2>1. UNCHANGED <<disk, store>>
    BY <1>3 DEF Decide, OutOfBudget, OutOfTime, ConcludeOccam, GetStuck, ConcludeBfs, Suggest,
                RefuseWrite, Stop, DeadlinePasses, OperatorMistypes
  <2>. QED  BY <1>1, <2>1
<1>4. CASE Records
  <2>1. Persist
    BY <1>4 DEF Records, ProbeReturns, OperatorAnswers, OperatorSkips, StdinCloses, Recorded, Stop
  <2>2. AnsweredUnlessSkipped(world, store')
    <3>1. pending \in Probes /\ pending.on \in Components
      BY <1>4, RecordingShape DEF RInv, SInv, TInv, Probes
    <3>. DEFINE c == pending.on
    <3>2. PICK f \in Fact :
            \/ Answers(world, c, f) /\ store' = Appended(store, c, f)
            \/ \E mark \in Fact :
                  Marks(c, mark) /\ store' = Appended(Appended(store, c, mark), c, f)
      BY <1>4, RecordingShape DEF RInv, SInv, TInv
    <3>3. CASE Answers(world, c, f) /\ store' = Appended(store, c, f)
      BY <1>1, <3>1, <3>2, <3>3, AppendedAnswers
    <3>4. ASSUME NEW mark \in Fact, Marks(c, mark),
                 store' = Appended(Appended(store, c, mark), c, f)
          PROVE  AnsweredUnlessSkipped(world, store')
      <4>. DEFINE mid == Appended(store, c, mark)
      <4>0. mark.key = SkipMark
        BY <3>4 DEF Marks
      <4>1. mid \in Store /\ AnsweredUnlessSkipped(world, mid) /\ Collected(mid[c], SkipMark)
        BY <1>1, <3>1, <3>4, <4>0, AppendedIsStore, AppendedAnswers
      <4>2. store' = Appended(mid, c, f)
        BY <3>4
      <4>. HIDE DEF mid
      <4>. QED  BY <3>1, <3>2, <4>1, <4>2, AppendedAnswers
    <3>. QED  BY <3>2, <3>3, <3>4
  <2>. QED  BY <1>1, <2>1, <2>2 DEF Persist
<1>5. CASE ProbeFails
  BY <1>1, <1>5 DEF ProbeFails, Persist, Stop
<1>6. CASE Crash
  BY <1>1, <1>6, EmptyAnswers DEF Crash
<1>7. CASE AddsFact
  <2>0. PICK c \in Components : \E k \in Range(TypeFacts[c]) : AddFact(c, k)
    BY <1>7 DEF AddsFact
  <2>1. PICK k \in Range(TypeFacts[c]) : AddFact(c, k)
    BY <2>0
  <2>. DEFINE f == NewFact(k, world[c][k], "", "manual")
  <2>2. f \in Fact /\ Answers(world, c, f)
    <3>1. k \in Keys /\ world[c][k] \in Values \cup {NoValue}
      BY <1>1, ConstantTypes DEF Range
    <3>2. world[c][k] # NoValue
      BY <2>1 DEF AddFact
    <3>. QED  BY <3>1, <3>2 DEF NewFact, Fact, Statuses, Collectors, Answers, Faithful
  <2>3. disk' = Appended(disk, c, f) /\ UNCHANGED store
    BY <2>1 DEF AddFact
  <2>. HIDE DEF f
  <2>. QED  BY <1>1, <2>2, <2>3, AppendedAnswers
<1>8. CASE UNCHANGED vars
  BY <1>1, <1>8 DEF vars
<1>. QED
  BY <1>2, <1>3, <1>4, <1>5, <1>6, <1>7, <1>8 DEF Next, Run, Prompt, Records

\* A chain is not empty.
LEMMA ChainStarts ==
    ASSUME NEW chain \in Chains
    PROVE  1 \in DOMAIN chain /\ chain[1].on \in Components
<1>1. PICK root \in Nodes : chain \in ChainsFrom(root)
  BY DEF Chains
<1>2. 1 \in DOMAIN chain
  <2>1. CASE chain \in Walks(root)
    <3>1. PICK n \in 2..Cardinality(Components) : chain \in [1..n -> Nodes]
      BY <2>1 DEF Walks
    <3>. QED  BY <3>1
  <2>2. CASE chain \in [1..1 -> {root}]
    BY <2>2
  <2>. QED  BY <1>1, <2>1, <2>2 DEF ChainsFrom
<1>. QED  BY <1>2, ChainType DEF Nodes

\* ... and the report.
LEMMA NextReport ==
    ASSUME RInv, [Next]_vars
    PROVE  ReportInv'
<1>1. ReportInv
  BY DEF RInv
<1>2. CASE ConcludeBfs
  <2>1. /\ report' = Report(Headline(RootCause(store)), RootCause(store), <<>>)
        /\ pc' = "stopped" /\ store' = store /\ BfsProbes(store) = {}
    BY <1>2 DEF ConcludeBfs, Stop
  <2>2. report'.kind = Headline(RootCause(store)) /\ report'.root = RootCause(store)
    BY <2>1 DEF Report
  <2>3. Headline(RootCause(store)) = "all_healthy" => RootCause(store) = NoValue /\ CannotRuleOut(store) = {}
    BY DEF Headline
  <2>. QED  BY <2>1, <2>2, <2>3 DEF ReportInv
<1>3. CASE ConcludeOccam
  <2>1. PICK chain \in Live(store) : report' = Report(Headline(chain[1].on), chain[1].on, chain)
    BY <1>3 DEF ConcludeOccam, Stop
  <2>2. chain[1].on # NoValue
    BY ChainStarts, ProbingAssumption DEF Live
  <2>3. report'.kind = Headline(chain[1].on) /\ Headline(chain[1].on) # "all_healthy"
    BY <2>1, <2>2 DEF Report, Headline
  <2>4. pc' = "stopped" /\ options' = options /\ options.scenarios
    BY <1>3 DEF ConcludeOccam, Stop
  <2>. QED  BY <2>3, <2>4 DEF ReportInv
<1>4. CASE Start \/ Crash \/ OutOfBudget \/ OutOfTime \/ GetStuck \/ RefuseWrite
             \/ StdinCloses \/ OperatorMistypes \/ ProbeFails
  <2>1. report'.kind \in {"none", "error", "partial", "stuck"} /\ (pc' # "stopped" => report'.kind = "none")
    BY <1>4 DEF Start, Crash, OutOfBudget, OutOfTime, GetStuck, RefuseWrite,
                StdinCloses, OperatorMistypes, ProbeFails, Stop, Report, NoReport
  <2>. QED  BY <2>1 DEF ReportInv
<1>5. CASE Suggest \/ ProbeReturns \/ OperatorAnswers \/ OperatorSkips
  <2>1. report' = report /\ report.kind = "none"
    BY <1>1, <1>5 DEF Suggest, Deciding, ProbeReturns, OperatorAnswers, OperatorSkips, Recorded, ReportInv
  <2>. QED  BY <2>1 DEF ReportInv
<1>6. CASE DeadlinePasses \/ AddsFact \/ UNCHANGED vars
  <2>1. UNCHANGED <<store, options, pc, report>>
    BY <1>6 DEF DeadlinePasses, AddsFact, AddFact, vars
  <2>. QED  BY <1>1, <2>1 DEF ReportInv
<1>. QED  BY <1>2, <1>3, <1>4, <1>5, <1>6 DEF Next, Decide, Run, Prompt

\* The report invariant is inductive.
LEMMA ReportHolds ==
    /\ Init => RInv
    /\ RInv /\ [Next]_vars => RInv'
<1>1. Init => RInv
  BY InitTruthful, EmptyAnswers DEF Init, RInv, ReportInv, NoReport
<1>2. ASSUME RInv, [Next]_vars PROVE RInv'
  <2>1. SInv' /\ world' = world
    <3>1. SInv'
      BY <1>2, NextTruthful DEF RInv
    <3>2. world' = world
      BY <1>2 DEF Next, Start, Decide, OutOfBudget, OutOfTime, ConcludeOccam, GetStuck, ConcludeBfs,
                  Suggest, RefuseWrite, Run, ProbeReturns, ProbeFails, Prompt, OperatorAnswers,
                  OperatorSkips, StdinCloses, OperatorMistypes, Recorded, Stop, DeadlinePasses, Crash,
                  AddsFact, AddFact, vars
    <3>. QED  BY <3>1, <3>2
  <2>. QED  BY <1>2, <2>1, NextAnswers, NextReport DEF RInv
<1>. QED  BY <1>1, <1>2

\* No all-clear over a broken component, in every plain model with an entry
\* whose components are all there or all missing: whatever could not be read
\* keeps its component on the list of those that cannot be ruled out.
THEOREM AllClearsHold ==
    ASSUME PlainModel(ReadKeys), WholeOrMissing, Entry \in Components
    PROVE  Spec => []AllClearIsEarned
<1>1. ASSUME RInv PROVE AllClearIsEarned
  <2>. SUFFICES ASSUME report.kind = "all_healthy", NEW c \in Range(BfsWalk(store)),
                       Unhealthy(Seen(world), c), c \notin Skips
                PROVE  c \in RedundancyDegraded(store)
    BY DEF AllClearIsEarned
  <2>1. BfsProbes(store) = {} /\ RootCause(store) = NoValue /\ CannotRuleOut(store) = {}
    BY <1>1 DEF RInv, ReportInv
  <2>2. SInv /\ store \in Store /\ world \in Worlds
    BY <1>1 DEF RInv, SInv, TInv, TypeOK
  <2>3. c \in Components /\ Range(BfsWalk(store)) \subseteq Components
    BY WalkIsClosure, RangeOf DEF BfsWalk
  <2>4. Unhealthy(store, c)
    <3>1. CASE Unreadable(store[c]) # {}
      <4>1. ComponentVerdict(store, c) # Unknown
        BY <2>1, <2>3, <3>1 DEF CannotRuleOut
      <4>2. ComponentVerdict(store, c) = ComponentVerdict(Seen(world), c)
        BY <2>2, <2>3, <4>1, VerdictsSound DEF VerdictIsSound
      <4>. QED  BY <4>2 DEF ComponentVerdict, Unknown
    <3>2. CASE Unreadable(store[c]) = {}
      <4>1. ~Collected(store[c], SkipMark)
        BY <2>3 DEF Skips
      <4>2. \A f \in Range(store[c]) : Answers(world, c, f)
        BY <1>1, <2>3, <4>1 DEF RInv, AnsweredUnlessSkipped
      <4>3. \A k \in Range(TypeFacts[c]) : Collected(store[c], k)
        BY <2>1, BfsAsksAll
      <4>4. Alike(store, Seen(world), {c})
        BY <2>2, <2>3, <3>2, <4>2, <4>3, ReadWhole
      <4>. QED  BY <2>3, <4>4, VerdictAlike
    <3>. QED  BY <3>1, <3>2
  <2>5. Candidates(store, Range(BfsWalk(store))) = {}
    <3>1. Candidates(store, Range(BfsWalk(store))) \subseteq Components
      BY <2>3 DEF Candidates
    <3>2. NoValue \notin Components
      BY ProbingAssumption
    <3>. QED  BY <2>1, <3>1, <3>2, CauseIsCandidate DEF RootCause, BfsWalk
  <2>6. RedundancyCovered(store, c)
    BY <2>4, <2>5 DEF Candidates
  <2>. QED  BY <2>3, <2>4, <2>6 DEF RedundancyDegraded
<1>. QED  BY <1>1, ReportHolds, PTL DEF Spec

\* With nothing unread and nothing skipped, bfs names the root cause that full
\* visibility names, in every plain, grounded model: over whatever sessions,
\* crashes and facts added by hand the facts came together.
THEOREM BfsIsComplete ==
    ASSUME PlainModel(ReadKeys), Grounded
    PROVE  Spec => []BfsConclusionIsComplete
<1>1. ASSUME RInv PROVE BfsConclusionIsComplete
  <2>. SUFFICES ASSUME report.kind \in {"all_healthy", "none_seen", "root_cause"}, ~options.scenarios,
                       PartialVisibility(store) = {}, Skips = {}
                PROVE  report.root = RootCause(Seen(world))
    BY DEF BfsConclusionIsComplete
  <2>1. BfsProbes(store) = {} /\ report.root = RootCause(store)
    BY <1>1 DEF RInv, ReportInv
  <2>2. store \in Store /\ world \in Worlds
    BY <1>1 DEF RInv, SInv, TInv, TypeOK
  <2>3. Entry \in Range(BfsWalk(store)) /\ Range(BfsWalk(store)) \subseteq Components
    BY WalkIsClosure, RangeOf DEF BfsWalk, Closed, Grounded
  <2>4. ASSUME NEW c \in Components
        PROVE  Unreadable(store[c]) = {} /\ \A f \in Range(store[c]) : Answers(world, c, f)
    <3>1. Unreadable(store[c]) = {}
      BY NothingUnread
    <3>2. ~Collected(store[c], SkipMark)
      BY DEF Skips
    <3>. QED  BY <1>1, <3>1, <3>2 DEF RInv, AnsweredUnlessSkipped
  <2>5. RootCauseFrom(Entry, store) = RootCauseFrom(Entry, Seen(world))
    BY <2>1, <2>2, <2>3, <2>4, FullReadingNamesTheCause
  <2>. QED  BY <2>1, <2>5 DEF RootCause
<1>. QED  BY <1>1, ReportHolds, PTL DEF Spec

-----------------------------------------------------------------------------
(* Occam over the graph decides as occam over the listing.                 *)

\* What a component depends on.
Needed(c) == {d \in Components : DependsOn(c, d)}

\* What is behind, and what is behind that.
Further(v) == [c \in Components |-> v[c] \cup UNION {v[d] : d \in v[c]}]

\* dependencyClosure, round by round.
LEMMA BehindRounds ==
    \E u :
       /\ u[0] = [c \in Components |-> Needed(c)]
       /\ \A n \in Nat : u[n] \in [Components -> SUBSET Components] /\ u[n + 1] = Further(u[n])
       /\ Behind = u[Cardinality(Components)]
<1> DEFINE S == [Components -> SUBSET Components]
           base == [c \in Components |-> {d \in Components : DependsOn(c, d)}]
           step == [x \in Nat \X S |-> Further(x[2])]
           sol(f) == f = [n \in Nat |->
                            IF n = 0 THEN [c \in Components |-> {d \in Components : DependsOn(c, d)}]
                            ELSE [c \in Components |-> f[n - 1][c] \cup UNION {f[n - 1][d] : d \in f[n - 1][c]}]]
           u == CHOOSE f : sol(f)
<1>1. Behind = u[Cardinality(Components)]
  BY DEF Behind
<1>2. base \in S /\ base = [c \in Components |-> Needed(c)]
  BY DEF Needed
<1>3. \A v \in S : Further(v) \in S
  <2>. SUFFICES ASSUME NEW v \in S PROVE Further(v) \in S
    OBVIOUS
  <2>1. \A c \in Components : v[c] \cup UNION {v[d] : d \in v[c]} \in SUBSET Components
    OBVIOUS
  <2>. QED  BY <2>1 DEF Further
<1>4. \A f, n : [c \in Components |-> f[n - 1][c] \cup UNION {f[n - 1][d] : d \in f[n - 1][c]}] = Further(f[n - 1])
  BY DEF Further
<1>5. \A f : sol(f) <=> f = [n \in Nat |-> IF n = 0 THEN base ELSE Further(f[n - 1])]
  BY <1>4, Zenon DEF base
<1> HIDE DEF S, base, sol
<1>6. step \in [Nat \X S -> S] /\ \A n \in Nat, v \in S : step[<<n, v>>] = Further(v)
  <2>1. \A x \in Nat \X S : x[2] \in S
    OBVIOUS
  <2>. QED  BY <1>3, <2>1
<1> HIDE DEF step
<1>7. PICK f : Defines(f, S, base, step)
  BY <1>2, <1>6, Recursion
<1>8. \A n \in Nat : n # 0 => f[n] = Further(f[n - 1])
  <2>. SUFFICES ASSUME NEW n \in Nat, n # 0 PROVE f[n] = Further(f[n - 1])
    OBVIOUS
  <2>1. n - 1 \in Nat /\ (n - 1) + 1 = n
    OBVIOUS
  <2>2. f[n] = step[<<n, f[n - 1]>>] /\ f[n - 1] \in S
    BY <1>7, <2>1 DEF Defines
  <2>. QED  BY <1>6, <2>1, <2>2
<1>9. f = [n \in Nat |-> f[n]] /\ f[0] = base
  BY <1>7 DEF Defines
<1>10. f = [n \in Nat |-> IF n = 0 THEN base ELSE Further(f[n - 1])]
  BY <1>8, <1>9
<1>11. sol(u)
  BY <1>5, <1>10
<1> HIDE DEF u
<1>12. u = [n \in Nat |-> IF n = 0 THEN base ELSE Further(u[n - 1])]
  BY <1>5, <1>11
<1>13. u[0] = base
  BY <1>12
<1>14. ASSUME NEW n \in Nat PROVE u[n + 1] = Further(u[n])
  <2>1. n + 1 \in Nat /\ n + 1 # 0 /\ (n + 1) - 1 = n
    OBVIOUS
  <2>2. \A m \in Nat : m # 0 => u[m] = Further(u[m - 1])
    BY <1>12
  <2>. QED  BY <2>1, <2>2
<1>15. \A n \in Nat : u[n] \in S
  <2> DEFINE P == {n \in Nat : u[n] \in S}
  <2>1. 0 \in P
    BY <1>2, <1>13
  <2>2. \A n \in Nat : n \in P => n + 1 \in P
    BY <1>3, <1>14
  <2> HIDE DEF P
  <2>3. \A n \in Nat : n \in P
    BY <2>1, <2>2, SetInduction
  <2>. QED  BY <2>3 DEF P
<1>. QED  BY <1>1, <1>2, <1>13, <1>14, <1>15 DEF S

\* Nothing leads out of it.
Complete(S) == \A c \in S : Needed(c) \subseteq S

\* After n rounds everything is there, or more than n components are.
LEMMA RoundsReach ==
    ASSUME NEW u, u[0] = [c \in Components |-> Needed(c)],
           \A n \in Nat : u[n] \in [Components -> SUBSET Components] /\ u[n + 1] = Further(u[n])
    PROVE  \A n \in Nat : \A c \in Components : \E S \in SUBSET u[n][c] :
              Needed(c) \subseteq S /\ (Complete(S) \/ Cardinality(S) >= n + 1)
<1> DEFINE has(n, c, S) == /\ S \in SUBSET u[n][c]
                           /\ Needed(c) \subseteq S /\ (Complete(S) \/ Cardinality(S) >= n + 1)
           T == {n \in Nat : \A c \in Components : \E S : has(n, c, S)}
<1>1. IsFiniteSet(Components)
  BY ModelAssumption
<1>2. \A c \in Components : Needed(c) \in SUBSET Components
  BY DEF Needed
<1>3. \A S \in SUBSET Components : IsFiniteSet(S) /\ Cardinality(S) \in Nat
  BY <1>1, FS_Subset, FS_CardinalityType
<1>4. ASSUME NEW c \in Components PROVE has(0, c, Needed(c))
  <2>1. Needed(c) \in SUBSET u[0][c]
    OBVIOUS
  <2>2. CASE Needed(c) = {}
    BY <2>1, <2>2 DEF Complete
  <2>3. CASE Needed(c) # {}
    <3>1. IsFiniteSet(Needed(c)) /\ Cardinality(Needed(c)) \in Nat
      BY <1>2, <1>3
    <3>2. Cardinality(Needed(c)) # 0
      BY <2>3, <3>1, FS_EmptySet
    <3>. QED  BY <2>1, <3>1, <3>2
  <2>. QED  BY <2>2, <2>3
<1>5. 0 \in T
  BY <1>4
<1>6. ASSUME NEW n \in Nat, n \in T PROVE n + 1 \in T
  <2>. SUFFICES ASSUME NEW c \in Components PROVE \E S : has(n + 1, c, S)
    OBVIOUS
  <2>1. /\ u[n] \in [Components -> SUBSET Components]
        /\ u[n + 1][c] = u[n][c] \cup UNION {u[n][d] : d \in u[n][c]}
    BY DEF Further
  <2>2. \A d \in Components : Needed(d) \subseteq u[n][d]
    BY <1>6
  <2>3. PICK S : has(n, c, S)
    BY <1>6
  <2> DEFINE more == S \cup UNION {Needed(d) : d \in S}
  <2>4. S \in SUBSET Components /\ more \in SUBSET Components
    BY <1>2, <2>1, <2>3
  <2>5. S \in SUBSET u[n + 1][c] /\ more \in SUBSET u[n + 1][c] /\ Needed(c) \subseteq S /\ Needed(c) \subseteq more
    BY <2>1, <2>2, <2>3
  <2>6. CASE Complete(S)
    BY <2>5, <2>6
  <2>7. CASE ~Complete(S)
    <3>1. S # more /\ S \subseteq more
      BY <2>7 DEF Complete
    <3> HIDE DEF more
    <3>2. /\ IsFiniteSet(more) /\ Cardinality(S) \in Nat /\ Cardinality(more) \in Nat
          /\ Cardinality(S) <= Cardinality(more) /\ Cardinality(S) # Cardinality(more)
      BY <1>3, <2>4, <3>1, FS_Subset
    <3>3. Cardinality(S) >= n + 1
      BY <2>3, <2>7
    <3>4. Cardinality(more) >= (n + 1) + 1
      <4> DEFINE a == Cardinality(S)
                 b == Cardinality(more)
      <4>1. a \in Nat /\ b \in Nat /\ a <= b /\ a # b /\ a >= n + 1
        BY <3>2, <3>3
      <4> HIDE DEF a, b
      <4>2. b >= (n + 1) + 1
        BY <4>1
      <4>. QED  BY <4>2 DEF b
    <3>. QED  BY <2>5, <3>4
  <2>. QED  BY <2>6, <2>7
<1> HIDE DEF T
<1>7. \A n \in Nat : n \in T
  BY <1>5, <1>6, SetInduction
<1>. QED  BY <1>7 DEF T

\* No round adds what a component does not depend on, however far.
LEMMA RoundsStay ==
    ASSUME NEW u, u[0] = [c \in Components |-> Needed(c)],
           \A n \in Nat : u[n] \in [Components -> SUBSET Components] /\ u[n + 1] = Further(u[n]),
           NEW K, \A c \in Components : Needed(c) \subseteq K[c],
           \A c, d, e \in Components : d \in K[c] /\ e \in K[d] => e \in K[c]
    PROVE  \A n \in Nat : \A c \in Components : u[n][c] \subseteq K[c]
<1> DEFINE T == {n \in Nat : \A c \in Components : u[n][c] \subseteq K[c]}
<1>1. 0 \in T
  OBVIOUS
<1>2. ASSUME NEW n \in Nat, n \in T PROVE n + 1 \in T
  <2>1. ASSUME NEW c \in Components, NEW e \in u[n + 1][c] PROVE e \in K[c]
    <3>1. u[n] \in [Components -> SUBSET Components] /\ e \in u[n][c] \cup UNION {u[n][d] : d \in u[n][c]}
      BY <2>1 DEF Further
    <3>2. CASE e \in u[n][c]
      BY <1>2, <3>2
    <3>3. CASE e \in UNION {u[n][d] : d \in u[n][c]}
      <4>1. PICK d \in u[n][c] : e \in u[n][d]
        BY <3>3
      <4>2. d \in Components /\ e \in Components
        BY <3>1, <4>1
      <4>. QED  BY <1>2, <4>1, <4>2
    <3>. QED  BY <3>1, <3>2, <3>3
  <2>. QED  BY <2>1
<1> HIDE DEF T
<1>3. \A n \in Nat : n \in T
  BY <1>1, <1>2, SetInduction
<1>. QED  BY <1>3 DEF T

\* A component depends on another in the graph's model as it does here.
LEMMA DependentIs ==
    /\ DOMAIN Modelled = Components
    /\ \A c, d \in Components : Dependent(Modelled, c, d) <=> DependsOn(c, d)
<1>1. DOMAIN Modelled = Components /\ \A c \in Components : Modelled[c].depends = Depends[c]
  BY DEF Modelled
<1>. QED  BY <1>1 DEF Dependent, DependsOn

\* dependencyClosure: the rounds find what is behind each component.
LEMMA ClosureIsBehind == Closure(Modelled) = Behind
<1> DEFINE m == Modelled
           N == Cardinality(Components)
           closed == {S \in SUBSET DOMAIN m : \A c \in S, d \in DOMAIN m : Dependent(m, c, d) => d \in S}
           over(c) == {S \in closed : \A d \in DOMAIN m : Dependent(m, c, d) => d \in S}
<1>1. Closure(m) = [c \in DOMAIN m |-> {d \in DOMAIN m : \A S \in over(c) : d \in S}]
  BY DEF Closure
<1>2. PICK u : /\ u[0] = [c \in Components |-> Needed(c)]
               /\ \A n \in Nat : u[n] \in [Components -> SUBSET Components] /\ u[n + 1] = Further(u[n])
               /\ Behind = u[N]
  BY BehindRounds
<1>3. N \in Nat /\ IsFiniteSet(Components)
  BY ModelAssumption, FS_CardinalityType
<1>4. Behind \in [Components -> SUBSET Components]
  BY <1>2, <1>3
<1>5. DOMAIN m = Components /\ \A c, d \in Components : Dependent(m, c, d) <=> d \in Needed(c)
  BY DependentIs DEF Needed
<1> HIDE DEF m
<1>6. ASSUME NEW c \in Components PROVE Closure(m)[c] \subseteq Behind[c]
  <2>1. PICK S \in SUBSET Behind[c] : Needed(c) \subseteq S /\ (Complete(S) \/ Cardinality(S) >= N + 1)
    BY <1>2, <1>3, RoundsReach
  <2>2. S \in SUBSET Components
    BY <1>4
  <2>3. Cardinality(S) \in Nat /\ Cardinality(S) <= N
    BY <1>3, <2>2, FS_Subset, FS_CardinalityType
  <2>4. Complete(S)
    BY <1>3, <2>1, <2>3
  <2>5. S \in over(c)
    BY <1>5, <2>1, <2>2, <2>4 DEF Complete
  <2>6. Closure(m)[c] = {d \in DOMAIN m : \A X \in over(c) : d \in X}
    BY <1>1, <1>5
  <2> HIDE DEF over
  <2>. QED  BY <2>5, <2>6
<1>7. ASSUME NEW c \in Components PROVE Behind[c] \subseteq Closure(m)[c]
  <2> DEFINE K == Closure(m)
  <2>1. \A x \in Components : Needed(x) \subseteq K[x]
    <3>1. \A x \in Components : Needed(x) \subseteq Components
      BY DEF Needed
    <3>. QED  BY <1>5, <3>1, BehindIsTransitive
  <2>2. \A x, d, e \in Components : d \in K[x] /\ e \in K[d] => e \in K[x]
    BY <1>5, BehindIsTransitive
  <2> HIDE DEF K
  <2>3. \A n \in Nat : \A x \in Components : u[n][x] \subseteq K[x]
    BY <1>2, <2>1, <2>2, RoundsStay
  <2>. QED  BY <1>2, <1>3, <2>3 DEF K
<1>8. Closure(m) = [c \in Components |-> Closure(m)[c]]
  BY <1>1, <1>5
<1> HIDE DEF over
<1>. QED  BY <1>4, <1>6, <1>7, <1>8 DEF m

\* A failure state of the listing is the failure it names in the graph's model.
LEMMA FailureIs ==
    ASSUME NamedOnce, NEW node \in Nodes
    PROVE  node.on \in Components /\ FailureAt(Modelled, node) = StateOf(node)
<1> DEFINE c == node.on
           F == {s \in Range(States[c]) : IsFailure(c, s)}
           at == {i \in DOMAIN States[c] : States[c][i].name = node.state}
<1>1. c \in Components /\ \E s \in F : s.name = node.state
  <2>1. PICK d \in Components : node \in {[on |-> d, state |-> s.name] : s \in {t \in Range(States[d]) : IsFailure(d, t)}}
    BY DEF Nodes
  <2>2. PICK s \in {t \in Range(States[d]) : IsFailure(d, t)} : node = [on |-> d, state |-> s.name]
    BY <2>1
  <2>. QED  BY <2>2
<1>2. Modelled[c].failures = F
  BY <1>1 DEF Modelled
<1>3. DOMAIN States[c] = 1..Len(States[c]) /\ Len(States[c]) \in Nat
  <2>1. States[c] \in Seq(Range(States[c]))
    BY <1>1, ModelAssumption
  <2>. QED  BY <2>1
<1>4. PICK s \in F : s.name = node.state
  BY <1>1
<1>5. PICK i \in DOMAIN States[c] : s = States[c][i]
  BY DEF Range
<1>6. at \in SUBSET (1..Len(States[c])) /\ i \in at
  BY <1>3, <1>4, <1>5
<1>7. \A j \in at : j = i
  BY <1>1, <1>4, <1>5 DEF NamedOnce
<1>8. Min(at) = i
  <2>1. Min(at) \in at
    <3> HIDE DEF at
    <3>. QED  BY <1>3, <1>6, MinInSet
  <2>. QED  BY <1>7, <2>1
<1>9. StateOf(node) = s
  BY <1>5, <1>8 DEF StateOf
<1>10. \A t \in F : t.name = node.state => t = s
  <2>. SUFFICES ASSUME NEW t \in F, t.name = node.state PROVE t = s
    OBVIOUS
  <2>1. PICK j \in DOMAIN States[c] : t = States[c][j]
    BY DEF Range
  <2>2. j \in at
    BY <2>1
  <2>. QED  BY <1>5, <1>7, <2>1, <2>2
<1>11. FailureAt(Modelled, node) = CHOOSE t \in F : t.name = node.state
  BY <1>2 DEF FailureAt
<1> HIDE DEF F
<1>12. (CHOOSE t \in F : t.name = node.state) = s
  BY <1>4, <1>10
<1>. QED  BY <1>1, <1>9, <1>11, <1>12

\* A failure carries on in the graph as in the listing.
LEMMA PropagatesIs ==
    ASSUME NEW r, NEW p \in Components, NEW c
    PROVE  Propagates(Modelled, Behind, r, p, c) <=> Carries(r, p, c)
<1> DEFINE dep(i) == Depends[p][i]
           hit(i) == {j \in DOMAIN dep(i).on : \/ dep(i).on[j] = r
                                               \/ dep(i).on[j] \in Components /\ r \in Behind[dep(i).on[j]]}
           met(i) == {j \in DOMAIN dep(i).on : dep(i).on[j] = r \/ r \in Behind[dep(i).on[j]]}
<1>1. DOMAIN Modelled = Components /\ Modelled[p].depends = Depends[p]
  BY DEF Modelled
<1>2. \A i \in DOMAIN Depends[p] : hit(i) = met(i)
  <2>. SUFFICES ASSUME NEW i \in DOMAIN Depends[p] PROVE hit(i) = met(i)
    OBVIOUS
  <2>1. dep(i).on \in Seq(Components)
    BY ModelAssumption
  <2>2. \A j \in DOMAIN dep(i).on : dep(i).on[j] \in Components
    BY <2>1
  <2>. QED  BY <2>2
<1>3. Propagates(Modelled, Behind, r, p, c) <=>
        \E i \in DOMAIN Depends[p] :
            c \in Range(dep(i).on) /\ (dep(i).need > 0 => Cardinality(hit(i)) > Len(dep(i).on) - dep(i).need)
  BY <1>1 DEF Propagates
<1>4. Carries(r, p, c) <=>
        \E i \in DOMAIN Depends[p] :
            c \in Range(dep(i).on) /\ (dep(i).need > 0 => Cardinality(met(i)) > Len(dep(i).on) - dep(i).need)
  BY DEF Carries
<1> HIDE DEF hit, met
<1>. QED  BY <1>2, <1>3, <1>4

\* BuildGraph: the graph has the nodes of the listing, and a failure goes on
\* from them to the same ones.
LEMMA GraphParts ==
    ASSUME NamedOnce
    PROVE  /\ Graph.nodes = Nodes /\ Graph.components = Components
           /\ Graph.observes = {c \in Components : Observable(c)}
           /\ \A r \in Components, n \in Nodes : Graph.next[r][n] = NextNodes(r, n)
<1> DEFINE m == Modelled
           nodes == UNION {{Node(c, s) : s \in m[c].failures} : c \in DOMAIN m}
           carried(r, c) == {d \in DOMAIN m : Dependent(m, d, c) /\ Propagates(m, Behind, r, d, c)}
           goes(r, n) == {k \in nodes : /\ k.on \in carried(r, n.on)
                                        /\ Matches(FailureAt(m, n).emits, FailureAt(m, k).triggeredBy)}
<1>1. Graph = GraphFrom(m, Behind)
  BY ClosureIsBehind DEF Graph, BuildGraph, The
<1>2. /\ DOMAIN m = Components
      /\ \A c \in Components : /\ m[c].failures = {s \in Range(States[c]) : IsFailure(c, s)}
                               /\ m[c].observes <=> Observable(c)
  BY DEF Modelled
<1>3. nodes = Nodes
  <2>1. \A c \in Components : {Node(c, s) : s \in m[c].failures} =
            {[on |-> c, state |-> s.name] : s \in {t \in Range(States[c]) : IsFailure(c, t)}}
    BY <1>2 DEF Node
  <2> HIDE DEF m
  <2>. QED  BY <1>2, <2>1 DEF Nodes
<1>4. /\ Graph.nodes = nodes /\ Graph.components = DOMAIN m
      /\ Graph.observes = {c \in DOMAIN m : m[c].observes}
      /\ Graph.next = [r \in DOMAIN m |-> [n \in nodes |-> goes(r, n)]]
  BY <1>1 DEF GraphFrom
<1>5. Graph.observes = {c \in Components : Observable(c)}
  BY <1>2, <1>4
<1>6. ASSUME NEW r \in Components, NEW n \in Nodes PROVE Graph.next[r][n] = NextNodes(r, n)
  <2>1. n.on \in Components /\ FailureAt(m, n) = StateOf(n)
    BY FailureIs
  <2>2. \A k \in Nodes : k.on \in Components /\ FailureAt(m, k) = StateOf(k)
    BY FailureIs
  <2>3. \A d \in Components : /\ Dependent(m, d, n.on) <=> DependsOn(d, n.on)
                              /\ Propagates(m, Behind, r, d, n.on) <=> Carries(r, d, n.on)
    BY <2>1, DependentIs, PropagatesIs
  <2>4. \A k \in Nodes : Matches(FailureAt(m, n).emits, FailureAt(m, k).triggeredBy)
                           <=> Triggers(StateOf(n).emits, StateOf(k).triggeredBy)
    BY <2>1, <2>2 DEF Matches, Triggers
  <2>5. \A k \in Nodes : k.on \in carried(r, n.on) <=> DependsOn(k.on, n.on) /\ Carries(r, k.on, n.on)
    BY <1>2, <2>2, <2>3
  <2>6. Graph.next[r][n] = goes(r, n)
    BY <1>2, <1>3, <1>4
  <2> HIDE DEF m, nodes, carried
  <2>7. goes(r, n) = NextNodes(r, n)
    BY <1>3, <2>4, <2>5 DEF NextNodes
  <2>. QED  BY <2>6, <2>7
<1> HIDE DEF m, nodes
<1>. QED  BY <1>2, <1>3, <1>4, <1>5, <1>6

\* Nothing is behind itself in the graph's model, so its ways end.
LEMMA GraphEnds ==
    ASSUME NamedOnce
    PROVE  Ranked(Graph, DepthOf(Modelled, Graph)) /\ Once(Graph)
<1>1. DOMAIN Modelled = Components
  BY DEF Modelled
<1>2. ASSUME NEW c \in Components PROVE IsFiniteSet(Modelled[c].failures)
  <2>1. IsFiniteSet(Range(States[c]))
    BY ModelAssumption, RangeIsFinite
  <2>2. Modelled[c].failures \in SUBSET Range(States[c])
    BY DEF Modelled
  <2>. QED  BY <2>1, <2>2, FS_Subset
<1>3. \A c \in Components : c \notin Closure(Modelled)[c]
  BY ClosureIsBehind, AcyclicAssumption
<1>4. Layered(Modelled)
  BY <1>1, <1>2, <1>3, ModelAssumption DEF Layered
<1>. QED  BY <1>4, LayeredIsRanked DEF Graph

\* Expand: the graph's chains are those of the listing.
LEMMA ExpandIsChains ==
    ASSUME NamedOnce
    PROVE  Expand(Graph) = Chains
<1> DEFINE g == Graph
           some == UNION {[1..n -> Nodes] : n \in 2..Cardinality(Components)}
<1>1. /\ g.nodes = Nodes /\ g.components = Components
      /\ g.observes = {c \in Components : Observable(c)}
      /\ \A r \in Components, n \in Nodes : g.next[r][n] = NextNodes(r, n)
  BY GraphParts
<1>2. \A n \in Nodes : n.on \in Components /\ (n.on \in g.observes <=> Observable(n.on))
  BY <1>1, FailureIs
<1> HIDE DEF g
<1>3. ASSUME NEW w \in some
      PROVE  Len(w) \in Nat /\ Len(w) >= 2 /\ \A i \in 1..Len(w) : w[i] \in Nodes
  <2>1. PICK n \in 2..Cardinality(Components) : w \in [1..n -> Nodes]
    BY <1>3
  <2>2. n \in Nat /\ n >= 2
    BY <2>1, ModelAssumption, FS_CardinalityType
  <2>3. Len(w) = n
    BY <2>1, <2>2
  <2>. QED  BY <2>1, <2>2, <2>3
<1>4. ASSUME NEW r \in Nodes PROVE ChainsOf(g, r) = ChainsFrom(r)
  <2> DEFINE goes(w) == \A i \in 1..(Len(w) - 1) : w[i + 1] \in Onward(g, r, w[i])
             carries(w) == \A i \in 1..(Len(w) - 1) : w[i + 1] \in NextNodes(r.on, w[i])
  <2>1. \A n \in Nodes : Onward(g, r, n) = NextNodes(r.on, n)
    BY <1>1, <1>2 DEF Onward
  <2>2. \A w \in some : goes(w) <=> carries(w)
    <3>. SUFFICES ASSUME NEW w \in some PROVE goes(w) <=> carries(w)
      OBVIOUS
    <3>1. \A i \in 1..(Len(w) - 1) : w[i] \in Nodes
      <4> DEFINE k == Len(w)
      <4>1. k \in Nat /\ \A i \in 1..k : w[i] \in Nodes
        BY <1>3
      <4> HIDE DEF k
      <4>2. \A i \in 1..(k - 1) : i \in 1..k
        BY <4>1
      <4>. QED  BY <4>1, <4>2 DEF k
    <3>. QED  BY <2>1, <3>1
  <2>3. RootWalks(g, r) = {w \in some : w[1] = r /\ goes(w)}
    BY <1>1 DEF RootWalks
  <2>4. Walks(r) = {w \in some : w[1] = r /\ carries(w)}
    BY DEF Walks
  <2> HIDE DEF goes, carries, some
  <2>5. RootWalks(g, r) = Walks(r) /\ \A w \in Walks(r) : w \in some
    BY <2>2, <2>3, <2>4
  <2>6. \A w \in Walks(r) : w[Len(w)].on \in g.observes <=> Observable(w[Len(w)].on)
    <3>. SUFFICES ASSUME NEW w \in Walks(r) PROVE w[Len(w)] \in Nodes
      BY <1>2
    <3> DEFINE k == Len(w)
    <3>1. k \in Nat /\ k >= 2 /\ \A i \in 1..k : w[i] \in Nodes
      BY <1>3, <2>5
    <3> HIDE DEF k
    <3>2. k \in 1..k
      BY <3>1
    <3>. QED  BY <3>1, <3>2 DEF k
  <2>7. {w \in {<<r>>} : r.on \in g.observes} = {w \in [1..1 -> {r}] : Observable(r.on)}
    <3>1. [1..1 -> {r}] = {<<r>>}
      OBVIOUS
    <3>. QED  BY <1>2, <3>1
  <2>8. {w \in RootWalks(g, r) : w[Len(w)].on \in g.observes} = {w \in Walks(r) : Observable(w[Len(w)].on)}
    BY <2>5, <2>6
  <2>. QED  BY <2>7, <2>8 DEF ChainsOf, ChainsFrom
<1>5. Expand(g) = UNION {ChainsOf(g, r) : r \in Nodes}
  BY <1>1, ExpandIs
<1>. QED  BY <1>4, <1>5 DEF Chains, g

\* FilterLive: a chain is live in the graph when it is in the listing.
LEMMA LiveIs ==
    ASSUME NamedOnce, NEW st
    PROVE  /\ LiveOf(Expand(Graph), Liveness(st)) = Live(st)
           /\ Liveness(st).nodes \subseteq Graph.nodes
           /\ IsFiniteSet(Live(st))
<1> DEFINE live == Liveness(st)
           g == Graph
<1>1. /\ live.nodes = {n \in Nodes : StepLive(st, n)}
      /\ live.edges = {e \in Components \X Components : ~SatisfiedGroup(st, e[2], e[1])}
  BY DEF Liveness
<1>2. ASSUME NEW n \in Nodes, NEW k \in Nodes
      PROVE  Passes(live, n, k) <=> StepLive(st, k) /\ ~SatisfiedGroup(st, k.on, n.on)
  <2>1. n.on \in Components /\ k.on \in Components
    BY FailureIs
  <2>. QED  BY <1>1, <2>1 DEF Passes
<1> HIDE DEF live
<1>3. ASSUME NEW w \in Chains
      PROVE  (w[1] \in live.nodes /\ \A i \in 1..(Len(w) - 1) : Passes(live, w[i], w[i + 1])) <=> ChainLive(st, w)
  <2> DEFINE k == Len(w)
  <2>1. k \in Nat /\ DOMAIN w = 1..k /\ \A i \in 1..k : w[i] \in Nodes
    BY ChainType
  <2>2. k >= 1
    <3>1. PICK r \in Graph.nodes : w \in ChainsOf(Graph, r)
      BY ExpandIs, ExpandIsChains
    <3>2. w \in RootWalks(Graph, r) \/ w = <<r>>
      BY <3>1 DEF ChainsOf
    <3>3. CASE w = <<r>>
      BY <3>3
    <3>4. CASE w \in RootWalks(Graph, r)
      <4>1. Cardinality(Graph.components) \in Nat
        BY GraphEnds DEF Ranked
      <4>2. PICK n \in 2..Cardinality(Graph.components) : w \in [1..n -> Graph.nodes]
        BY <3>4 DEF RootWalks
      <4>3. n \in Nat /\ n >= 2
        BY <4>1, <4>2
      <4>. QED  BY <4>2, <4>3
    <3>. QED  BY <3>2, <3>3, <3>4
  <2> HIDE DEF k
  <2>3. 1 \in 1..k /\ (\A i \in 1..(k - 1) : i \in 1..k /\ i + 1 \in 1..k)
        /\ (\A i \in 1..k : i = 1 \/ (i - 1 \in 1..(k - 1) /\ (i - 1) + 1 = i))
        /\ (1..k) \ {k} = 1..(k - 1)
    BY <2>1, <2>2
  <2>4. \A i \in 1..(k - 1) : Passes(live, w[i], w[i + 1])
           <=> StepLive(st, w[i + 1]) /\ ~SatisfiedGroup(st, w[i + 1].on, w[i].on)
    BY <1>2, <2>1, <2>3
  <2>5. w[1] \in live.nodes <=> StepLive(st, w[1])
    BY <1>1, <2>1, <2>3
  <2>6. (w[1] \in live.nodes /\ \A i \in 1..(k - 1) : Passes(live, w[i], w[i + 1]))
           <=> (\A i \in 1..k : StepLive(st, w[i])) /\ \A i \in 1..(k - 1) : ~SatisfiedGroup(st, w[i + 1].on, w[i].on)
    BY <2>3, <2>4, <2>5
  <2>7. ChainLive(st, w) <=>
           (\A i \in 1..k : StepLive(st, w[i])) /\ \A i \in 1..(k - 1) : ~SatisfiedGroup(st, w[i + 1].on, w[i].on)
    BY <2>1, <2>3 DEF ChainLive, k
  <2>. QED  BY <2>6, <2>7 DEF k
<1>4. LiveOf(Expand(g), live) = Live(st)
  BY <1>3, ExpandIsChains DEF LiveOf, Live
<1>5. live.nodes \subseteq g.nodes
  BY <1>1, GraphParts
<1>6. IsFiniteSet(LiveOf(Expand(g), live))
  <2> DEFINE of == [r \in g.nodes |-> LiveOf(ChainsOf(g, r), live)]
             F == {of[r] : r \in g.nodes}
  <2>1. \A T \in F : IsFiniteSet(T)
    BY GraphEnds, FromRootCounts
  <2>2. IsFiniteSet(F)
    <3>1. IsFiniteSet(g.nodes)
      BY GraphEnds DEF Ranked
    <3> HIDE DEF of, g
    <3>. QED  BY <3>1, ImageIsFinite
  <2>3. LiveOf(Expand(g), live) = UNION F
    <3>1. Expand(g) = UNION {ChainsOf(g, r) : r \in g.nodes}
      BY ExpandIs
    <3>2. \A C : LiveOf(C, live) = {w \in C : w \in LiveOf(C, live)}
      BY DEF LiveOf
    <3>3. \A C, D : \A w \in C : C \subseteq D => (w \in LiveOf(C, live) <=> w \in LiveOf(D, live))
      BY DEF LiveOf
    <3>4. \A r \in g.nodes : of[r] = LiveOf(ChainsOf(g, r), live) /\ ChainsOf(g, r) \subseteq Expand(g)
      BY <3>1
    <3> HIDE DEF g, of
    <3>. QED  BY <3>1, <3>2, <3>3, <3>4
  <2> HIDE DEF F
  <2>. QED  BY <2>1, <2>2, <2>3, FS_UNION
<1>. QED  BY <1>4, <1>5, <1>6 DEF live

\* SumSet over no number, or one.
LEMMA SumOfOne ==
    /\ SumSet({}) = 0
    /\ \A x \in Int : SumSet({x}) = x
<1> DEFINE turn(h, s) == IF s = {} THEN 0 ELSE (CHOOSE x \in s : TRUE) + h[s \ {CHOOSE x \in s : TRUE}]
           sol(S, h) == h = [s \in SUBSET S |-> turn(h, s)]
<1>1. \A S : SumSet(S) = (CHOOSE h : sol(S, h))[S]
  BY Zenon DEF SumSet, FoldSet, MapThenFoldSet
<1>2. \A h : turn(h, {}) = 0
  OBVIOUS
<1>3. \A h : \A x : turn(h, {x}) = x + h[{}]
  <2>. SUFFICES ASSUME NEW h, NEW x PROVE turn(h, {x}) = x + h[{}]
    OBVIOUS
  <2>1. (CHOOSE y \in {x} : TRUE) = x /\ {x} \ {x} = {} /\ {x} # {}
    OBVIOUS
  <2>. QED  BY <2>1
<1> HIDE DEF turn
<1>4. SumSet({}) = 0
  <2> DEFINE e == [s \in SUBSET {} |-> 0]
             h == CHOOSE f : sol({}, f)
  <2>1. \A s \in SUBSET {} : turn(e, s) = 0
    BY <1>2
  <2>2. sol({}, e)
    BY <2>1
  <2> HIDE DEF e, sol
  <2>3. sol({}, h)
    BY <2>2
  <2> HIDE DEF h
  <2>4. h[{}] = turn(h, {})
    <3>1. h = [s \in SUBSET {} |-> turn(h, s)]
      BY <2>3 DEF sol
    <3>2. {} \in SUBSET {}
      OBVIOUS
    <3>. QED  BY <3>1, <3>2
  <2>. QED  BY <1>1, <1>2, <2>4 DEF h
<1>5. ASSUME NEW x \in Int PROVE SumSet({x}) = x
  <2> DEFINE S == {x}
             e == [s \in SUBSET S |-> IF s = {} THEN 0 ELSE x]
             h == CHOOSE f : sol(S, f)
  <2>0. {} \in SUBSET S /\ S \in SUBSET S /\ S # {} /\ \A s \in SUBSET S : s = {} \/ s = S
    OBVIOUS
  <2>1. e[{}] = 0
    BY <2>0
  <2>2. turn(e, S) = x /\ turn(e, {}) = 0
    <3>1. turn(e, S) = x + e[{}]
      BY <1>3
    <3> HIDE DEF e, S
    <3>. QED  BY <1>2, <2>1, <3>1
  <2>3. sol(S, e)
    <3>1. e[S] = x /\ e[{}] = 0
      BY <2>0
    <3>2. e = [s \in SUBSET S |-> e[s]]
      OBVIOUS
    <3> HIDE DEF e, S
    <3>3. \A s \in SUBSET S : turn(e, s) = e[s]
      BY <2>0, <2>2, <3>1
    <3>. QED  BY <3>2, <3>3
  <2> HIDE DEF e, sol
  <2>4. sol(S, h)
    BY <2>3
  <2> HIDE DEF h
  <2>5. h[{}] = turn(h, {}) /\ h[S] = turn(h, S)
    <3>1. h = [s \in SUBSET S |-> turn(h, s)]
      BY <2>4 DEF sol
    <3> HIDE DEF S
    <3>. QED  BY <2>0, <3>1
  <2>6. h[S] = x
    <3>1. h[S] = x + h[{}]
      BY <1>3, <2>5
    <3>2. h[{}] = 0
      BY <1>2, <2>5
    <3>. QED  BY <3>1, <3>2
  <2>7. SumSet(S) = h[S]
    BY <1>1 DEF h
  <2>. QED  BY <2>6, <2>7
<1>. QED  BY <1>4, <1>5

\* Count: the counts are those of the live chains.
LEMMA GraphCounts ==
    ASSUME NamedOnce, NEW st
    PROVE  /\ LiveCount(Graph, Liveness(st)) = Cardinality(Live(st))
           /\ \A c \in Components :
                 Touch(Graph, Liveness(st))[c] = Cardinality({w \in Live(st) : Touches(w, c)})
<1> DEFINE live == Liveness(st)
<1>1. LiveOf(Expand(Graph), live) = Live(st) /\ Graph.components = Components
  BY LiveIs, GraphParts
<1>2. LiveCount(Graph, live) = Cardinality(LiveOf(Expand(Graph), live))
  BY GraphEnds, CountIsListing
<1>3. \A c \in Graph.components : Touch(Graph, live)[c] = Cardinality(Meeting(LiveOf(Expand(Graph), live), c))
  BY GraphEnds, TouchIsListing
<1>4. \A c : Meeting(Live(st), c) = {w \in Live(st) : Touches(w, c)}
  BY DEF Meeting, Touches
<1> HIDE DEF live
<1>. QED  BY <1>1, <1>2, <1>3, <1>4 DEF live

\* A failure is some component's.
LEMMA NodeIsOn == \A n \in Nodes : n.on \in Components
  BY DEF Nodes

\* pickSymptomInward: a chain has one next probe at most.
LEMMA OneProbe ==
    ASSUME NEW st, NEW chain \in Chains
    PROVE  /\ \A p \in ProbeFor(st, chain) : p.on \in Components
           /\ \A p, q \in ProbeFor(st, chain) : p = q
<1> DEFINE open == {i \in DOMAIN chain : Uncollected(st, chain[i].on, StepFacts(chain, i)) # {}}
           of(i) == FirstUncollected(st, chain[i].on, StepFacts(chain, i))
<1>1. DOMAIN chain = 1..Len(chain) /\ Len(chain) \in Nat /\ \A i \in DOMAIN chain : chain[i] \in Nodes
  BY ChainType
<1>2. \A i \in open : i \in Nat /\ chain[i].on \in Components
  <2>1. \A i \in DOMAIN chain : chain[i].on \in Components
    BY <1>1, NodeIsOn
  <2>. QED  BY <1>1, <2>1
<1>3. ProbeFor(st, chain) = UNION {of(i) : i \in Lasts(open)}
  BY DEF ProbeFor
<1> HIDE DEF open
<1>4. \A i, j \in Lasts(open) : i = j /\ i \in open
  BY <1>2 DEF Lasts
<1>5. ASSUME NEW i \in open
      PROVE  /\ \A p \in of(i) : p.on \in Components
             /\ \A p, q \in of(i) : p = q
  <2> DEFINE c == chain[i].on
             U == Uncollected(st, c, StepFacts(chain, i))
  <2>1. c \in Components
    BY <1>2
  <2>2. \A j \in U : j \in Nat
    <3>1. TypeFacts[c] \in Seq(Keys)
      BY <2>1, ModelAssumption
    <3>2. \A j \in DOMAIN TypeFacts[c] : j \in Nat
      BY <3>1
    <3>. QED  BY <3>2 DEF Uncollected
  <2>3. of(i) = {[on |-> c, fact |-> TypeFacts[c][j]] : j \in Firsts(U)}
    BY DEF FirstUncollected
  <2> HIDE DEF U
  <2>4. \A j, k \in Firsts(U) : j = k
    BY <2>2 DEF Firsts
  <2> HIDE DEF c
  <2>. QED  BY <2>1, <2>3, <2>4
<1> HIDE DEF of
<1>. QED  BY <1>3, <1>4, <1>5

\* rank: what a chain gains, by the counts.
GainOf(st, touch, w) == SumSet({touch[p.on] - 1 : p \in ProbeFor(st, w)})

\* It is what the listing says, and a number.
LEMMA GainIs ==
    ASSUME NamedOnce, NEW st, NEW w \in Live(st)
    PROVE  /\ GainOf(st, Touch(Graph, Liveness(st)), w) = Eliminates(st, Live(st), w)
           /\ Eliminates(st, Live(st), w) \in Int
<1> DEFINE touch == Touch(Graph, Liveness(st))
           met(c) == Cardinality({v \in Live(st) : Touches(v, c)})
           P == ProbeFor(st, w)
<1>1. w \in Chains
  BY DEF Live
<1>2. (\A p \in P : p.on \in Components) /\ \A p, q \in P : p = q
  BY <1>1, OneProbe
<1>3. \A c \in Components : touch[c] = met(c)
  BY GraphCounts
<1>4. \A c : met(c) \in Int
  <2>. SUFFICES ASSUME NEW c PROVE met(c) \in Nat
    OBVIOUS
  <2>1. IsFiniteSet(Live(st)) /\ {v \in Live(st) : Touches(v, c)} \in SUBSET Live(st)
    BY LiveIs
  <2>. QED  BY <2>1, FS_Subset, FS_CardinalityType
<1> HIDE DEF touch, met, P
<1>5. {touch[p.on] - 1 : p \in P} = {met(p.on) - 1 : p \in P}
  BY <1>2, <1>3
<1>6. Eliminates(st, Live(st), w) = SumSet({met(p.on) - 1 : p \in P})
  BY DEF Eliminates, met, P
<1>7. SumSet({met(p.on) - 1 : p \in P}) \in Int
  <2>1. CASE P = {}
    <3>1. {met(p.on) - 1 : p \in P} = {}
      BY <2>1
    <3>. QED  BY <3>1, SumOfOne
  <2>2. CASE P # {}
    <3>1. PICK q \in P : TRUE
      BY <2>2
    <3>2. P = {q}
      BY <1>2, <3>1
    <3>3. {met(p.on) - 1 : p \in P} = {met(q.on) - 1} /\ met(q.on) - 1 \in Int
      BY <1>4, <3>2
    <3>. QED  BY <3>3, SumOfOne
  <2>. QED  BY <2>1, <2>2
<1>. QED  BY <1>5, <1>6, <1>7 DEF GainOf, touch, P

\* A chain that no other beats is one of the shortest.
LEMMA ChosenIs ==
    ASSUME NamedOnce, NEW st
    PROVE  /\ ChosenOnGraph(st, ShortestLive(Graph, Liveness(st)), Touch(Graph, Liveness(st))) = Chosen(st)
           /\ \A chain : Live(st) = {chain} => Chosen(st) = {chain}
<1> DEFINE touch == Touch(Graph, Liveness(st))
           live == Live(st)
           layer == ShortestLive(Graph, Liveness(st))
           gain == [w \in live |-> Eliminates(st, live, w)]
           read == [w \in layer |-> GainOf(st, touch, w)]
<1>1. layer = {w \in live : \A v \in live : Len(w) <= Len(v)}
  <2>1. /\ LiveOf(Expand(Graph), Liveness(st)) = live
        /\ Liveness(st).nodes \subseteq Graph.nodes
    BY LiveIs
  <2>. QED  BY <2>1, GraphEnds, ShortestIs
<1>2. Chosen(st) = {a \in live : \A b \in live : ~Better(gain, b, a)}
  <2>1. \A L : UNION {ChosenAmong(st, x) : x \in {L}} = ChosenAmong(st, L)
    OBVIOUS
  <2>2. \A L : ChosenAmong(st, L) = {a \in L : \A b \in L : ~Better([w \in L |-> Eliminates(st, L, w)], b, a)}
    BY DEF ChosenAmong
  <2>. QED  BY <2>1, <2>2 DEF Chosen
<1>3. ChosenOnGraph(st, layer, touch) = {a \in layer : \A b \in layer : ~Better(read, b, a)}
  BY DEF ChosenOnGraph, GainOf
<1>4. \A w \in live : Len(w) \in Nat
  BY ChainType DEF Live
<1>5. \A w \in layer : read[w] = gain[w]
  <2>1. layer \subseteq live
    BY <1>1
  <2> HIDE DEF layer
  <2>. QED  BY <2>1, GainIs
<1>6. \A w \in live : gain[w] \in Int
  BY GainIs
<1> HIDE DEF live, layer, gain, read, touch
<1>7. \A a, b \in layer : Better(read, b, a) <=> Better(gain, b, a)
  BY <1>5 DEF Better
<1>8. ASSUME NEW a \in live, \A b \in live : ~Better(gain, b, a) PROVE a \in layer
  BY <1>1, <1>4, <1>8 DEF Better
<1>9. ASSUME NEW a \in layer, NEW b \in live, b \notin layer PROVE ~Better(gain, b, a)
  <2>1. PICK v \in live : ~(Len(b) <= Len(v))
    BY <1>1, <1>9
  <2>2. Len(a) <= Len(v) /\ a \in live
    BY <1>1
  <2> DEFINE k == Len(a)
             l == Len(b)
             n == Len(v)
  <2>3. k \in Nat /\ l \in Nat /\ n \in Nat /\ ~(l <= n) /\ k <= n
    BY <1>4, <2>1, <2>2
  <2> HIDE DEF k, l, n
  <2>4. ~(l < k) /\ l # k
    BY <2>3
  <2>. QED  BY <2>4 DEF Better, k, l
<1>10. ChosenOnGraph(st, layer, touch) = Chosen(st)
  <2>1. layer \subseteq live
    BY <1>1
  <2>. QED  BY <1>2, <1>3, <1>7, <1>8, <1>9, <2>1
<1>11. ASSUME NEW chain, live = {chain} PROVE Chosen(st) = {chain}
  <2>1. Len(chain) \in Nat /\ gain[chain] \in Int
    BY <1>4, <1>6, <1>11
  <2> DEFINE k == Len(chain)
             x == gain[chain]
  <2>2. k \in Nat /\ x \in Int
    BY <2>1
  <2> HIDE DEF k, x
  <2>3. ~(k < k) /\ ~(x > x)
    BY <2>2
  <2>4. ~Better(gain, chain, chain)
    BY <2>3 DEF Better, k, x
  <2>. QED  BY <1>2, <1>11, <2>4
<1>. QED  BY <1>10, <1>11 DEF live, layer, touch

\* occamOnGraph: done, stuck or a probe, as the listing has it.
LEMMA DecisionsAre ==
    ASSUME NamedOnce, NEW st
    PROVE  GraphDecisions(st) = ListedDecisions(st)
<1> DEFINE live == Liveness(st)
           done == LiveCount(Graph, live) = 1
           chosen == ChosenOnGraph(st, ShortestLive(Graph, live), Touch(Graph, live))
           probes == UNION {ProbeFor(st, a) : a \in chosen}
<1>1. GraphDecisions(st) = {Decision(done, chosen, probes)}
  <2> DEFINE pick(l, t) == ChosenOnGraph(st, ShortestLive(Graph, l), t)
             answer(l, c) == Decision(LiveCount(Graph, l) = 1, c, UNION {ProbeFor(st, a) : a \in c})
             answers(l) == {answer(l, c) : c \in {pick(l, t) : t \in {Touch(Graph, l)}}}
  <2>1. GraphDecisions(st) = UNION {answers(l) : l \in {live}}
    BY DEF GraphDecisions
  <2>2. \A l : answers(l) = {answer(l, pick(l, Touch(Graph, l)))}
    <3> HIDE DEF answer, pick
    <3>. QED  OBVIOUS
  <2>3. answer(live, pick(live, Touch(Graph, live))) = Decision(done, chosen, probes)
    OBVIOUS
  <2> HIDE DEF answer, answers, pick, live, done, chosen, probes
  <2>. QED  BY <2>1, <2>2, <2>3
<1>2. ListedDecisions(st) = {Decision(OccamDone(st), Live(st), OccamProbes(st))}
  BY DEF ListedDecisions
<1>3. done <=> OccamDone(st)
  <2>1. LiveCount(Graph, live) = Cardinality(Live(st)) /\ IsFiniteSet(Live(st))
    BY GraphCounts, LiveIs
  <2>2. (\E chain : Live(st) = {chain}) <=> \E chain \in Live(st) : Live(st) = {chain}
    OBVIOUS
  <2> HIDE DEF live
  <2>3. done <=> \E chain : Live(st) = {chain}
    BY <2>1, FS_Singleton
  <2>. QED  BY <2>2, <2>3 DEF OccamDone
<1>4. chosen = Chosen(st)
  BY ChosenIs
<1>5. done \in BOOLEAN
  OBVIOUS
<1> HIDE DEF live, done, chosen
<1>6. CASE OccamDone(st)
  <2>1. PICK chain : Live(st) = {chain}
    BY <1>6 DEF OccamDone
  <2>2. chosen = Live(st)
    BY <1>4, <2>1, ChosenIs
  <2>. QED  BY <1>1, <1>2, <1>3, <1>6, <2>2 DEF Decision
<1>7. CASE ~OccamDone(st)
  <2>1. OccamProbes(st) = probes
    BY <1>4, <1>7 DEF OccamProbes
  <2> HIDE DEF probes
  <2>. QED  BY <1>1, <1>2, <1>3, <1>7, <2>1 DEF Decision
<1>. QED  BY <1>6, <1>7

\* Occam over the graph counts and decides as occam over the listing: for every
\* model without cycles whose components name their states apart, whatever was
\* collected, the number of live chains, the number of them through each
\* component, and what is concluded or asked next are those of the listing
\* (occam_graph.go; graphdp.go: "The chains counted are exactly Expand's").
THEOREM CountsAreOfListing ==
    ASSUME NamedOnce
    PROVE  Spec => []CountsMatchListing
<1>1. CountsMatchListing
  BY GraphCounts, DecisionsAre DEF CountsMatchListing
<1>. QED  BY <1>1, PTL

=============================================================================
