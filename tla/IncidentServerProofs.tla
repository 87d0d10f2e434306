------------------------ MODULE IncidentServerProofs ------------------------
(***************************************************************************)
(* What the lock registry buys, for any number of requests and incidents,  *)
(* with crashes and failing saves, as long as no id is used twice: the     *)
(* server implements IncidentRegister, and keeps the probe budget.         *)
(*                                                                         *)
(* The end of an incident is what the argument turns on.  While it is not  *)
(* on disk everybody on the incident has the registry's mutex, so what a   *)
(* writer loaded is what it replaces.  Once it is on disk mutexes may      *)
(* multiply, but whatever is loaded from then on says that it ended.       *)
(***************************************************************************)
EXTENDS IncidentServer, FiniteSetTheorems, TLAPS

AtLock(r)  == pc[r] \in Steps \ {"new"} /\ ~Is(r, "start")
Working(r) == Holds(r) /\ pc[r] # "holding"
Saving(r)  == pc[r] \in {"writing", "renaming"}
Open(r)    == file[On(r)].ended = None
Records(r) == call[r].op \in {"fact_add", "probe"}

\* Everybody at the lock of an open incident is at the same one.
OneMutex == \A r \in Requests : AtLock(r) /\ Open(r) =>
                registry[On(r)] # 0 /\ lock[r] = registry[On(r)]

Exclusion == \A q, r \in Requests :
    q # r /\ Holds(q) /\ Holds(r) /\ On(q) = On(r) /\ lock[q] = lock[r] => Shares(q) /\ Shares(r)

\* Only writers save, and only an end evicts.
Roles == \A r \in Requests :
    /\ pc[r] \in {"writing", "renaming", "saved", "evicted"} => ~Reads(r)
    /\ pc[r] = "evicted" => Is(r, "end")

StartsAreFirst == \A r \in Requests : Is(r, "start") =>
    /\ \A q \in Requests : Is(q, "start") /\ On(q) = On(r) => q = r
    /\ Saving(r) => ~file[On(r)].started
    /\ pc[r] \in {"new", "writing", "renaming", "saved"} \cup Over

\* Nobody works, or has worked, on an incident that does not exist.
NothingBefore == \A i \in Incidents : ~file[i].started =>
    /\ file[i].ended = None
    /\ \A r \in Requests : On(r) = i => ~Working(r) /\ (pc[r] = "done" => Is(r, "start"))

\* A copy is of an incident that exists, and knows of its end.
CopiesKnowTheEnd == \A r \in Requests :
    /\ pc[r] = "loaded" \/ Saving(r) => copy[r].started
    /\ pc[r] \in {"loaded", "writing"} /\ ~Open(r) => copy[r].ended = file[On(r)].ended
    /\ Saving(r) /\ Is(r, "end") => copy[r].ended # None
    /\ pc[r] \in {"saved", "evicted"} /\ Is(r, "end") => ~Open(r)

\* What is about to be renamed is one's own, or knows of the end.
TmpKnowsTheEnd == \A r \in Requests : pc[r] = "renaming" =>
    IF Open(r) THEN tmp[On(r)] = copy[r]
    ELSE tmp[On(r)].started => tmp[On(r)].ended = file[On(r)].ended

LockInv == /\ OneMutex /\ Exclusion /\ Roles /\ StartsAreFirst /\ NothingBefore
           /\ CopiesKnowTheEnd /\ TmpKnowsTheEnd

\* What a writer saves of an open incident holds all there was, and its own.
NothingIsDropped == \A r \in Requests : pc[r] # "new" /\ Open(r) =>
    /\ AtLock(r) /\ pc[r] \in {"loaded", "writing", "renaming"} =>
          \A q \in Requests : Acknowledges(file[On(r)], q) => Acknowledges(copy[r], q)
    /\ Saving(r) /\ Records(r) => Acknowledges(copy[r], r)
    /\ pc[r] \in {"saved", "done"} /\ Records(r) => Acknowledges(file[On(r)], r)

-----------------------------------------------------------------------------
(* Type correctness.                                                       *)

USE IncidentFileAssumption, IncidentServerAssumption

\* No file, and a new one, are files.
LEMMA EmptyFiles == NoFile \in File /\ NewFile \in File
  BY DEF NoFile, NewFile, File

\* The edits of a state file give state files.
LEMMA EditsAreFiles ==
    ASSUME NEW f \in File, NEW r \in Requests
    PROVE  /\ \A k \in Keys, who \in {"agent", "probe"} : WithFact(f, k, who, r) \in File
           /\ \A v \in {r, f.verdict} : Closed(f, r, v) \in File
<1>1. ASSUME NEW k \in Keys, NEW who \in {"agent", "probe"} PROVE WithFact(f, k, who, r) \in File
  <2>1. [key |-> k, by |-> who, from |-> r] \in Entry
    BY DEF Entry
  <2> QED BY <2>1 DEF WithFact, File
<1>2. ASSUME NEW v \in {r, f.verdict} PROVE Closed(f, r, v) \in File
  BY DEF Closed, FirstEnd, File
<1> QED BY <1>1, <1>2

\* TypeOK is inductive.
THEOREM ServerTypeCorrect == Spec => []TypeOK
<1>1. Init => TypeOK
  BY EmptyFiles DEF Init, TypeOK, Steps, NoCall
<1>2. TypeOK /\ [Next]_vars => TypeOK'
  <2> SUFFICES ASSUME TypeOK, [Next]_vars PROVE TypeOK'
    OBVIOUS
  <2> USE DEF TypeOK, Steps, Over
  <2>1. CASE UNCHANGED vars
    BY <2>1 DEF vars
  <2>2. CASE Crash
    <3>1. pc' \in [Requests -> Steps \cup Over] /\ lock' \in [Requests -> Nat]
      BY <2>2 DEF Crash
    <3>2. \A r \in Requests : pc'[r] = "new" <=> pc[r] = "new"
      BY <2>2 DEF Crash
    <3>3. copy' \in [Requests -> File]
      BY <2>2, EmptyFiles DEF Crash
    <3> QED BY <2>2, <3>1, <3>2, <3>3 DEF Crash
  <2>3. ASSUME NEW r \in Requests, Arrive(r) PROVE TypeOK'
    <3> PICK o \in Ops \ {"start"}, i \in Incidents :
             /\ call' = [call EXCEPT ![r] = [op |-> o, on |-> i]]
             /\ lock' = [lock EXCEPT ![r] = LockFor(i)]
             /\ registry' = [registry EXCEPT ![i] = LockFor(i)]
             /\ minted' = [minted EXCEPT ![i] = IF LockFor(i) > @ THEN @ + 1 ELSE @]
      BY <2>3 DEF Arrive
    <3>1. LockFor(i) \in Nat /\ LockFor(i) # 0 /\ LockFor(i) = minted'[i]
      BY DEF LockFor
    <3>2. minted' \in [Incidents -> Nat] /\ registry' \in [Incidents -> Nat]
      BY <3>1
    <3>3. \A j \in Incidents : registry'[j] \in {0, minted'[j]}
      BY <3>1, <3>2
    <3>4. [op |-> o, on |-> i] # NoCall
      BY DEF NoCall
    <3> QED BY <2>3, <3>1, <3>2, <3>3, <3>4 DEF Arrive, Go
  <2>4. ASSUME NEW r \in Requests, Start(r) PROVE TypeOK'
    BY <2>4, EmptyFiles DEF Start, Go, NoCall
  <2>5. ASSUME NEW r \in Requests, Serve(r) PROVE TypeOK'
    <3>1. \A from, how : Leave(r, from, how) /\ from \in Steps \ {"new"} /\ how \in Over
             /\ tmp' \in [Incidents -> File] => TypeOK'
      BY DEF Leave, Go
    <3>2. pc[r] # "new" => On(r) \in Incidents
      BY DEF On
    <3>3. CASE Acquire(r)
      BY <3>3 DEF Acquire, Go
    <3>4. CASE Load(r)
      BY <3>1, <3>2, <3>4 DEF Load, Go
    <3>5. \A f : Edit(r, f) /\ f \in File => TypeOK'
      BY DEF Edit, Go
    <3>6. CASE Work(r)
      <4>1. CASE FactAdd(r)
        BY <3>5, <4>1, EditsAreFiles DEF FactAdd
      <4>2. CASE Answer(r) \/ ProbeDeclined(r)
        BY <3>1, <4>2 DEF Answer, ProbeDeclined
      <4>3. CASE ProbeRuns(r)
        BY <3>5, <4>3, EditsAreFiles DEF ProbeRuns, Wanted
      <4>4. CASE IncidentEnd(r)
        <5>1. copy[r] \in File
          OBVIOUS
        <5> QED BY <3>5, <4>4, <5>1, EditsAreFiles DEF IncidentEnd
      <4> QED BY <3>6, <4>1, <4>2, <4>3, <4>4 DEF Work
    <3>7. CASE WriteTmp(r)
      BY <3>1, <3>2, <3>7 DEF WriteTmp, Go
    <3>8. CASE Rename(r)
      BY <3>1, <3>2, <3>8, EmptyFiles DEF Rename, Go
    <3>9. CASE Evict(r)
      BY <3>9 DEF Evict, Go
    <3>10. CASE Return(r)
      BY <3>1, <3>10 DEF Return
    <3> QED BY <2>5, <3>3, <3>4, <3>6, <3>7, <3>8, <3>9, <3>10 DEF Serve
  <2> QED BY <2>1, <2>2, <2>3, <2>4, <2>5 DEF Next
<1>3. QED
  BY <1>1, <1>2, PTL DEF Spec
-----------------------------------------------------------------------------
(* One writer until the end.                                               *)

\* Nobody but an exclusive holder holds a mutex of an open incident.
LEMMA HoldsAlone ==
    ASSUME TypeOK, LockInv, NEW q \in Requests, NEW r \in Requests, q # r, On(q) = On(r),
           Open(r), Holds(q), Holds(r)
    PROVE  Shares(q) /\ Shares(r)
  BY DEF LockInv, OneMutex, Exclusion, AtLock, Holds, Open, Steps

\* Whoever is past a lock is there alone, in every reachable state.
LEMMA LockInvHolds == ~MayReuseId => (Spec => []LockInv)
<1> SUFFICES ASSUME ~MayReuseId PROVE Spec => []LockInv
  OBVIOUS
<1>1. Init => LockInv
  BY DEF Init, LockInv, OneMutex, Exclusion, Roles, StartsAreFirst, NothingBefore,
         CopiesKnowTheEnd, TmpKnowsTheEnd, AtLock, Holds, Working, Saving, Is, Reads,
         NoFile, NewFile, NoCall, Tools
<1>2. LockInv /\ TypeOK /\ TypeOK' /\ [Next]_vars => LockInv'
  <2> SUFFICES ASSUME LockInv, TypeOK, TypeOK', [Next]_vars PROVE LockInv'
    OBVIOUS
  <2> USE DEF LockInv, AtLock, Holds, Working, Saving, Open, Is, On, Shares, Reads, Steps, Over
  <2>1. CASE UNCHANGED vars
    BY <2>1 DEF vars, OneMutex, Exclusion, Roles, StartsAreFirst, NothingBefore,
                CopiesKnowTheEnd, TmpKnowsTheEnd
  <2>2. CASE Crash
    <3>1. \A r \in Requests : pc'[r] \in {"new"} \cup Over
      BY <2>2 DEF Crash, TypeOK
    <3>2. StartsAreFirst' /\ NothingBefore'
      BY <2>2, <3>1 DEF Crash, StartsAreFirst, NothingBefore
    <3>3. OneMutex' /\ Exclusion' /\ Roles' /\ CopiesKnowTheEnd' /\ TmpKnowsTheEnd'
      BY <3>1 DEF OneMutex, Exclusion, Roles, CopiesKnowTheEnd, TmpKnowsTheEnd
    <3> QED BY <3>2, <3>3
  <2>3. ASSUME NEW r \in Requests, Arrive(r) PROVE LockInv'
    <3> PICK o \in Ops \ {"start"}, i \in Incidents :
             /\ call' = [call EXCEPT ![r] = [op |-> o, on |-> i]]
             /\ lock' = [lock EXCEPT ![r] = LockFor(i)]
             /\ registry' = [registry EXCEPT ![i] = LockFor(i)]
      BY <2>3 DEF Arrive
    <3>1. /\ call'[r] = [op |-> o, on |-> i] /\ pc[r] = "new" /\ pc'[r] = "waiting"
          /\ \A q \in Requests \ {r} :
                call'[q] = call[q] /\ pc'[q] = pc[q] /\ lock'[q] = lock[q]
          /\ UNCHANGED <<file, tmp, copy>>
      BY <2>3 DEF Arrive, Go, TypeOK
    <3>2. /\ lock'[r] = LockFor(i) /\ registry'[i] = LockFor(i) /\ LockFor(i) # 0
          /\ \A j \in Incidents \ {i} : registry'[j] = registry[j]
          /\ registry[i] # 0 => registry'[i] = registry[i]
      BY DEF TypeOK, LockFor
    <3>3. \A q \in Requests : pc[q] # "new" => On(q) \in Incidents
      BY DEF TypeOK, NoCall
    <3>4. OneMutex'
      BY <3>1, <3>2, <3>3 DEF OneMutex
    <3>5. Exclusion' /\ Roles' /\ TmpKnowsTheEnd' /\ CopiesKnowTheEnd' /\ NothingBefore'
      BY <3>1 DEF Exclusion, Roles, TmpKnowsTheEnd, CopiesKnowTheEnd, NothingBefore
    <3>6. StartsAreFirst'
      BY <3>1 DEF StartsAreFirst
    <3> QED BY <3>4, <3>5, <3>6
  <2>4. ASSUME NEW r \in Requests, Start(r) PROVE LockInv'
    <3> PICK i \in Incidents : Unused(i) /\ call' = [call EXCEPT ![r] = [op |-> "start", on |-> i]]
      BY <2>4 DEF Start
    <3>1. /\ call'[r] = [op |-> "start", on |-> i] /\ pc[r] = "new" /\ pc'[r] = "writing"
          /\ copy'[r] = NewFile
          /\ \A q \in Requests \ {r} :
                call'[q] = call[q] /\ pc'[q] = pc[q] /\ copy'[q] = copy[q]
          /\ UNCHANGED <<file, tmp, lock, registry>>
      BY <2>4 DEF Start, Go, TypeOK
    <3>2. OneMutex' /\ Exclusion' /\ Roles' /\ TmpKnowsTheEnd' /\ NothingBefore'
      BY <3>1 DEF OneMutex, Exclusion, Roles, TmpKnowsTheEnd, NothingBefore
    <3>3. StartsAreFirst'
      BY <3>1 DEF StartsAreFirst, Unused
    <3>4. CopiesKnowTheEnd'
      BY <3>1 DEF CopiesKnowTheEnd, NewFile, Unused, NothingBefore
    <3> QED BY <3>2, <3>3, <3>4
  <2>5. ASSUME NEW r \in Requests, Serve(r) PROVE LockInv'
    <3> DEFINE i == On(r)
    <3>1. pc[r] # "new" /\ i \in Incidents /\ UNCHANGED <<call, minted>>
      BY <2>5 DEF Serve, Acquire, Load, Leave, Edit, Work, FactAdd, Answer, ProbeDeclined,
                  ProbeRuns, IncidentEnd, WriteTmp, Rename, Evict, Return, Go, TypeOK
    <3>2. \A from, to : Go(r, from, to) =>
             pc[r] = from /\ pc'[r] = to /\ \A q \in Requests \ {r} : pc'[q] = pc[q]
      BY DEF Go, TypeOK
    <3>3. ASSUME NEW from, NEW how \in {"done", "failed"}, Leave(r, from, how), UNCHANGED tmp,
                 how = "done" => from \in {"loaded", "saved", "evicted"}
          PROVE  LockInv'
      <4>1. /\ pc'[r] = how /\ \A q \in Requests \ {r} : pc'[q] = pc[q] /\ lock'[q] = lock[q]
            /\ UNCHANGED <<file, registry, call, copy, tmp>>
        BY <3>2, <3>3 DEF Leave, TypeOK
      <4>2. OneMutex' /\ Exclusion' /\ Roles' /\ StartsAreFirst' /\ NothingBefore'
        BY <3>2, <3>3, <4>1 DEF Leave, OneMutex, Exclusion, Roles, StartsAreFirst, NothingBefore
      <4>3. CopiesKnowTheEnd' /\ TmpKnowsTheEnd'
        BY <4>1 DEF CopiesKnowTheEnd, TmpKnowsTheEnd
      <4> QED BY <4>2, <4>3
    <3>4. CASE Acquire(r)
      <4>1. /\ pc[r] = "waiting" /\ pc'[r] = "holding"
            /\ \A q \in Requests \ {r} : pc'[q] = pc[q]
            /\ UNCHANGED <<file, tmp, registry, call, lock, copy>>
        BY <3>2, <3>4 DEF Acquire
      <4>2. Exclusion'
        BY <3>4, <4>1 DEF Acquire, Free, Exclusion
      <4>3. OneMutex' /\ Roles' /\ StartsAreFirst' /\ NothingBefore'
        BY <4>1 DEF OneMutex, Roles, StartsAreFirst, NothingBefore
      <4>4. CopiesKnowTheEnd' /\ TmpKnowsTheEnd'
        BY <4>1 DEF CopiesKnowTheEnd, TmpKnowsTheEnd
      <4> QED BY <4>2, <4>3, <4>4
    <3>5. CASE Load(r)
      <4>1. CASE Leave(r, "holding", "failed") /\ UNCHANGED tmp
        BY <3>3, <4>1
      <4>2. CASE /\ Go(r, "holding", "loaded") /\ file[i].started
                 /\ copy' = [copy EXCEPT ![r] = file[i]]
                 /\ UNCHANGED <<file, tmp, registry, minted, call, lock>>
        <5>1. /\ pc[r] = "holding" /\ pc'[r] = "loaded" /\ copy'[r] = file[i]
              /\ \A q \in Requests \ {r} : pc'[q] = pc[q] /\ copy'[q] = copy[q]
              /\ UNCHANGED <<file, tmp, registry, call, lock>>
          BY <3>2, <4>2 DEF TypeOK
        <5>2. OneMutex' /\ Exclusion' /\ Roles' /\ StartsAreFirst' /\ NothingBefore'
          BY <4>2, <5>1 DEF OneMutex, Exclusion, Roles, StartsAreFirst, NothingBefore
        <5>3. CopiesKnowTheEnd' /\ TmpKnowsTheEnd'
          BY <4>2, <5>1 DEF CopiesKnowTheEnd, TmpKnowsTheEnd
        <5> QED BY <5>2, <5>3
      <4> QED BY <3>5, <4>1, <4>2 DEF Load
    <3>6. ASSUME NEW f, Edit(r, f), ~Reads(r), f.started = copy[r].started,
                 copy[r].ended # None => f.ended = copy[r].ended,
                 Is(r, "end") => f.ended # None
          PROVE  LockInv'
      <4>1. /\ pc[r] = "loaded" /\ pc'[r] = "writing" /\ copy'[r] = f
            /\ \A q \in Requests \ {r} : pc'[q] = pc[q] /\ copy'[q] = copy[q]
            /\ UNCHANGED <<file, tmp, registry, call, lock>>
        BY <3>2, <3>6 DEF Edit, TypeOK
      <4>2. OneMutex' /\ Exclusion' /\ Roles' /\ StartsAreFirst' /\ NothingBefore'
        BY <3>6, <4>1 DEF OneMutex, Exclusion, Roles, StartsAreFirst, NothingBefore
      <4>3. CopiesKnowTheEnd' /\ TmpKnowsTheEnd'
        BY <3>6, <4>1 DEF CopiesKnowTheEnd, TmpKnowsTheEnd
      <4> QED BY <4>2, <4>3
    <3>7. CASE Work(r)
      <4>1. copy[r] \in File
        BY DEF TypeOK
      <4>2. \A k, who : LET f == WithFact(copy[r], k, who, r) IN
               f.started = copy[r].started /\ f.ended = copy[r].ended
        BY <4>1 DEF WithFact, File
      <4>3. \A v : LET f == Closed(copy[r], r, v) IN
               /\ f.started = copy[r].started /\ f.ended # None
               /\ copy[r].ended # None => f.ended = copy[r].ended
        BY <4>1 DEF Closed, FirstEnd, File
      <4>4. CASE FactAdd(r)
        BY <3>6, <4>2, <4>4 DEF FactAdd
      <4>5. CASE Answer(r) \/ ProbeDeclined(r)
        BY <3>3, <4>5 DEF Answer, ProbeDeclined
      <4>6. CASE ProbeRuns(r)
        BY <3>6, <4>2, <4>6 DEF ProbeRuns
      <4>7. CASE IncidentEnd(r)
        BY <3>6, <4>3, <4>7 DEF IncidentEnd
      <4> QED BY <3>7, <4>4, <4>5, <4>6, <4>7 DEF Work
    <3>8. CASE WriteTmp(r)
      <4>1. CASE Leave(r, "writing", "failed") /\ UNCHANGED tmp
        BY <3>3, <4>1
      <4>2. CASE /\ Go(r, "writing", "renaming") /\ tmp' = [tmp EXCEPT ![i] = copy[r]]
                 /\ UNCHANGED <<file, registry, minted, call, lock, copy>>
        <5>1. /\ pc[r] = "writing" /\ pc'[r] = "renaming" /\ tmp'[i] = copy[r]
              /\ \A q \in Requests \ {r} : pc'[q] = pc[q]
              /\ \A j \in Incidents \ {i} : tmp'[j] = tmp[j]
              /\ UNCHANGED <<file, registry, call, lock, copy>>
          BY <3>1, <3>2, <4>2 DEF TypeOK
        <5>2. OneMutex' /\ Exclusion' /\ Roles' /\ StartsAreFirst' /\ NothingBefore'
          BY <5>1 DEF OneMutex, Exclusion, Roles, StartsAreFirst, NothingBefore
        <5>3. CopiesKnowTheEnd'
          BY <5>1 DEF CopiesKnowTheEnd
        <5>4. ASSUME NEW q \in Requests, q # r, pc[q] = "renaming", On(q) = i, Open(r)
              PROVE  FALSE
          BY <3>1, <5>1, <5>4, HoldsAlone DEF Roles, StartsAreFirst, NothingBefore
        <5>5. TmpKnowsTheEnd'
          BY <3>1, <5>1, <5>4 DEF TmpKnowsTheEnd, CopiesKnowTheEnd, StartsAreFirst, NothingBefore, TypeOK
        <5> QED BY <5>2, <5>3, <5>5
      <4> QED BY <3>8, <4>1, <4>2 DEF WriteTmp
    <3>9. CASE Rename(r)
      <4>1. CASE Leave(r, "renaming", "failed") /\ UNCHANGED tmp
        BY <3>3, <4>1
      <4>2. CASE /\ Go(r, "renaming", "saved") /\ tmp[i].started
                 /\ file' = [file EXCEPT ![i] = tmp[i]] /\ tmp' = [tmp EXCEPT ![i] = NoFile]
                 /\ UNCHANGED <<registry, minted, call, lock, copy>>
        <5>1. /\ pc[r] = "renaming" /\ pc'[r] = "saved"
              /\ file'[i] = tmp[i] /\ tmp'[i] = NoFile
              /\ \A q \in Requests \ {r} : pc'[q] = pc[q]
              /\ \A j \in Incidents \ {i} : file'[j] = file[j] /\ tmp'[j] = tmp[j]
              /\ UNCHANGED <<registry, call, lock, copy>>
          BY <3>1, <3>2, <4>2 DEF TypeOK
        <5>2. ~Open(r) => file'[i].ended = file[i].ended
          BY <4>2, <5>1 DEF TmpKnowsTheEnd
        <5>3. ASSUME NEW q \in Requests, q # r, Working(q) \/ Saving(q), On(q) = i, Open(r)
              PROVE  FALSE
          BY <3>1, <5>1, <5>3, HoldsAlone DEF Roles, StartsAreFirst, NothingBefore
        <5>4. Exclusion' /\ Roles' /\ NothingBefore'
          BY <3>1, <4>2, <5>1 DEF Exclusion, Roles, NothingBefore, TypeOK
        <5>5. OneMutex'
          BY <3>1, <5>1, <5>2 DEF OneMutex, TypeOK
        <5>6. StartsAreFirst'
          BY <3>1, <5>1, <5>3 DEF StartsAreFirst, NothingBefore, TypeOK
        <5>7. ASSUME NEW q \in Requests, pc[q] # "new", On(q) # i
              PROVE  file'[On(q)] = file[On(q)] /\ tmp'[On(q)] = tmp[On(q)]
          BY <5>1, <5>7 DEF TypeOK
        <5>8. Is(r, "end") => file'[i].ended # None
          BY <5>1, <5>2 DEF CopiesKnowTheEnd, TmpKnowsTheEnd
        <5>9. CopiesKnowTheEnd'
          <6> SUFFICES ASSUME NEW q \in Requests
                       PROVE  /\ pc'[q] = "loaded" \/ Saving(q)' => copy'[q].started
                              /\ pc'[q] \in {"loaded", "writing"} /\ ~Open(q)' => copy'[q].ended = file'[On(q)'].ended
                              /\ Saving(q)' /\ Is(q, "end")' => copy'[q].ended # None
                              /\ pc'[q] \in {"saved", "evicted"} /\ Is(q, "end")' => ~Open(q)'
            BY DEF CopiesKnowTheEnd
          <6>1. CASE q = r
            BY <5>1, <5>8, <6>1
          <6>2. CASE q # r /\ On(q) # i
            BY <5>1, <5>7, <6>2 DEF CopiesKnowTheEnd
          <6>3. CASE q # r /\ On(q) = i /\ Open(r)
            BY <5>1, <5>3, <6>3 DEF CopiesKnowTheEnd, StartsAreFirst
          <6>4. CASE q # r /\ On(q) = i /\ ~Open(r)
            BY <5>1, <5>2, <6>4 DEF CopiesKnowTheEnd
          <6> QED BY <6>1, <6>2, <6>3, <6>4
        <5>10. TmpKnowsTheEnd'
          <6> SUFFICES ASSUME NEW q \in Requests, pc'[q] = "renaming"
                       PROVE  IF Open(q)' THEN tmp'[On(q)'] = copy'[q]
                              ELSE tmp'[On(q)'].started => tmp'[On(q)'].ended = file'[On(q)'].ended
            BY DEF TmpKnowsTheEnd
          <6>1. q # r
            BY <5>1
          <6>2. CASE On(q) # i
            BY <5>1, <5>7, <6>1, <6>2 DEF TmpKnowsTheEnd
          <6>3. CASE On(q) = i
            BY <5>1, <5>2, <5>3, <6>1, <6>3 DEF NoFile
          <6> QED BY <6>2, <6>3
        <5> QED BY <5>4, <5>5, <5>6, <5>9, <5>10
      <4> QED BY <3>9, <4>1, <4>2 DEF Rename
    <3>10. CASE Evict(r)
      <4>1. /\ pc[r] = "saved" /\ pc'[r] = "evicted" /\ Is(r, "end")
            /\ \A q \in Requests \ {r} : pc'[q] = pc[q]
            /\ \A j \in Incidents \ {i} : registry'[j] = registry[j]
            /\ UNCHANGED <<file, tmp, call, lock, copy>>
        BY <3>1, <3>2, <3>10 DEF Evict, TypeOK
      <4>2. OneMutex'
        BY <3>1, <4>1 DEF OneMutex, CopiesKnowTheEnd, TypeOK
      <4>3. Exclusion' /\ Roles' /\ StartsAreFirst' /\ NothingBefore'
        BY <4>1 DEF Exclusion, Roles, StartsAreFirst, NothingBefore, Tools
      <4>4. CopiesKnowTheEnd' /\ TmpKnowsTheEnd'
        BY <4>1 DEF CopiesKnowTheEnd, TmpKnowsTheEnd
      <4> QED BY <4>2, <4>3, <4>4
    <3>11. CASE Return(r)
      BY <3>3, <3>11 DEF Return
    <3> QED BY <2>5, <3>4, <3>5, <3>7, <3>8, <3>9, <3>10, <3>11 DEF Serve
  <2> QED BY <2>1, <2>2, <2>3, <2>4, <2>5 DEF Next
<1>3. QED
  BY <1>1, <1>2, ServerTypeCorrect, PTL DEF Spec
\* The registry keeps the writers of an incident apart until its end is on
\* disk (lockFor, withIncident), whatever crashes and fails to save.
THEOREM OneWriter == ~MayReuseId => (Spec => []OneWriterUntilEnded)
<1> SUFFICES ASSUME ~MayReuseId PROVE Spec => []OneWriterUntilEnded
  OBVIOUS
<1>1. TypeOK /\ LockInv => OneWriterUntilEnded
  BY HoldsAlone DEF OneWriterUntilEnded, Collide, Open
<1> QED BY <1>1, ServerTypeCorrect, LockInvHolds, PTL

\* An incident ends once (EndByID), under whichever mutex it is saved later.
THEOREM TheEndStands == ~MayReuseId => (Spec => EndStands)
<1> SUFFICES ASSUME ~MayReuseId PROVE Spec => EndStands
  OBVIOUS
<1> DEFINE Kept == \A i \in Incidents : file[i].ended # None => file'[i].ended = file[i].ended
<1>1. TypeOK /\ LockInv /\ [Next]_vars => Kept
  <2> SUFFICES ASSUME TypeOK, LockInv, [Next]_vars PROVE Kept
    OBVIOUS
  <2>1. ASSUME NEW r \in Requests, Rename(r) PROVE Kept
    <3>1. On(r) \in Incidents /\ pc[r] = "renaming"
      BY <2>1 DEF Rename, Leave, Go, TypeOK, On
    <3> QED BY <2>1, <3>1 DEF Rename, Leave, LockInv, TmpKnowsTheEnd, Open, TypeOK
  <2>2. ASSUME ~ \E r \in Requests : Rename(r) PROVE UNCHANGED file
    BY <2>2 DEF Next, vars, Crash, Arrive, Start, Serve, Acquire, Load, Leave, Work, FactAdd, Edit,
                Answer, ProbeDeclined, ProbeRuns, IncidentEnd, WriteTmp, Evict, Return
  <2> QED BY <2>1, <2>2
<1> QED BY <1>1, ServerTypeCorrect, LockInvHolds, PTL DEF EndStands, Spec
-----------------------------------------------------------------------------
(* No answered request is lost before the end.                             *)

\* No edit loses a fact that was answered for.
LEMMA EditsKeepFacts ==
    ASSUME NEW f \in File, NEW q \in Requests, NEW r \in Requests,
           NEW k \in Keys, NEW who \in {"agent", "probe"}, NEW v
    PROVE  /\ Acknowledges(f, q) => Acknowledges(WithFact(f, k, who, r), q)
           /\ Acknowledges(WithFact(f, k, who, r), r)
           /\ Acknowledges(f, q) => Acknowledges(Closed(f, r, v), q)
<1> DEFINE e == [key |-> k, by |-> who, from |-> r]
           g == WithFact(f, k, who, r)
<1>1. f.facts \in Seq(Entry) /\ e \in Entry /\ e.from = r
  BY DEF File, Entry
<1>2. g.facts = Append(f.facts, e)
  BY DEF WithFact, File
<1>3. /\ Len(g.facts) = Len(f.facts) + 1 /\ g.facts[Len(f.facts) + 1].from = r
      /\ \A i \in 1..Len(f.facts) : g.facts[i] = f.facts[i]
      /\ DOMAIN g.facts = 1..Len(g.facts) /\ DOMAIN f.facts = 1..Len(f.facts)
      /\ Len(f.facts) \in Nat
  BY <1>1, <1>2
<1>4. Closed(f, r, v).facts = f.facts
  BY DEF Closed, File
<1> QED BY <1>3, <1>4 DEF Acknowledges

\* NothingIsDropped is inductive relative to the lock's invariant.
LEMMA NothingIsDroppedStep ==
    ASSUME TypeOK, LockInv, NothingIsDropped, [Next]_vars
    PROVE  NothingIsDropped'
<1> USE DEF NothingIsDropped, AtLock, Saving, Open, Records, Is, On, Steps, Over
<1>1. CASE UNCHANGED vars
  BY <1>1 DEF vars
<1>2. CASE Crash
  <2>1. \A r \in Requests : pc'[r] \in {"new"} \cup Over /\ (pc'[r] = "done" => pc[r] = "done")
    BY <1>2 DEF Crash, TypeOK
  <2> QED BY <1>2, <2>1 DEF Crash
<1>3. ASSUME NEW r \in Requests, Arrive(r) \/ Start(r) PROVE NothingIsDropped'
  <2>1. /\ \/ pc'[r] = "waiting"
           \/ pc'[r] = "writing" /\ call'[r].op = "start"
        /\ \A q \in Requests \ {r} : call'[q] = call[q] /\ pc'[q] = pc[q] /\ copy'[q] = copy[q]
        /\ UNCHANGED file
    BY <1>3 DEF Arrive, Start, Go, TypeOK
  <2> QED BY <2>1
<1>4. ASSUME NEW r \in Requests, Serve(r) PROVE NothingIsDropped'
  <2> DEFINE i == On(r)
  <2>1. pc[r] # "new" /\ i \in Incidents /\ UNCHANGED call
    BY <1>4 DEF Serve, Acquire, Load, Leave, Edit, Work, FactAdd, Answer, ProbeDeclined,
                ProbeRuns, IncidentEnd, WriteTmp, Rename, Evict, Return, Go, TypeOK
  <2>2. \A from, to : Go(r, from, to) =>
           pc[r] = from /\ pc'[r] = to /\ \A q \in Requests \ {r} : pc'[q] = pc[q]
    BY DEF Go, TypeOK
  <2>3. ASSUME NEW from, NEW how \in {"done", "failed"}, Leave(r, from, how),
               how = "done" /\ Records(r) => from = "saved"
        PROVE  NothingIsDropped'
    BY <2>2, <2>3 DEF Leave
  <2>4. CASE Acquire(r) \/ Evict(r)
    BY <2>2, <2>4 DEF Acquire, Evict
  <2>5. CASE Load(r)
    <3>1. CASE Leave(r, "holding", "failed")
      BY <2>3, <3>1
    <3>2. CASE Go(r, "holding", "loaded") /\ copy' = [copy EXCEPT ![r] = file[i]] /\ UNCHANGED file
      BY <2>1, <2>2, <3>2 DEF TypeOK
    <3> QED BY <2>5, <3>1, <3>2 DEF Load
  <2>6. ASSUME NEW f, Edit(r, f), Records(r) => Acknowledges(f, r),
               \A q \in Requests : Acknowledges(copy[r], q) => Acknowledges(f, q)
        PROVE  NothingIsDropped'
    <3>1. /\ pc[r] = "loaded" /\ pc'[r] = "writing" /\ copy'[r] = f
          /\ \A q \in Requests \ {r} : pc'[q] = pc[q] /\ copy'[q] = copy[q]
          /\ UNCHANGED file
      BY <2>2, <2>6 DEF Edit, TypeOK
    <3> QED BY <2>1, <2>6, <3>1
  <2>7. CASE Work(r)
    <3>1. copy[r] \in File
      BY DEF TypeOK
    <3>2. CASE FactAdd(r)
      <4>1. PICK k \in Keys : Edit(r, WithFact(copy[r], k, "agent", r))
        BY <3>2 DEF FactAdd
      <4>2. /\ Acknowledges(WithFact(copy[r], k, "agent", r), r)
            /\ \A q \in Requests : Acknowledges(copy[r], q) =>
                  Acknowledges(WithFact(copy[r], k, "agent", r), q)
        BY <3>1, EditsKeepFacts
      <4> QED BY <2>6, <4>1, <4>2
    <3>3. CASE Answer(r) \/ ProbeDeclined(r)
      BY <2>3, <3>3 DEF Answer, ProbeDeclined
    <3>4. CASE ProbeRuns(r)
      <4>1. PICK k \in Keys : Edit(r, WithFact(copy[r], k, "probe", r))
        BY <3>4 DEF ProbeRuns, Wanted
      <4>2. /\ Acknowledges(WithFact(copy[r], k, "probe", r), r)
            /\ \A q \in Requests : Acknowledges(copy[r], q) =>
                  Acknowledges(WithFact(copy[r], k, "probe", r), q)
        BY <3>1, EditsKeepFacts
      <4> QED BY <2>6, <4>1, <4>2
    <3>5. CASE IncidentEnd(r)
      <4>1. PICK v : Edit(r, Closed(copy[r], r, v))
        BY <3>5 DEF IncidentEnd
      <4>2. \A q \in Requests : Acknowledges(copy[r], q) => Acknowledges(Closed(copy[r], r, v), q)
        BY <3>1 DEF Closed, File, Acknowledges
      <4>3. ~Records(r)
        BY <3>5 DEF IncidentEnd, Is, Records
      <4> QED BY <2>6, <4>1, <4>2, <4>3
    <3> QED BY <2>7, <3>2, <3>3, <3>4, <3>5 DEF Work
  <2>8. CASE WriteTmp(r)
    <3>1. CASE Leave(r, "writing", "failed")
      BY <2>3, <3>1
    <3>2. CASE Go(r, "writing", "renaming") /\ UNCHANGED <<file, copy>>
      BY <2>1, <2>2, <3>2
    <3> QED BY <2>8, <3>1, <3>2 DEF WriteTmp
  <2>9. CASE Rename(r)
    <3>1. CASE Leave(r, "renaming", "failed")
      BY <2>3, <3>1
    <3>2. CASE /\ Go(r, "renaming", "saved") /\ tmp[i].started
               /\ file' = [file EXCEPT ![i] = tmp[i]] /\ UNCHANGED copy
      <4>1. /\ pc[r] = "renaming" /\ pc'[r] = "saved" /\ file'[i] = tmp[i]
            /\ \A q \in Requests \ {r} : pc'[q] = pc[q]
            /\ \A j \in Incidents \ {i} : file'[j] = file[j]
        BY <2>1, <2>2, <3>2 DEF TypeOK
      <4>2. file'[i].ended = None => Open(r) /\ file'[i] = copy[r]
        BY <3>2, <4>1 DEF LockInv, TmpKnowsTheEnd
      <4>3. ASSUME NEW q \in Requests, q # r, Working(q) \/ Saving(q), On(q) = i, Open(r)
            PROVE  FALSE
        BY <2>1, <4>1, <4>3, HoldsAlone
           DEF LockInv, Roles, StartsAreFirst, NothingBefore, Holds, Working, Shares, Reads
      <4> SUFFICES ASSUME NEW q \in Requests, pc'[q] # "new", Open(q)'
                   PROVE  /\ AtLock(q)' /\ pc'[q] \in {"loaded", "writing", "renaming"} =>
                                \A p \in Requests : Acknowledges(file'[On(q)'], p) => Acknowledges(copy'[q], p)
                          /\ Saving(q)' /\ Records(q)' => Acknowledges(copy'[q], q)
                          /\ pc'[q] \in {"saved", "done"} /\ Records(q)' => Acknowledges(file'[On(q)'], q)
        OBVIOUS
      <4>4. CASE On(q) # i
        <5>1. q # r /\ file'[On(q)] = file[On(q)]
          BY <2>1, <4>1, <4>4 DEF TypeOK
        <5> QED BY <2>1, <3>2, <4>1, <5>1
      <4>5. CASE On(q) = i /\ q = r
        BY <2>1, <3>2, <4>1, <4>2, <4>5
      <4>6. CASE On(q) = i /\ q # r
        <5>1. Open(q) /\ Open(r) /\ file'[i] = copy[r]
          BY <2>1, <4>2, <4>6
        <5>2. ~Saving(q) /\ ~(pc[q] = "loaded" /\ AtLock(q))
          BY <4>3, <4>6, <5>1 DEF Working, Holds
        <5>3. CASE pc[q] \in {"saved", "done"} /\ Records(q)
          <6>1. file[i].started
            BY <2>1, <4>6, <5>3 DEF LockInv, NothingBefore, Working, Holds
          <6>2. AtLock(r)
            BY <4>1, <6>1 DEF LockInv, StartsAreFirst
          <6>3. Acknowledges(file[i], q)
            BY <4>6, <5>1, <5>3
          <6> QED BY <2>1, <3>2, <4>1, <4>6, <5>1, <5>2, <5>3, <6>2, <6>3
        <5> QED BY <2>1, <3>2, <4>1, <4>6, <5>2, <5>3
      <4> QED BY <4>4, <4>5, <4>6
    <3> QED BY <2>9, <3>1, <3>2 DEF Rename
  <2>10. CASE Return(r)
    BY <2>3, <2>10 DEF Return, Leave, Go, LockInv, Roles
  <2> QED BY <1>4, <2>4, <2>5, <2>7, <2>8, <2>9, <2>10 DEF Serve
<1> QED BY <1>1, <1>2, <1>3, <1>4 DEF Next

\* A request the agent was told is done is in the file of an open incident
\* (FactAdd, runProbeAndStore): no concurrent save, crash or failed save
\* takes it out again.
THEOREM AnswersStay == ~MayReuseId => (Spec => []AnsweredIsOnDisk)
<1> SUFFICES ASSUME ~MayReuseId PROVE Spec => []AnsweredIsOnDisk
  OBVIOUS
<1>1. Init => NothingIsDropped
  BY DEF Init, NothingIsDropped
<1>2. NothingIsDropped => AnsweredIsOnDisk
  BY DEF NothingIsDropped, AnsweredIsOnDisk, Records, Open
<1>3. TypeOK /\ LockInv /\ NothingIsDropped /\ [Next]_vars => NothingIsDropped'
  BY NothingIsDroppedStep
<1> QED BY <1>1, <1>2, <1>3, ServerTypeCorrect, LockInvHolds, PTL DEF Spec

-----------------------------------------------------------------------------
(* What a request saves of an open incident is what the file holds, edited.*)

Edits(r, f, g) ==
    \/ Is(r, "fact_add") /\ \E k \in Keys : g = WithFact(f, k, "agent", r)
    \/ /\ Is(r, "probe") /\ ~BudgetSpent(f)
       /\ \E k \in Wanted(f) \ Held : g = WithFact(f, k, "probe", r)
    \/ Is(r, "end") /\ \E v \in {r, f.verdict} : g = Closed(f, r, v)

CopiesAreCurrent == \A r \in Requests :
    /\ pc[r] = "new" => copy[r] = NoFile
    /\ pc[r] = "loaded" /\ Open(r) => copy[r] = file[On(r)]
    /\ Saving(r) /\ Open(r) =>
          IF Is(r, "start") THEN copy[r] = NewFile
          ELSE file[On(r)].started /\ Edits(r, file[On(r)], copy[r])

\* A fact on disk or on its way there was recorded by the tool it says.
Signed(f) == \A n \in DOMAIN f.facts :
    LET r == f.facts[n].from IN
    pc[r] # "new" /\ (f.facts[n].by = "probe" <=> Is(r, "probe"))

\* No more probes are on record than the limit, and none for what was there.
Rationed(f) ==
    /\ MaxExecute > 0 => Cardinality(Executed(f)) <= MaxExecute
    /\ \A a, b \in Executed(f) : f.facts[a].key = f.facts[b].key => a = b

Sound(f) == Signed(f) /\ Rationed(f)

FilesAreSound ==
    /\ \A i \in Incidents : Sound(file[i]) /\ Sound(tmp[i])
    /\ \A r \in Requests : Sound(copy[r])

-----------------------------------------------------------------------------
(* The steps of a request.                                                 *)

Moves(r, from, to) ==
    pc[r] = from /\ pc'[r] = to /\ \A q \in Requests \ {r} : pc'[q] = pc[q]

Copies(r, f) == copy'[r] = f /\ \A q \in Requests \ {r} : copy'[q] = copy[q]

\* Waiting for the mutex, or giving it back to the registry.
Locking(r) ==
    /\ Moves(r, "waiting", "holding") \/ Moves(r, "saved", "evicted")
    /\ UNCHANGED <<file, tmp, copy>>

Loading(r) ==
    /\ Moves(r, "holding", "loaded")
    /\ file[On(r)].started /\ Copies(r, file[On(r)]) /\ UNCHANGED <<file, tmp>>

Editing(r) ==
    /\ Moves(r, "loaded", "writing")
    /\ \E f : Edits(r, copy[r], f) /\ Copies(r, f)
    /\ UNCHANGED <<file, tmp>>

Storing(r) ==
    /\ Moves(r, "writing", "renaming")
    /\ tmp' = [tmp EXCEPT ![On(r)] = copy[r]] /\ UNCHANGED <<file, copy>>

Replacing(r) ==
    /\ Moves(r, "renaming", "saved") /\ tmp[On(r)].started
    /\ file' = [file EXCEPT ![On(r)] = tmp[On(r)]]
    /\ tmp' = [tmp EXCEPT ![On(r)] = NoFile] /\ UNCHANGED copy

Failing(r) ==
    /\ \E from \in {"holding", "loaded", "writing", "renaming"} :
          Moves(r, from, "failed") /\ (from = "loaded" => Is(r, "probe"))
    /\ UNCHANGED <<file, tmp, copy>>

Returning(r) ==
    /\ \E from \in {"loaded", "saved", "evicted"} :
          Moves(r, from, "done") /\ (from = "loaded" => Reads(r))
    /\ UNCHANGED <<file, tmp, copy>>

\* A step of a request edits its copy, stores it, replaces the file, or leaves
\* all three alone.
LEMMA ServeSteps ==
    ASSUME TypeOK, NEW r \in Requests, Serve(r)
    PROVE  /\ pc[r] # "new" /\ On(r) \in Incidents /\ UNCHANGED call
           /\ \/ Locking(r) \/ Loading(r) \/ Editing(r) \/ Storing(r) \/ Replacing(r)
              \/ Failing(r) \/ Returning(r)
<1>1. \A from, to : Go(r, from, to) => Moves(r, from, to)
  BY DEF Go, Moves, TypeOK
<1>2. \A f : copy' = [copy EXCEPT ![r] = f] => Copies(r, f)
  BY DEF Copies, TypeOK
<1>3. pc[r] # "new" /\ On(r) \in Incidents /\ UNCHANGED call
  BY DEF Serve, Acquire, Load, Leave, Edit, Work, FactAdd, Answer, ProbeDeclined, ProbeRuns,
         IncidentEnd, WriteTmp, Rename, Evict, Return, Go, TypeOK, On
<1>4. ASSUME NEW from \in {"holding", "writing", "renaming"}, Leave(r, from, "failed"), UNCHANGED tmp
      PROVE  Failing(r)
  BY <1>1, <1>4 DEF Leave, Failing
<1>5. ASSUME NEW from \in {"saved", "evicted"}, Leave(r, from, "done"), UNCHANGED tmp
      PROVE  Returning(r)
  BY <1>1, <1>5 DEF Leave, Returning
<1>6. CASE Acquire(r) \/ Evict(r)
  BY <1>1, <1>3, <1>6 DEF Acquire, Evict, Locking
<1>7. CASE Load(r)
  BY <1>1, <1>2, <1>3, <1>4, <1>7 DEF Load, Loading
<1>8. \A f : Edit(r, f) /\ Edits(r, copy[r], f) => Editing(r)
  BY <1>1, <1>2 DEF Edit, Editing
<1>9. CASE Work(r)
  <2>1. CASE FactAdd(r) \/ ProbeRuns(r) \/ IncidentEnd(r)
    BY <1>3, <1>8, <2>1 DEF FactAdd, ProbeRuns, IncidentEnd, Edits
  <2>2. CASE Answer(r)
    BY <1>1, <1>3, <2>2 DEF Answer, Leave, Returning, Reads
  <2>3. CASE ProbeDeclined(r)
    BY <1>1, <1>3, <2>3 DEF ProbeDeclined, Leave, Failing
  <2>4. QED
    BY <1>9, <2>1, <2>2, <2>3 DEF Work
<1>10. CASE WriteTmp(r)
  BY <1>1, <1>3, <1>4, <1>10 DEF WriteTmp, Storing
<1>11. CASE Rename(r)
  BY <1>1, <1>3, <1>4, <1>11 DEF Rename, Replacing
<1>12. CASE Return(r)
  BY <1>3, <1>5, <1>12 DEF Return
<1>13. QED
  BY <1>6, <1>7, <1>9, <1>10, <1>11, <1>12 DEF Serve

\* A request that arrives, or starts an incident.
Calling(r) ==
    /\ \E o \in Ops, i \in Incidents :
          /\ call' = [call EXCEPT ![r] = [op |-> o, on |-> i]]
          /\ \/ o # "start" /\ Moves(r, "new", "waiting") /\ UNCHANGED copy
             \/ /\ o = "start" /\ Moves(r, "new", "writing") /\ Copies(r, NewFile)
                /\ MayReuseId \/ Unused(i)
    /\ UNCHANGED <<file, tmp>>

\* A step of Next serves a request, calls, starts, loses requests to a crash,
\* or is a command's.
LEMMA CallSteps ==
    ASSUME TypeOK, NEW r \in Requests, Arrive(r) \/ Start(r)
    PROVE  Calling(r)
<1>1. \A from, to : Go(r, from, to) => Moves(r, from, to)
  BY DEF Go, Moves, TypeOK
<1>2. CASE Arrive(r)
  BY <1>1, <1>2 DEF Arrive, Calling
<1>3. CASE Start(r)
  BY <1>1, <1>3 DEF Start, Calling, Copies, TypeOK
<1>4. QED
  BY <1>2, <1>3

-----------------------------------------------------------------------------
(* Copies are current.                                                     *)

\* Whoever replaces the file of an open incident is alone past its lock, and
\* replaces it by its own copy.
LEMMA ReplacesAlone ==
    ASSUME TypeOK, LockInv, NEW r \in Requests, pc[r] # "new", Replacing(r), Open(r)
    PROVE  /\ tmp[On(r)] = copy[r]
           /\ \A q \in Requests \ {r} : On(q) = On(r) => ~Working(q) /\ ~Saving(q)
<1>1. tmp[On(r)] = copy[r]
  BY DEF LockInv, TmpKnowsTheEnd, Replacing, Moves
<1>2. ASSUME NEW q \in Requests \ {r}, On(q) = On(r), Working(q) \/ Saving(q) PROVE FALSE
  <2>0. On(r) \in Incidents /\ Saving(r)
    BY DEF TypeOK, On, Replacing, Moves, Saving
  <2>1. CASE Is(r, "start")
    <3>1. ~file[On(r)].started
      BY <2>0, <2>1 DEF LockInv, StartsAreFirst
    <3>2. ~Is(q, "start") /\ ~Working(q)
      BY <1>2, <2>0, <2>1, <3>1 DEF LockInv, StartsAreFirst, NothingBefore
    <3>3. QED
      BY <1>2, <3>2 DEF Working, Holds, Saving
  <2>3. CASE Is(q, "start") /\ ~Is(r, "start")
    <3>1. Saving(q)
      BY <1>2, <2>3 DEF Working, Holds
    <3>2. ~Working(r)
      BY <1>2, <2>0, <2>3, <3>1 DEF LockInv, StartsAreFirst, NothingBefore
    <3>3. QED
      BY <2>0, <2>3, <3>2 DEF Working, Holds, Saving
  <2>2. CASE ~Is(r, "start") /\ ~Is(q, "start")
    BY <1>2, <2>2, HoldsAlone DEF LockInv, Roles, Replacing, Moves, Working, Holds, Saving, Shares, Reads
  <2>4. QED
    BY <2>1, <2>2, <2>3
<1>3. QED
  BY <1>1, <1>2

\* No step makes a copy differ from the file it will replace.
LEMMA CopiesAreCurrentStep ==
    ASSUME TypeOK, LockInv, CopiesAreCurrent, ~MayReuseId, [Next]_vars
    PROVE  CopiesAreCurrent'
<1> USE DEF CopiesAreCurrent, Saving, Open, Is, On
<1>1. CASE UNCHANGED vars
  <2>1. \A r \in Requests : \A f, g : Edits(r, f, g)' <=> Edits(r, f, g)
    BY <1>1 DEF vars, Edits
  <2>2. QED
    BY <1>1, <2>1 DEF vars
<1>2. CASE Crash
  <2>1. \A r \in Requests : pc'[r] \in {"new"} \cup Over /\ (pc'[r] = "new" => pc[r] = "new" /\ copy'[r] = copy[r])
    BY <1>2 DEF Crash, TypeOK, Steps, Over
  <2>2. QED
    BY <2>1 DEF Over
<1>3. ASSUME NEW r \in Requests, Calling(r) PROVE CopiesAreCurrent'
  <2>1. PICK o \in Ops, i \in Incidents :
            /\ call' = [call EXCEPT ![r] = [op |-> o, on |-> i]]
            /\ \/ o # "start" /\ Moves(r, "new", "waiting") /\ UNCHANGED copy
               \/ o = "start" /\ Moves(r, "new", "writing") /\ Copies(r, NewFile)
    BY <1>3 DEF Calling
  <2>2. /\ call'[r] = [op |-> o, on |-> i] /\ UNCHANGED file
        /\ \A q \in Requests \ {r} : call'[q] = call[q] /\ pc'[q] = pc[q] /\ copy'[q] = copy[q]
    BY <1>3, <2>1 DEF Calling, Moves, Copies, TypeOK
  <2>3. \A q \in Requests \ {r} : \A f, g : Edits(q, f, g) => Edits(q, f, g)'
    BY <2>2 DEF Edits
  <2>4. QED
    BY <2>1, <2>2, <2>3 DEF Moves, Copies
<1>4. ASSUME NEW r \in Requests, Serve(r) PROVE CopiesAreCurrent'
  <2>1. pc[r] # "new" /\ On(r) \in Incidents /\ UNCHANGED call
    BY <1>4, ServeSteps
  <2>2. \A q \in Requests : \A f, g : Edits(q, f, g)' <=> Edits(q, f, g)
    BY <2>1 DEF Edits
  <2>3. CASE Locking(r) \/ Failing(r) \/ Returning(r) \/ Storing(r)
    BY <2>1, <2>2, <2>3 DEF Locking, Failing, Returning, Storing, Moves
  <2>4. CASE Loading(r)
    BY <2>1, <2>2, <2>4 DEF Loading, Moves, Copies
  <2>5. CASE Editing(r)
    <3>1. PICK f : Edits(r, copy[r], f) /\ Copies(r, f)
      BY <2>5 DEF Editing
    <3>2. Open(r) => ~Is(r, "start") /\ file[On(r)].started
      BY <2>1, <2>5 DEF LockInv, StartsAreFirst, NothingBefore, Editing, Moves, Working, Holds, Over
    <3>3. QED
      BY <2>1, <2>2, <2>5, <3>1, <3>2 DEF Editing, Moves, Copies
  <2>6. CASE Replacing(r)
    <3>1. \A i \in Incidents \ {On(r)} : file'[i] = file[i]
      BY <2>1, <2>6 DEF Replacing, TypeOK
    <3>2. ~Open(r) => ~Open(r)'
      BY <2>1, <2>6 DEF Replacing, Moves, LockInv, TmpKnowsTheEnd, TypeOK
    <3>3. ASSUME NEW q \in Requests \ {r}, pc[q] = "loaded" \/ Saving(q), Open(q)'
          PROVE  Open(q) /\ file'[On(q)] = file[On(q)]
      <4>1. CASE On(q) = On(r)
        <5>1. Is(q, "start") \/ Working(q) \/ Saving(q)
          BY <3>3 DEF Working, Holds
        <5>2. QED
          BY <2>1, <2>6, <3>2, <3>3, <4>1, <5>1, ReplacesAlone
             DEF LockInv, StartsAreFirst, Over, Replacing
      <4>2. CASE On(q) # On(r)
        BY <2>1, <3>1, <3>3, <4>2 DEF TypeOK
      <4>3. QED
        BY <4>1, <4>2
    <3>4. QED
      BY <2>1, <2>2, <2>6, <3>3 DEF Replacing, Moves
  <2>7. QED
    BY <1>4, <2>3, <2>4, <2>5, <2>6, ServeSteps
<1>5. QED
  BY <1>1, <1>2, <1>3, <1>4, CallSteps DEF Next

\* In every reachable state the copy of a request past the lock is its file.
LEMMA CopiesStayCurrent == ~MayReuseId => (Spec => []CopiesAreCurrent)
<1> SUFFICES ASSUME ~MayReuseId PROVE Spec => []CopiesAreCurrent
  OBVIOUS
<1>1. Init => CopiesAreCurrent
  BY DEF Init, CopiesAreCurrent, Saving
<1>2. TypeOK /\ LockInv /\ CopiesAreCurrent /\ [Next]_vars => CopiesAreCurrent'
  BY CopiesAreCurrentStep
<1>3. QED
  BY <1>1, <1>2, ServerTypeCorrect, LockInvHolds, PTL DEF Spec

-----------------------------------------------------------------------------
(* The refinement.                                                         *)

\* One step of the server is one step of the register, or none.
LEMMA StepIsAtomic ==
    ASSUME TypeOK, TypeOK', LockInv, CopiesAreCurrent, [Next]_vars
    PROVE  [Register!Next]_Register!vars
<1> USE DEF Open, Is, On, Reads
<1>1. CASE UNCHANGED vars
  BY <1>1 DEF vars, Register!vars, StatusOf, SeenBy
<1>2. CASE Crash
  <2>1. Register!Crash
    BY <1>2 DEF Crash, Register!Crash, StatusOf, SeenBy, Steps, Over, TypeOK, Register!NoFile, NoFile
  <2>2. QED
    BY <2>1 DEF Register!Next
<1>3. ASSUME NEW r \in Requests, NEW from, NEW to, StatusOf(r) = from, StatusOf(r)' = to,
             \A q \in Requests \ {r} : StatusOf(q)' = StatusOf(q)
      PROVE  Register!Become(r, from, to)
  BY <1>3 DEF Register!Become
<1>4. ASSUME NEW r \in Requests, Calling(r) PROVE Register!Next
  <2>1. PICK o \in Ops, i \in Incidents :
            /\ call' = [call EXCEPT ![r] = [op |-> o, on |-> i]]
            /\ \/ o # "start" /\ Moves(r, "new", "waiting") /\ UNCHANGED copy
               \/ o = "start" /\ Moves(r, "new", "writing") /\ Copies(r, NewFile)
    BY <1>4 DEF Calling
  <2>2. /\ call'[r] = [op |-> o, on |-> i] /\ pc[r] = "new" /\ pc'[r] \in {"waiting", "writing"}
        /\ \A q \in Requests \ {r} : call'[q] = call[q] /\ pc'[q] = pc[q] /\ copy'[q] = copy[q]
    BY <2>1 DEF Moves, Copies, TypeOK
  <2>3. Register!Become(r, "new", "pending")
    BY <1>3, <2>2 DEF StatusOf, Over
  <2>4. SeenBy(r) = NoFile /\ SeenBy(r)' = NoFile
    BY <2>1, <2>2 DEF CopiesAreCurrent, SeenBy
  <2>5. \A q \in Requests : SeenBy(q)' = SeenBy(q)
    BY <2>2, <2>4 DEF SeenBy
  <2>6. Register!Call(r)
    BY <1>4, <2>1, <2>3, <2>5 DEF Register!Call, Calling
  <2>7. QED
    BY <2>6 DEF Register!Next
<1>5. ASSUME NEW r \in Requests, Serve(r) PROVE [Register!Next]_Register!vars
  <2>1. pc[r] # "new" /\ On(r) \in Incidents /\ UNCHANGED call
    BY <1>5, ServeSteps
  <2>2. ASSUME NEW from, NEW to, Moves(r, from, to)
        PROVE  pc[r] = from /\ pc'[r] = to /\ \A q \in Requests \ {r} : StatusOf(q)' = StatusOf(q)
    BY <2>1, <2>2 DEF Moves, StatusOf
  <2>3. (UNCHANGED copy \/ (~Reads(r) /\ \E f : Copies(r, f))) => \A q \in Requests : SeenBy(q)' = SeenBy(q)
    BY <2>1 DEF SeenBy, Copies
  <2>4. ASSUME StatusOf(r)' = StatusOf(r), \A q \in Requests \ {r} : StatusOf(q)' = StatusOf(q),
               \A q \in Requests : SeenBy(q)' = SeenBy(q), UNCHANGED file
        PROVE  UNCHANGED Register!vars
    BY <2>1, <2>4 DEF Register!vars
  <2>5. CASE Locking(r)
    BY <2>2, <2>3, <2>4, <2>5 DEF Locking, StatusOf, Over
  <2>6. CASE Storing(r)
    BY <2>2, <2>3, <2>4, <2>6 DEF Storing, StatusOf, Over
  <2>7. CASE Editing(r)
    <3>1. ~Reads(r)
      BY <2>7 DEF Editing, Edits
    <3>2. QED
      BY <2>2, <2>3, <2>4, <2>7, <3>1 DEF Editing, StatusOf, Over
  <2>8. CASE Failing(r)
    <3>1. StatusOf(r) = "pending" /\ StatusOf(r)' = "failed"
      BY <2>1, <2>2, <2>8 DEF Failing, StatusOf, Over
    <3>2. Register!Decline(r)
      BY <1>3, <2>1, <2>2, <2>3, <2>8, <3>1 DEF Failing, Register!Decline
    <3>3. QED
      BY <3>2 DEF Register!Next
  <2>9. CASE Returning(r)
    <3>1. StatusOf(r) = "applied" /\ StatusOf(r)' = "done"
      BY <2>1, <2>2, <2>9 DEF Returning, StatusOf, Over
    <3>2. Register!Return(r)
      BY <1>3, <2>1, <2>2, <2>3, <2>9, <3>1 DEF Returning, Register!Return
    <3>3. QED
      BY <3>2 DEF Register!Next
  <2>10. CASE Loading(r)
    <3>1. CASE Reads(r)
      <4>1. Register!Become(r, "pending", "applied")
        BY <1>3, <2>1, <2>2, <2>10, <3>1 DEF Loading, StatusOf, Over
      <4>2. SeenBy(r)' = file[On(r)] /\ \A q \in Requests \ {r} : SeenBy(q)' = SeenBy(q)
        BY <2>1, <2>10, <3>1 DEF Loading, Copies, SeenBy
      <4>3. Register!Apply(r)
        BY <2>1, <2>10, <3>1, <4>1, <4>2 DEF Loading, Register!Apply
      <4>4. QED
        BY <4>3 DEF Register!Next
    <3>2. CASE ~Reads(r)
      BY <2>1, <2>2, <2>3, <2>4, <2>10, <3>2 DEF Loading, StatusOf, Over
    <3>3. QED
      BY <3>1, <3>2
  <2>11. CASE Replacing(r)
    <3>1. ~Reads(r)
      BY <2>11 DEF Replacing, Moves, LockInv, Roles
    <3>2. Register!Become(r, "pending", "applied")
      BY <1>3, <2>2, <2>11, <3>1 DEF Replacing, StatusOf, Over
    <3>3. \A q \in Requests : SeenBy(q)' = SeenBy(q)
      BY <2>3, <2>11 DEF Replacing
    <3>4. CASE Open(r)
      <4>1. file' = [file EXCEPT ![On(r)] = copy[r]]
        BY <2>1, <2>11, <3>4, ReplacesAlone DEF Replacing
      <4>2. IF Is(r, "start") THEN copy[r] = NewFile
            ELSE file[On(r)].started /\ Edits(r, file[On(r)], copy[r])
        BY <2>11, <3>4 DEF CopiesAreCurrent, Replacing, Moves, Saving
      <4>3. Is(r, "start") => ~file[On(r)].started
        BY <2>11 DEF LockInv, StartsAreFirst, Replacing, Moves, Saving
      <4>4. Register!Apply(r)
        <5>1. /\ \A f : Register!BudgetSpent(f) <=> BudgetSpent(f)
              /\ \A f : Register!Wanted(f) = Wanted(f)
          <6>1. \A S : Register!Cardinality(S) = Cardinality(S)
            BY Zenon DEF Register!Cardinality, Cardinality
          <6>2. QED
            BY <6>1 DEF Register!BudgetSpent, BudgetSpent, Register!Executed, Executed, Register!Wanted, Wanted
        <5>2. /\ Register!NewFile = NewFile
              /\ \A f, k, who : Register!WithFact(f, k, who, r) = WithFact(f, k, who, r)
              /\ \A f, v : Register!Closed(f, r, v) = Closed(f, r, v)
          BY DEF Register!NewFile, NewFile, Register!WithFact, WithFact, Register!Closed, Closed,
                 Register!FirstEnd, FirstEnd
        <5>3. \A f : file' = [file EXCEPT ![On(r)] = f] => Register!Write(r, f)
          BY <3>3 DEF Register!Write
        <5>4. CASE Is(r, "start")
          BY <2>1, <3>2, <4>1, <4>2, <4>3, <5>2, <5>3, <5>4 DEF Register!Apply
        <5> DEFINE f == file[On(r)]
        <5>5. CASE Is(r, "fact_add")
          <6>1. PICK k \in Keys : copy[r] = WithFact(f, k, "agent", r)
            BY <4>2, <5>5 DEF Edits
          <6>2. f.started /\ Register!Write(r, Register!WithFact(f, k, "agent", r))
            BY <4>1, <4>2, <5>2, <5>3, <5>5, <6>1
          <6>3. QED
            BY <2>1, <3>2, <5>5, <6>2 DEF Register!Apply
        <5>6. CASE Is(r, "probe")
          <6>1. ~BudgetSpent(f) /\ \E k \in Wanted(f) \ Held : copy[r] = WithFact(f, k, "probe", r)
            BY <4>2, <5>6 DEF Edits
          <6>2. PICK k \in Wanted(f) \ Held : copy[r] = WithFact(f, k, "probe", r)
            BY <6>1
          <6>3. f.started /\ Register!Write(r, Register!WithFact(f, k, "probe", r))
            BY <4>1, <4>2, <5>2, <5>3, <5>6, <6>2
          <6>4. ~Register!BudgetSpent(f) /\ k \in Register!Wanted(f) \ Held
            BY <5>1, <6>1
          <6>5. QED
            BY <2>1, <3>2, <5>6, <6>3, <6>4 DEF Register!Apply
        <5>7. CASE Is(r, "end")
          <6>1. PICK v \in {r, f.verdict} : copy[r] = Closed(f, r, v)
            BY <4>2, <5>7 DEF Edits
          <6>2. f.started /\ Register!Write(r, Register!Closed(f, r, v))
            BY <4>1, <4>2, <5>2, <5>3, <5>7, <6>1
          <6>3. QED
            BY <2>1, <3>2, <5>7, <6>2 DEF Register!Apply
        <5>8. QED
          BY <4>2, <5>4, <5>5, <5>6, <5>7 DEF Edits
      <4>5. QED
        BY <4>4 DEF Register!Next
    <3>5. CASE ~Open(r)
      <4>1. file' = [file EXCEPT ![On(r)] = file'[On(r)]] /\ file'[On(r)].ended = file[On(r)].ended
        BY <2>1, <2>11, <3>5 DEF Replacing, Moves, LockInv, TmpKnowsTheEnd, TypeOK
      <4>2. Register!ApplyAfterEnd(r)
        BY <2>1, <3>2, <3>3, <3>5, <4>1 DEF Register!ApplyAfterEnd
      <4>3. QED
        BY <4>2 DEF Register!Next
    <3>6. QED
      BY <3>4, <3>5
  <2>12. QED
    BY <1>5, <2>5, <2>6, <2>7, <2>8, <2>9, <2>10, <2>11, ServeSteps
<1>6. QED
  BY <1>1, <1>2, <1>4, <1>5, CallSteps DEF Next

\* The server implements its promise (withIncident, the tools, Save): until an
\* incident's end every request takes effect in one step or not at all,
\* whatever runs beside it, crashes or fails to save, and afterwards the end
\* stays.
THEOREM ServerIsAtomic == ~MayReuseId => (Spec => IsAtomic)
<1> SUFFICES ASSUME ~MayReuseId PROVE Spec => IsAtomic
  OBVIOUS
<1>1. Init => Register!Init
  BY DEF Init, Register!Init, StatusOf, SeenBy, Reads, Is, Over, NoCall, Register!NoCall,
         NoFile, NewFile, Register!NoFile, Register!NewFile
<1>2. TypeOK /\ TypeOK' /\ LockInv /\ CopiesAreCurrent /\ [Next]_vars => [Register!Next]_Register!vars
  BY StepIsAtomic
<1>3. QED
  BY <1>1, <1>2, ServerTypeCorrect, LockInvHolds, CopiesStayCurrent, PTL DEF Spec, IsAtomic, Register!Spec

-----------------------------------------------------------------------------
(* The probe budget.                                                       *)

\* A state file holds finitely many executed probes.
LEMMA ExecutedIsFinite ==
    ASSUME NEW f \in File
    PROVE  /\ Executed(f) \subseteq 1..Len(f.facts) /\ Len(f.facts) \in Nat
           /\ IsFiniteSet(Executed(f)) /\ Cardinality(Executed(f)) \in Nat
<1>1. f.facts \in Seq(Entry)
  BY DEF File
<1>2. Executed(f) \subseteq 1..Len(f.facts) /\ Len(f.facts) \in Nat
  BY <1>1 DEF Executed
<1>3. IsFiniteSet(1..Len(f.facts))
  BY <1>2, FS_Interval
<1>4. IsFiniteSet(Executed(f))
  BY <1>2, <1>3, FS_Subset
<1>5. QED
  BY <1>2, <1>4, FS_CardinalityType

\* An executed probe that the budget allows, and for a fact that is wanted.
LEMMA ProbeIsRationed ==
    ASSUME NEW f \in File, Rationed(f), ~BudgetSpent(f), NEW k \in Wanted(f), NEW r \in Requests
    PROVE  Rationed(WithFact(f, k, "probe", r))
<1> DEFINE e == [key |-> k, by |-> "probe", from |-> r]
           g == WithFact(f, k, "probe", r)
           last == Len(f.facts) + 1
<1>1. f.facts \in Seq(Entry) /\ e \in Entry /\ g.facts = Append(f.facts, e)
  BY DEF File, Entry, Wanted, WithFact
<1>2. /\ DOMAIN g.facts = 1..last /\ g.facts[last] = e /\ last \in Nat
      /\ DOMAIN f.facts = 1..Len(f.facts) /\ \A n \in DOMAIN f.facts : g.facts[n] = f.facts[n]
  BY <1>1
<1>3. Executed(g) = Executed(f) \cup {last} /\ last \notin Executed(f)
  BY <1>2 DEF Executed
<1>4. Cardinality(Executed(g)) = Cardinality(Executed(f)) + 1
  BY <1>3, ExecutedIsFinite, FS_AddElement
<1>5. MaxExecute > 0 => Cardinality(Executed(g)) <= MaxExecute
  BY <1>4, ExecutedIsFinite DEF BudgetSpent
<1>6. \A a \in Executed(f) : g.facts[a].key = f.facts[a].key /\ f.facts[a].key # k
  BY <1>2 DEF Executed, Wanted
<1>7. g.facts[last].key = k
  BY <1>2
<1>8. QED
  BY <1>3, <1>5, <1>6, <1>7 DEF Rationed

\* An edit keeps what was signed and rationed so.
LEMMA EditsAreSound ==
    ASSUME NEW f \in File, Sound(f), NEW r \in Requests, pc[r] # "new", NEW g, Edits(r, f, g)
    PROVE  Sound(g)
<1>1. ASSUME NEW k \in Keys, NEW who \in {"agent", "probe"}, who = "probe" <=> Is(r, "probe"),
             g = WithFact(f, k, who, r)
      PROVE  Signed(g)
  <2> DEFINE e == [key |-> k, by |-> who, from |-> r]
             last == Len(f.facts) + 1
  <2>1. f.facts \in Seq(Entry) /\ e \in Entry /\ g.facts = Append(f.facts, e)
    BY <1>1 DEF File, Entry, WithFact
  <2>2. /\ DOMAIN g.facts = 1..last /\ g.facts[last] = e /\ last \in Nat
        /\ DOMAIN f.facts = 1..Len(f.facts) /\ \A n \in DOMAIN f.facts : g.facts[n] = f.facts[n]
    BY <2>1
  <2>3. \A n \in DOMAIN g.facts : n = last \/ n \in DOMAIN f.facts
    BY <2>2
  <2>4. QED
    BY <1>1, <2>2, <2>3 DEF Sound, Signed
<1>2. CASE Is(r, "fact_add")
  <2>1. PICK k \in Keys : g = WithFact(f, k, "agent", r)
    BY <1>2 DEF Edits, Is
  <2> DEFINE e == [key |-> k, by |-> "agent", from |-> r]
             last == Len(f.facts) + 1
  <2>2. f.facts \in Seq(Entry) /\ e \in Entry /\ g.facts = Append(f.facts, e)
    BY <2>1 DEF File, Entry, WithFact
  <2>3. /\ DOMAIN g.facts = 1..last /\ g.facts[last] = e /\ last \in Nat
        /\ DOMAIN f.facts = 1..Len(f.facts) /\ \A n \in DOMAIN f.facts : g.facts[n] = f.facts[n]
    BY <2>2
  <2>4. Executed(g) = Executed(f)
    BY <2>3 DEF Executed
  <2>5. \A n \in Executed(f) : g.facts[n] = f.facts[n]
    BY <2>3 DEF Executed
  <2>6. Rationed(g)
    BY <2>4, <2>5 DEF Sound, Rationed
  <2>7. QED
    BY <1>1, <1>2, <2>1, <2>6 DEF Sound, Is
<1>3. CASE Is(r, "probe")
  <2>1. ~BudgetSpent(f) /\ \E k \in Wanted(f) : g = WithFact(f, k, "probe", r)
    BY <1>3 DEF Edits, Is
  <2>2. PICK k \in Wanted(f) : g = WithFact(f, k, "probe", r)
    BY <2>1
  <2>3. k \in Keys
    BY DEF Wanted
  <2>4. QED
    BY <1>1, <1>3, <2>1, <2>2, <2>3, ProbeIsRationed DEF Sound
<1>4. CASE Is(r, "end")
  <2>1. g.facts = f.facts
    BY <1>4 DEF Edits, Is, Closed, File
  <2>2. QED
    BY <2>1 DEF Sound, Signed, Rationed, Executed
<1>5. QED
  BY <1>2, <1>3, <1>4 DEF Edits

\* No file, and the file of an incident just started, are sound.
LEMMA EmptyFilesAreSound == Sound(NoFile) /\ Sound(NewFile)
<1>1. Executed(NoFile) = {} /\ Executed(NewFile) = {}
  BY DEF Executed, NoFile, NewFile
<1>2. Cardinality({}) = 0 /\ MaxExecute \in Nat
  BY FS_EmptySet
<1>3. Rationed(NoFile) /\ Rationed(NewFile)
  BY <1>1, <1>2 DEF Rationed
<1>4. Signed(NoFile) /\ Signed(NewFile)
  BY DEF Signed, NoFile, NewFile
<1>5. QED
  BY <1>3, <1>4 DEF Sound

\* Every step keeps the files and the copies sound.
LEMMA FilesAreSoundStep ==
    ASSUME TypeOK, FilesAreSound, [Next]_vars
    PROVE  FilesAreSound'
<1>1. ASSUME \A q \in Requests : pc[q] # "new" => pc'[q] # "new" /\ call'[q] = call[q],
             NEW f \in File, Sound(f)
      PROVE  (\A n \in DOMAIN f.facts : LET q == f.facts[n].from IN
                pc'[q] # "new" /\ (f.facts[n].by = "probe" <=> call'[q].op = "probe"))
             /\ Rationed(f)
  <2>1. \A n \in DOMAIN f.facts : f.facts[n].from \in Requests
    <3>1. f.facts \in Seq(Entry)
      BY DEF File
    <3>2. \A n \in DOMAIN f.facts : f.facts[n] \in Entry
      BY <3>1
    <3>3. QED
      BY <3>2 DEF Entry
  <2>2. QED
    BY <1>1, <2>1 DEF Sound, Signed, Is
<1>2. ASSUME \A q \in Requests : pc[q] # "new" => pc'[q] # "new" /\ call'[q] = call[q],
             \A i \in Incidents : file'[i] \in File /\ tmp'[i] \in File /\ Sound(file'[i]) /\ Sound(tmp'[i]),
             \A q \in Requests : copy'[q] \in File /\ Sound(copy'[q])
      PROVE  FilesAreSound'
  BY <1>1, <1>2 DEF FilesAreSound, Sound, Signed, Rationed, Is
<1>3. Sound(NoFile) /\ Sound(NewFile) /\ NoFile \in File /\ NewFile \in File
  BY EmptyFiles, EmptyFilesAreSound
<1> HIDE DEF Sound
<1>4. CASE UNCHANGED vars
  BY <1>2, <1>4 DEF vars, FilesAreSound, TypeOK
<1>5. CASE Crash
  BY <1>2, <1>3, <1>5 DEF Crash, FilesAreSound, TypeOK, Steps, Over
<1>6. ASSUME NEW r \in Requests, Calling(r) PROVE FilesAreSound'
  BY <1>2, <1>3, <1>6 DEF Calling, Moves, Copies, FilesAreSound, TypeOK
<1>7. ASSUME NEW r \in Requests, Serve(r) PROVE FilesAreSound'
  <2>1. pc[r] # "new" /\ On(r) \in Incidents /\ UNCHANGED call
    BY <1>7, ServeSteps
  <2>2. ASSUME NEW from, NEW to, Moves(r, from, to), to # "new"
        PROVE  \A q \in Requests : pc[q] # "new" => pc'[q] # "new" /\ call'[q] = call[q]
    BY <2>1, <2>2 DEF Moves
  <2>3. CASE Locking(r) \/ Failing(r) \/ Returning(r)
    BY <1>2, <2>2, <2>3 DEF Locking, Failing, Returning, FilesAreSound, TypeOK
  <2>4. CASE Loading(r)
    BY <1>2, <2>1, <2>2, <2>4 DEF Loading, Copies, FilesAreSound, TypeOK
  <2>5. CASE Storing(r)
    BY <1>2, <2>1, <2>2, <2>5 DEF Storing, FilesAreSound, TypeOK
  <2>6. CASE Replacing(r)
    BY <1>2, <1>3, <2>1, <2>2, <2>6 DEF Replacing, FilesAreSound, TypeOK
  <2>7. CASE Editing(r)
    <3>1. PICK f : Edits(r, copy[r], f) /\ Copies(r, f)
      BY <2>7 DEF Editing
    <3>2. copy[r] \in File /\ Sound(copy[r])
      BY DEF FilesAreSound, TypeOK
    <3>3. f \in File
      BY <3>1, <3>2, EditsAreFiles DEF Edits, Wanted
    <3>4. Sound(f)
      BY <2>1, <3>1, <3>2, EditsAreSound
    <3>5. QED
      BY <1>2, <2>1, <2>2, <2>7, <3>1, <3>3, <3>4 DEF Editing, Copies, FilesAreSound, TypeOK
  <2>8. QED
    BY <1>7, <2>3, <2>4, <2>5, <2>6, <2>7, ServeSteps
<1>8. QED
  BY <1>4, <1>5, <1>6, <1>7, CallSteps DEF Next

\* Two executed probes are two entries of an open incident's file.
LEMMA ReportedIsOnRecord ==
    ASSUME TypeOK, NothingIsDropped, FilesAreSound,
           NEW i \in Incidents, file[i].ended = None
    PROVE  LET reported == {r \in Requests : pc[r] = "done" /\ On(r) = i /\ Is(r, "probe")}
           IN  /\ IsFiniteSet(reported)
               /\ Cardinality(reported) <= Cardinality(Executed(file[i]))
<1> DEFINE reported == {r \in Requests : pc[r] = "done" /\ On(r) = i /\ Is(r, "probe")}
           entry == [r \in reported |-> CHOOSE n \in Executed(file[i]) : file[i].facts[n].from = r]
<1>1. ASSUME NEW r \in reported
      PROVE  entry[r] \in Executed(file[i]) /\ file[i].facts[entry[r]].from = r
  <2>1. Acknowledges(file[i], r)
    BY DEF NothingIsDropped, Open, Records, Is
  <2>2. \E n \in Executed(file[i]) : file[i].facts[n].from = r
    BY <2>1 DEF Acknowledges, FilesAreSound, Sound, Signed, Executed
  <2>3. QED
    BY <2>2
<1>2. entry \in Injection(reported, Executed(file[i]))
  BY <1>1 DEF Injection, IsInjective
<1>3. IsFiniteSet(Executed(file[i]))
  BY ExecutedIsFinite DEF TypeOK
<1>4. QED
  BY <1>2, <1>3, FS_Injection

\* The budget of an incident (checkProbeGates, probeCollectedFactCount) is
\* kept by its file and by what agents were told, however many requests
\* count at the same time.
THEOREM BudgetIsKept == ~MayReuseId => (Spec => []ProbesAreRationed)
<1> SUFFICES ASSUME ~MayReuseId PROVE Spec => []ProbesAreRationed
  OBVIOUS
<1>1. Init => NothingIsDropped /\ FilesAreSound
  BY EmptyFilesAreSound DEF Init, NothingIsDropped, FilesAreSound
<1>2. TypeOK /\ LockInv /\ NothingIsDropped /\ FilesAreSound /\ [Next]_vars
         => NothingIsDropped' /\ FilesAreSound'
  BY NothingIsDroppedStep, FilesAreSoundStep
<1>3. TypeOK /\ NothingIsDropped /\ FilesAreSound => ProbesAreRationed
  <2> SUFFICES ASSUME TypeOK, NothingIsDropped, FilesAreSound, NEW i \in Incidents,
                      file[i].ended = None
               PROVE  LET onRecord == Executed(file[i])
                          reported == {r \in Requests : pc[r] = "done" /\ On(r) = i /\ Is(r, "probe")} IN
                      /\ MaxExecute > 0 =>
                            Cardinality(onRecord) <= MaxExecute /\ Cardinality(reported) <= MaxExecute
                      /\ \A a, b \in onRecord : file[i].facts[a].key = file[i].facts[b].key => a = b
    BY DEF ProbesAreRationed
  <2> DEFINE reported == {r \in Requests : pc[r] = "done" /\ On(r) = i /\ Is(r, "probe")}
  <2>1. Rationed(file[i])
    BY DEF FilesAreSound, Sound
  <2>2. Cardinality(Executed(file[i])) \in Nat
    BY ExecutedIsFinite DEF TypeOK
  <2>3. Cardinality(reported) \in Nat /\ Cardinality(reported) <= Cardinality(Executed(file[i]))
    BY ReportedIsOnRecord, FS_CardinalityType
  <2>4. QED
    BY <2>1, <2>2, <2>3 DEF Rationed
<1>4. QED
  BY <1>1, <1>2, <1>3, ServerTypeCorrect, LockInvHolds, PTL DEF Spec
=============================================================================
