--------------------------- MODULE IncidentServer ---------------------------
(***************************************************************************)
(* The agent server (internal/mcp): every request runs in a goroutine of   *)
(* its own, takes the mutex of its incident from a registry, loads the     *)
(* state file, works on its own copy and saves it.  incident_start takes   *)
(* no lock, and incident_end drops the mutex from the registry.            *)
(*                                                                         *)
(* A mutex is a number, the how manieth one minted for its incident; 0 is  *)
(* none.  Save writes a temporary file, the same for everybody, and        *)
(* renames it over the state file.                                         *)
(***************************************************************************)
EXTENDS IncidentFile

CONSTANTS
    Ops,            \* the tools in use
    MayReuseId,     \* an agent may start an incident under an id in use
    SaveMayFail,    \* writing the temporary file may fail
    MayCrash        \* the server may be killed and started again

VARIABLES
    file,       \* the state file of each incident
    tmp,        \* its temporary file
    registry,   \* incidentLocks: the mutex of each incident
    minted,     \* mutexes made so far for each incident
    call,       \* what each request asks
    pc,         \* where its goroutine is
    lock,       \* the mutex it waits for or holds
    copy        \* the store it loaded

vars == <<file, tmp, registry, minted, call, pc, lock, copy>>

Tools  == {"start", "end", "fact_add", "facts_list", "render", "probe"}
NoCall == [op |-> None, on |-> None]
Steps  == {"new", "waiting", "holding", "loaded", "writing", "renaming", "saved", "evicted"}
Over   == {"done", "failed", "lost"}

ASSUME IncidentServerAssumption == Ops \subseteq Tools /\ None \notin Tools

TypeOK ==
    /\ file \in [Incidents -> File] /\ tmp \in [Incidents -> File]
    /\ registry \in [Incidents -> Nat] /\ minted \in [Incidents -> Nat]
    /\ \A i \in Incidents : registry[i] \in {0, minted[i]}
    /\ call \in [Requests -> [op : Ops, on : Incidents] \cup {NoCall}]
    /\ pc \in [Requests -> Steps \cup Over]
    /\ \A r \in Requests : call[r] = NoCall <=> pc[r] = "new"
    /\ lock \in [Requests -> Nat] /\ copy \in [Requests -> File]

Init ==
    /\ file \in [Incidents -> {NoFile, NewFile}]
    /\ tmp = [i \in Incidents |-> NoFile]
    /\ registry = [i \in Incidents |-> 0] /\ minted = [i \in Incidents |-> 0]
    /\ call = [r \in Requests |-> NoCall] /\ pc = [r \in Requests |-> "new"]
    /\ lock = [r \in Requests |-> 0] /\ copy = [r \in Requests |-> NoFile]

On(r) == call[r].on
Is(r, o) == call[r].op = o

\* withIncident(writer = false); every other request locks exclusively.
Shares(r) == Is(r, "facts_list")

Holds(r) == pc[r] \in {"holding", "loaded", "writing", "renaming", "saved", "evicted"}
              /\ ~Is(r, "start")

Go(r, from, to) == pc[r] = from /\ pc' = [pc EXCEPT ![r] = to]

-----------------------------------------------------------------------------
(* The lock registry and the prologue every tool shares.                   *)

\* Mutant: every request gets a mutex of its own.
LockForFresh(i) == minted[i] + 1

\* lockFor: the mutex of incident i, made on first use.
LockFor(i) == IF registry[i] = 0 THEN minted[i] + 1 ELSE registry[i]

\* A start takes no lock.  Ids are generated, or chosen by an agent.
Arrive(r) ==
    /\ \E o \in Ops \ {"start"}, i \in Incidents :
          /\ call' = [call EXCEPT ![r] = [op |-> o, on |-> i]]
          /\ lock' = [lock EXCEPT ![r] = LockFor(i)]
          /\ registry' = [registry EXCEPT ![i] = LockFor(i)]
          /\ minted' = [minted EXCEPT ![i] = IF LockFor(i) > @ THEN @ + 1 ELSE @]
    /\ Go(r, "new", "waiting")
    /\ UNCHANGED <<file, tmp, copy>>

Unused(i) == ~file[i].started /\ \A q \in Requests : On(q) = i => ~Is(q, "start")

Start(r) ==
    /\ "start" \in Ops
    /\ \E i \in Incidents :
          /\ MayReuseId \/ Unused(i)
          /\ call' = [call EXCEPT ![r] = [op |-> "start", on |-> i]]
    /\ copy' = [copy EXCEPT ![r] = NewFile]
    /\ Go(r, "new", "writing")
    /\ UNCHANGED <<file, tmp, registry, minted, lock>>

\* Mutant: readers do not wait for a writer.
Overtakes(r) == \A q \in Requests :
    Holds(q) /\ On(q) = On(r) /\ lock[q] = lock[r] => Shares(r)

\* sync.RWMutex: shared among readers, exclusive otherwise.
Free(r) == \A q \in Requests :
    Holds(q) /\ On(q) = On(r) /\ lock[q] = lock[r] => Shares(q) /\ Shares(r)

Acquire(r) ==
    /\ Go(r, "waiting", "holding") /\ Free(r)
    /\ UNCHANGED <<file, tmp, registry, minted, call, lock, copy>>

\* The deferred unlock, on every way out.
Leave(r, from, how) ==
    /\ Go(r, from, how)
    /\ lock' = [lock EXCEPT ![r] = 0]
    /\ UNCHANGED <<file, registry, minted, call, copy>>

Load(r) ==
    \/ /\ Go(r, "holding", "loaded")
       /\ file[On(r)].started
       /\ copy' = [copy EXCEPT ![r] = file[On(r)]]
       /\ UNCHANGED <<file, tmp, registry, minted, call, lock>>
    \/ Leave(r, "holding", "failed") /\ ~file[On(r)].started /\ UNCHANGED tmp

-----------------------------------------------------------------------------
(* The tools, between load and save.                                       *)

Edit(r, f) ==
    /\ Go(r, "loaded", "writing")
    /\ copy' = [copy EXCEPT ![r] = f]
    /\ UNCHANGED <<file, tmp, registry, minted, call, lock>>

FactAdd(r) == Is(r, "fact_add") /\ \E k \in Keys : Edit(r, WithFact(copy[r], k, "agent", r))

\* facts_list, plan, incident_snapshot and the scenario lists answer from the
\* copy, as does a probe that is only rendered.
Answer(r) == (Is(r, "facts_list") \/ Is(r, "render")) /\ Leave(r, "loaded", "done") /\ UNCHANGED tmp

\* No suggestion, a probe only an operator can answer, or a gate that refuses.
ProbeDeclined(r) == Is(r, "probe") /\ Leave(r, "loaded", "failed") /\ UNCHANGED tmp

\* Every outcome but an unclassified error is recorded; that one is a
\* ProbeDeclined too.
ProbeRuns(r) ==
    /\ Is(r, "probe") /\ ~BudgetSpent(copy[r])
    /\ \E k \in Wanted(copy[r]) \ Held : Edit(r, WithFact(copy[r], k, "probe", r))

\* EndByID, with a verdict or without.
IncidentEnd(r) ==
    /\ Is(r, "end")
    /\ \E v \in {r, copy[r].verdict} : Edit(r, Closed(copy[r], r, v))

-----------------------------------------------------------------------------
(* Save, and after.                                                        *)

WriteTmp(r) ==
    \/ /\ Go(r, "writing", "renaming")
       /\ tmp' = [tmp EXCEPT ![On(r)] = copy[r]]
       /\ UNCHANGED <<file, registry, minted, call, lock, copy>>
    \/ SaveMayFail /\ Leave(r, "writing", "failed") /\ UNCHANGED tmp

\* Mutant: a rename that fails is not noticed.
RenameWaits(r) ==
    /\ Go(r, "renaming", "saved")
    /\ tmp[On(r)].started
    /\ file' = [file EXCEPT ![On(r)] = tmp[On(r)]] /\ tmp' = [tmp EXCEPT ![On(r)] = NoFile]
    /\ UNCHANGED <<registry, minted, call, lock, copy>>

\* Nothing is left to rename when another save of the incident came between.
Rename(r) ==
    LET i == On(r) IN
    \/ /\ Go(r, "renaming", "saved")
       /\ tmp[i].started
       /\ file' = [file EXCEPT ![i] = tmp[i]] /\ tmp' = [tmp EXCEPT ![i] = NoFile]
       /\ UNCHANGED <<registry, minted, call, lock, copy>>
    \/ Leave(r, "renaming", "failed") /\ ~tmp[i].started /\ UNCHANGED tmp

\* Mutant: the mutex goes before the end is on disk.
EvictEarly(r) ==
    /\ Is(r, "end") /\ Go(r, "writing", "renaming")
    /\ tmp' = [tmp EXCEPT ![On(r)] = copy[r]]
    /\ registry' = [registry EXCEPT ![On(r)] = 0]
    /\ UNCHANGED <<file, minted, call, lock, copy>>

\* evictLock, before the deferred unlock.
Evict(r) ==
    /\ Is(r, "end") /\ Go(r, "saved", "evicted")
    /\ registry' = [registry EXCEPT ![On(r)] = 0]
    /\ UNCHANGED <<file, tmp, minted, call, lock, copy>>

Return(r) ==
    /\ \/ ~Is(r, "end") /\ Leave(r, "saved", "done")
       \/ Leave(r, "evicted", "done")
    /\ UNCHANGED tmp

\* The mutexes are the process's, the files are not.
Crash ==
    /\ MayCrash
    /\ LET inFlight == {r \in Requests : pc[r] \in Steps \ {"new"}} IN
       /\ inFlight # {}
       /\ pc'   = [r \in Requests |-> IF r \in inFlight THEN "lost" ELSE pc[r]]
       /\ lock' = [r \in Requests |-> IF r \in inFlight THEN 0 ELSE lock[r]]
       /\ copy' = [r \in Requests |-> IF r \in inFlight THEN NoFile ELSE copy[r]]
    /\ registry' = [i \in Incidents |-> 0]
    /\ UNCHANGED <<file, tmp, minted, call>>

Work(r) == FactAdd(r) \/ Answer(r) \/ ProbeDeclined(r) \/ ProbeRuns(r) \/ IncidentEnd(r)
Serve(r) == Acquire(r) \/ Load(r) \/ Work(r) \/ WriteTmp(r) \/ Rename(r) \/ Evict(r) \/ Return(r)

Next == Crash \/ \E r \in Requests : Arrive(r) \/ Start(r) \/ Serve(r)

\* A goroutine that can run is run, and a probe has a timeout; nobody has to
\* send a request.
Spec == Init /\ [][Next]_vars /\ \A r \in Requests : WF_vars(Serve(r))

-----------------------------------------------------------------------------
(* Properties.                                                             *)

\* Two requests that are past the lock of one incident, one of them a writer.
Collide(q, r) ==
    /\ q # r /\ Holds(q) /\ Holds(r) /\ On(q) = On(r)
    /\ ~(Shares(q) /\ Shares(r))

\* The registry keeps writers of an incident apart, and away from its
\* readers, until the incident's end is on disk.
OneWriterUntilEnded ==
    \A q, r \in Requests : Collide(q, r) => file[On(r)].ended # None

\* A fact the agent was told is appended, and a probe it was told was
\* executed, is in the state file of an incident that has not ended: no save
\* of another request, no crash and no failed save loses it.
AnsweredIsOnDisk ==
    \A r \in Requests :
        /\ pc[r] = "done" /\ call[r].op \in {"fact_add", "probe"}
        /\ file[On(r)].ended = None
        => Acknowledges(file[On(r)], r)

\* Until the incident ends no more probes were reported as executed, or are on
\* record, than the limit allows, and none of them for a fact that was
\* there: two requests never find room for the same probe.
ProbesAreRationed ==
    \A i \in Incidents : file[i].ended = None =>
        LET onRecord == Executed(file[i])
            reported == {r \in Requests : pc[r] = "done" /\ On(r) = i /\ Is(r, "probe")} IN
        /\ MaxExecute > 0 =>
              Cardinality(onRecord) <= MaxExecute /\ Cardinality(reported) <= MaxExecute
        /\ \A a, b \in onRecord : file[i].facts[a].key = file[i].facts[b].key => a = b

\* The first end of an incident stands, whoever saves the file afterwards
\* and under whichever mutex.
EndStands ==
    [][\A i \in Incidents : file[i].ended # None => file'[i].ended = file[i].ended]_vars

\* Every request is answered, or lost to a crash: no goroutine leaves a mutex
\* locked, and none waits for one forever.
EveryRequestIsAnswered == \A r \in Requests : pc[r] = "waiting" ~> pc[r] \in Over

(* What the repository says of the program, and the code does otherwise.   *)

\* locks.go: one writer per incident at a time.
OneWriterAtATime == \A q, r \in Requests : ~Collide(q, r)

-----------------------------------------------------------------------------
(* The abstract server: a request takes effect when its save is renamed    *)
(* into place, or, when it saves nothing, when it loads the file.          *)

Reads(r) == Is(r, "facts_list") \/ Is(r, "render")

StatusOf(r) ==
    IF pc[r] \in Over \cup {"new"} THEN pc[r]
    ELSE IF pc[r] \in {"saved", "evicted"} \/ (pc[r] = "loaded" /\ Reads(r)) THEN "applied"
    ELSE "pending"

SeenBy(r) == IF Reads(r) THEN copy[r] ELSE NoFile

Register == INSTANCE IncidentRegister WITH
    status <- [r \in Requests |-> StatusOf(r)],
    seen   <- [r \in Requests |-> SeenBy(r)]

\* As long as no id is reused the server is atomic until an incident's end,
\* and keeps the end from then on.
IsAtomic == Register!Spec

=============================================================================
