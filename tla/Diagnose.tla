------------------------------ MODULE Diagnose ------------------------------
(***************************************************************************)
(* The autopilot (internal/cli/diagnose.go): ask the strategy for the next *)
(* probe, run it or put it to the operator, record and save what it        *)
(* established, until the strategy concludes or the run gives up.          *)
(*                                                                         *)
(* The system under diagnosis is world, fixed for the whole behaviour:     *)
(* what each fact would read, NoValue where the thing is not there.  A     *)
(* probe tells the truth or fails.  With an active incident the store is   *)
(* the incident's state file, which survives a crash and which another     *)
(* process may append to with `mgtt fact add`.                             *)
(***************************************************************************)
EXTENDS Probing, Counting

CONSTANTS
    Generic,        \* components of the generic provider: the operator answers
    OperatorFact,   \* operator_says_healthy
    SkipMark,       \* __operator_skipped
    True,           \* the value true
    Options,        \* the ways a run may be started: [terminal, scenarios, onWrite]
    Writers,        \* components whose provider is not read-only
    MaxProbes,      \* --max-probes
    Incident,       \* an incident is active: the store is on disk
    SaveMayFail,    \* Save may return an error
    MayCrash,       \* the process may be killed
    MayAddLive,     \* `mgtt fact add` may run while diagnose does
    MaxSessions,    \* bound: runs of `mgtt diagnose`
    MaxAdded        \* bound: facts added by hand

\* What becomes of a probe of a provider that is not read-only; without
\* --readonly-only it runs, and an --on-write it does not know fails.
OnWrite == {"run", "pause", "fail"}

ASSUME DiagnoseAssumption ==
    /\ Options \subseteq [terminal : BOOLEAN, scenarios : BOOLEAN, onWrite : OnWrite]
    /\ Generic \subseteq Components
    /\ {OperatorFact, SkipMark} \subseteq Keys /\ OperatorFact # SkipMark
    /\ True \in Values
    /\ \A c \in Generic : TypeFacts[c] = <<OperatorFact>>
    /\ \A w \in Worlds : \A c \in Generic : w[c][OperatorFact] # NoValue
    /\ MaxProbes \in Nat /\ MaxSessions \in Nat /\ MaxAdded \in Nat

VARIABLES
    world,      \* the system under diagnosis
    disk,       \* the facts in the incident's state file
    store,      \* the facts diagnose holds in memory
    options,    \* how this session was started
    pc,         \* "idle", "deciding", "probing", "prompting" or "stopped"
    pending,    \* the probe being run or asked about
    trail,      \* the probes this session ran
    probesRun,  \* the budget this session used
    expired,    \* the session's deadline has passed
    report,     \* what the session printed last
    sessions,   \* sessions started
    added       \* facts added by hand

vars == <<world, disk, store, options, pc, pending, trail, probesRun, expired, report, sessions, added>>

NoReport == [kind |-> "none", root |-> NoValue, chain |-> <<>>]

\* What a report adds -- the components that cannot be ruled out, degraded
\* redundancy, the trail -- is a function of the store and the trail.
Report(kind, root, chain) == [kind |-> kind, root |-> root, chain |-> chain]

Headlines == {"none", "root_cause", "absorbed", "all_healthy", "none_seen", "stuck", "partial", "error"}

TypeOK ==
    /\ world \in Worlds
    /\ disk \in Store /\ store \in Store
    /\ options \in Options
    /\ pc \in {"idle", "deciding", "probing", "prompting", "stopped"}
    /\ pending \in Probes \cup {NoProbe}
    /\ pc \in {"probing", "prompting"} <=> pending # NoProbe
    /\ trail \in Seq(Probes)
    /\ probesRun \in 0..MaxProbes
    /\ expired \in BOOLEAN
    /\ report.kind \in Headlines
    /\ sessions \in 0..MaxSessions
    /\ added \in 0..MaxAdded

Init ==
    /\ world \in Worlds
    /\ disk = EmptyStore /\ store = EmptyStore
    /\ options \in Options
    /\ pc = "idle" /\ pending = NoProbe
    /\ trail = <<>> /\ probesRun = 0 /\ expired = FALSE
    /\ report = NoReport /\ sessions = 0 /\ added = 0

-----------------------------------------------------------------------------
(* Starting and stopping.                                                  *)

\* Mutant: a session starts from nothing.
NoStore == EmptyStore

\* incident.CurrentStoreOrMemory
CurrentStore == IF Incident THEN disk ELSE EmptyStore

\* Mutant: any fact recorded beforehand will do.
UnseededIfEmpty(st) == Generic # {} /\ st = EmptyStore

\* modelUsesUnseededGenericComponent
Unseeded(st) == \E c \in Generic : ~Collected(st[c], OperatorFact)

\* runDiagnose up to its loop.  Without a terminal a generic component whose
\* question has not been answered beforehand refuses the run.
Start ==
    /\ pc \in {"idle", "stopped"}
    /\ sessions < MaxSessions
    /\ store' = CurrentStore
    /\ options' \in Options
    /\ \/ /\ ~options'.terminal /\ Unseeded(store')
          /\ pc' = "stopped"
          /\ report' = Report("error", NoValue, <<>>)
       \/ /\ options'.terminal \/ ~Unseeded(store')
          /\ pc' = "deciding"
          /\ report' = NoReport
    /\ pending' = NoProbe /\ trail' = <<>> /\ probesRun' = 0 /\ expired' = FALSE
    /\ sessions' = sessions + 1
    /\ UNCHANGED <<world, disk, added>>

\* Mutant: the probe in hand is not put down.
StopHolding(rep) ==
    /\ pc' = "stopped" /\ report' = rep
    /\ UNCHANGED <<world, options, pending, probesRun, expired, sessions, added>>

Stop(rep) ==
    /\ pc' = "stopped" /\ report' = rep /\ pending' = NoProbe
    /\ UNCHANGED <<world, options, probesRun, expired, sessions, added>>

\* Mutant: the budget check is off by one.
OverBudget ==
    /\ pc = "deciding" /\ probesRun > MaxProbes
    /\ Stop(Report("partial", NoValue, <<>>))
    /\ UNCHANGED <<disk, store, trail>>

\* The top of the loop: budget first, then the deadline.
OutOfBudget ==
    /\ pc = "deciding" /\ probesRun >= MaxProbes
    /\ Stop(Report("partial", NoValue, <<>>))
    /\ UNCHANGED <<disk, store, trail>>

OutOfTime ==
    /\ pc = "deciding" /\ probesRun < MaxProbes /\ expired
    /\ Stop(Report("partial", NoValue, <<>>))
    /\ UNCHANGED <<disk, store, trail>>

Deciding == pc = "deciding" /\ probesRun < MaxProbes /\ ~expired

\* Mutant: what could not be seen is not mentioned.
HeadlineBlind(root) ==
    IF root = NoValue THEN "all_healthy"
    ELSE IF RedundancyCovered(store, root) THEN "absorbed" ELSE "root_cause"

\* reportDone
Headline(root) ==
    IF root = NoValue
      THEN IF CannotRuleOut(store) = {} THEN "all_healthy" ELSE "none_seen"
      ELSE IF RedundancyCovered(store, root) THEN "absorbed" ELSE "root_cause"

ConcludeOccam ==
    /\ Deciding /\ options.scenarios /\ OccamDone(store)
    /\ \E chain \in Live(store) :
          Stop(Report(Headline(chain[1].on), chain[1].on, chain))
    /\ UNCHANGED <<disk, store, trail>>

GetStuck ==
    /\ Deciding /\ options.scenarios /\ OccamStuck(store)
    /\ Stop(Report("stuck", NoValue, <<>>))
    /\ UNCHANGED <<disk, store, trail>>

ConcludeBfs ==
    /\ Deciding /\ ~options.scenarios /\ BfsProbes(store) = {}
    /\ \E root \in {RootCause(store)} : Stop(Report(Headline(root), root, <<>>))
    /\ UNCHANGED <<disk, store, trail>>

-----------------------------------------------------------------------------
(* One probe.                                                              *)

\* checkReadonlyGate
Gated(p) == p.on \in Writers \ Generic /\ options.onWrite # "run"

Suggest ==
    /\ Deciding
    /\ \E p \in Suggested(store, options.scenarios) :
          /\ ~Gated(p)
          /\ pending' = p
          /\ pc' = IF p.on \in Generic THEN "prompting" ELSE "probing"
    /\ UNCHANGED <<world, options, disk, store, trail, probesRun, expired, report, sessions, added>>

RefuseWrite ==
    /\ Deciding
    /\ \E p \in Suggested(store, options.scenarios) : Gated(p)
    /\ Stop(Report(IF options.onWrite = "pause" THEN "partial" ELSE "error", NoValue, <<>>))
    /\ UNCHANGED <<disk, store, trail>>

\* persist: a store with no state file is not saved, and a failed save is
\* only a warning.
Persist ==
    \/ Incident /\ disk' = store'
    \/ (Incident => SaveMayFail) /\ UNCHANGED disk

\* The rest of an iteration that recorded something.
Recorded ==
    /\ Persist
    /\ trail' = Append(trail, pending)
    /\ probesRun' = probesRun + 1
    /\ pc' = "deciding" /\ pending' = NoProbe
    /\ UNCHANGED <<world, options, expired, report, sessions, added>>

ProbeReturns ==
    /\ pc = "probing"
    /\ \E f \in Outcomes(world, pending) : store' = Appended(store, pending.on, f)
    /\ Recorded

\* Any other error ends the run; past the deadline it is reported as such.
ProbeFails ==
    /\ pc = "probing"
    /\ UNCHANGED <<store, trail>>
    /\ Persist
    /\ Stop(Report(IF expired THEN "partial" ELSE "error", NoValue, <<>>))

-----------------------------------------------------------------------------
(* The operator.                                                           *)

OperatorAnswers ==
    /\ pc = "prompting"
    /\ store' = Appended(store, pending.on,
                    NewFact(OperatorFact, world[pending.on][OperatorFact], "", "operator"))
    /\ Recorded

\* Mutant: the marker alone.
SkippedMarkOnly(c) == Appended(store, c, NewFact(SkipMark, True, "", "operator"))

\* applyOperatorAnswer "skip": a marker, and the question itself unanswered.
Skipped(c) ==
    Appended(Appended(store, c, NewFact(SkipMark, True, "", "operator")),
             c, NewFact(OperatorFact, NoValue, "", "operator"))

OperatorSkips ==
    /\ pc = "prompting"
    /\ store' = Skipped(pending.on)
    /\ Recorded

StdinCloses ==
    /\ pc = "prompting"
    /\ store' = Skipped(pending.on)
    /\ Persist
    /\ trail' = Append(trail, pending)
    /\ Stop(Report("partial", NoValue, <<>>))

\* An answer that is none of y, n and skip ends the run with an error.
OperatorMistypes ==
    /\ pc = "prompting"
    /\ Stop(Report("error", NoValue, <<>>))
    /\ UNCHANGED <<disk, store, trail>>

-----------------------------------------------------------------------------
(* The environment.                                                        *)

DeadlinePasses ==
    /\ pc \in {"deciding", "probing", "prompting"} /\ ~expired
    /\ expired' = TRUE
    /\ UNCHANGED <<world, options, disk, store, pc, pending, trail, probesRun, report, sessions, added>>

Crash ==
    /\ MayCrash /\ pc \in {"deciding", "probing", "prompting"}
    /\ pc' = "idle" /\ store' = EmptyStore /\ pending' = NoProbe
    /\ trail' = <<>> /\ probesRun' = 0 /\ expired' = FALSE /\ report' = NoReport
    /\ UNCHANGED <<world, options, disk, sessions, added>>

\* `mgtt fact add` from another process: load, append, save.
AddFact(c, k) ==
    /\ Incident /\ added < MaxAdded
    /\ MayAddLive \/ pc \in {"idle", "stopped"}
    /\ world[c][k] # NoValue
    /\ disk' = Appended(disk, c, NewFact(k, world[c][k], "", "manual"))
    /\ added' = added + 1
    /\ UNCHANGED <<world, options, store, pc, pending, trail, probesRun, expired, report, sessions>>

AddsFact == \E c \in Components : \E k \in Range(TypeFacts[c]) : AddFact(c, k)

\* What the program does without anybody's help.
Decide  == OutOfBudget \/ OutOfTime \/ ConcludeOccam \/ GetStuck \/ ConcludeBfs
              \/ Suggest \/ RefuseWrite
Run     == ProbeReturns \/ ProbeFails
Prompt  == OperatorAnswers \/ OperatorSkips \/ StdinCloses \/ OperatorMistypes

Next == Start \/ Decide \/ Run \/ Prompt \/ DeadlinePasses \/ Crash \/ AddsFact

\* The loop runs on, and every probe has a timeout; nobody has to answer a
\* prompt, start a run, or let a deadline pass.
Spec == Init /\ [][Next]_vars /\ WF_vars(Decide) /\ WF_vars(Run)

-----------------------------------------------------------------------------
(* Properties.                                                             *)

\* The keys predicates may read: all but the marker of a skipped question.
ReadKeys == Keys \ {SkipMark}

Skips == {c \in Components : Collected(store[c], SkipMark)}

\* Every unit of budget bought a fact that was not there before: no question
\* is put twice in a session, and what was asked is on record.  This is what
\* makes the loop end before its budget does (firstUncollectedFact,
\* nextFactToProbe, and the skip marker of applyOperatorAnswer).
BudgetBuysFacts ==
    /\ pc # "stopped" => probesRun = Len(trail)
    /\ Len(trail) <= MaxProbes
    /\ \A i, j \in DOMAIN trail : trail[i] = trail[j] => i = j
    /\ \A i \in DOMAIN trail : Collected(store[trail[i].on], trail[i].fact)

\* A chain that full visibility would not contradict is never contradicted by
\* what has been seen so far: FilterLive drops no true explanation, whatever
\* could not be read, was skipped or was not found.
TruthStaysLive ==
    \A chain \in Chains : ChainLive(Seen(world), chain) => ChainLive(store, chain)

\* When some chain explains the system, the chain occam concludes does.
ConclusionHolds ==
    report.chain # <<>> =>
        \/ ChainLive(Seen(world), report.chain)
        \/ \A chain \in Chains : ~ChainLive(Seen(world), chain)

\* A verdict reached with some facts missing is the verdict full visibility
\* gives: an unread fact keeps a component undecided (ComponentVerdict).
VerdictIsSound ==
    \A c \in Components :
        ComponentVerdict(store, c) \in {Unknown, ComponentVerdict(Seen(world), c)}

\* With nothing unread and nothing skipped, bfs names the root cause that
\* full visibility names.
BfsConclusionIsComplete ==
    (pc = "stopped" /\ report.kind \in {"all_healthy", "none_seen", "root_cause"}
        /\ ~options.scenarios /\ PartialVisibility(store) = {} /\ Skips = {})
      => report.root = RootCause(Seen(world))

\* No all-clear over a broken component, except one a redundancy group
\* covers or the operator declined to speak about.
AllClearIsEarned ==
    report.kind = "all_healthy" =>
        \A c \in Range(BfsWalk(store)) :
            Unhealthy(Seen(world), c) => c \in RedundancyDegraded(store) \cup Skips

\* ComponentVerdict: a fact the probes could not read can never clear a
\* component.  (The code does otherwise for a model's own states.)
UnreadNeverClears ==
    \A c \in Components : Healthy(store, c) => ComponentVerdict(Seen(world), c) = "healthy"

\* Nobody is asked anything when stdin is not a terminal: the check before
\* the loop covers every question the loop could come to.
PromptsAreAttended == pc = "prompting" => options.terminal

\* What the state file holds, the session knows: no save drops a fact, and a
\* crash loses only facts that were never saved.
DiskIsKnown ==
    Incident /\ pc \in {"deciding", "probing", "prompting"} =>
        \A c \in Components : IsPrefix(disk[c], store[c])

\* The state file only grows.
DiskOnlyGrows == [][\A c \in Components : IsPrefix(disk[c], disk'[c])]_vars

\* A fact in the state file is never asked for again, in this session or,
\* after a crash, in a later one.
NeverAsksAgain ==
    [][pending' \notin {pending, NoProbe} => ~Collected(disk[pending'.on], pending'.fact)]_vars

\* The loop never hangs: it ends, or waits for the operator, or is killed.
LoopEnds == pc \in {"deciding", "probing"} ~> pc \in {"idle", "prompting", "stopped"}

\* Whatever was collected, the counts read off the graph are those of the
\* listing: the live chains, and those through each component (graphdp.go:
\* "The chains counted are exactly Expand's"); so occam over the graph
\* decides exactly as occam over the listing.
CountsMatchListing ==
    pc = "deciding" =>
      /\ \E live \in {Live(store)}, count \in {Liveness(store)} :
         \E touch \in {Touch(Graph, count)} :
           /\ LiveCount(Graph, count) = Cardinality(live)
           /\ \A c \in Components : touch[c] = Cardinality({w \in live : Touches(w, c)})
      /\ options.scenarios => GraphDecisions(store) = ListedDecisions(store)

=============================================================================
