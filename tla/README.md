# A formal model of mgtt

mgtt answers "which component is broken?" for a system described by a model file.
It derives the states and the health of components from facts that probes read,
suggests the next probe, and concludes when one explanation is left. This directory
holds TLA+ modules of the parts that decide, the TLC configurations that check them on
small systems, and the theorems that hold for systems of any size.

Paths below are relative to the repository (`src/`).

## The system

| Part | State it keeps | Operations | What is hard about it | Where it is modelled |
| --- | --- | --- | --- | --- |
| `internal/facts` store | an append-only list of facts per component; a YAML file when an incident is active | Append, Latest, LookupValue, Unreadable, IsAbsent; Load, Save (write `.tmp`, rename) | absence, failure and "not asked" look alike; a save writes the whole store back | `FactStore`, `IncidentFile` |
| `internal/expr`, `internal/state` | none | three-valued evaluation of predicates, derived states | a fact not yet read must decide nothing | `Health` |
| `internal/engine/strategy` | none | component verdicts, redundancy groups, root cause, the strategies bfs and occam, the live-set filter | facts arrive in any order, some never; conclusions by elimination; occam decides on counts | `Health`, `FailureGraph`, `Counting` |
| `internal/scenarios` graph, counts, classes | none | build the failure graph, list chains, count them, sort them into classes | chains through k-of-n groups; counted and listed by different code | `FailureGraph`, `EnumerationGraph`, `Counting` |
| `scenarios/persist.go`, `cli/model_validate.go` | `scenarios.yaml` in each model's directory, `scenarios.index.yaml` | validate, `--check-scenarios`, `--write-scenarios` for one model or all | a stale sidecar taken for the model's own; a kill or an edit in the middle | `Sidecar`, `Workspace` |
| `scenarios/impact.go`, `internal/modeldiff` | none | what a failure reaches; what changed between two revisions | first way found against all ways; "no difference" taken at its word | `Impact`, `Revisions` |
| `internal/cli/diagnose.go` | a session: store in memory, budget, deadline, trail | start, step, gates, probe, prompt, persist, report | crash and failed saves between steps; another process writing the same file; prompts without a terminal | `Diagnose`, `Probing` |
| `internal/incident` | `<id>.state.yaml`, `.mgtt-current` | Start, StartIsolated, Current, LoadByID, End, EndByID | two command lines or agents on one incident; a kill between the state file and the pointer to it | `IncidentCommands`, `IncidentFile`, `IncidentServer` |
| `internal/mcp` | a registry of one mutex per incident | incident_start, incident_end, fact_add, facts_list, plan, probe, ... | concurrent requests; eviction of a mutex others wait for; crash between rename and answer | `IncidentRegister`, `IncidentServer` |
| `internal/engine/plan.go`, `cli/plan.go` | a session: store in memory; an interactive loop of at most 50 probes | paths and why each is eliminated, next probe, cause | a second engine and a second walk on the same facts; what it says with facts unread | `Plan` |
| `internal/model` | the model file | load, resolve types and rules, validate, detect cycles | own states and rules over the type's | `Revisions`; constants of `Health` |
| `model/build`, `cli/model_build.go` | the model file | discover, merge with the previous model, gate removals, write | partial discovery; one name in two providers; what an author wrote must survive; a write in place | `ModelBuild` |
| `internal/providersupport`, `cli/provider_install.go`, `cli/provider_uninstall.go` | one directory per provider: manifest, types, binaries, install record | install from source or image, upgrade, uninstall, load, dispatch | each is several file operations that can fail or be killed, over whatever earlier ones left | `ProviderDirs`, `Workspace` |
| `internal/simulate` | recordings | run, record, replay | drives the strategies over written facts | not modelled |
| `sdk/provider`, `internal/registry`, rendering | none | exit codes, the registry index over HTTP, output | process and network I/O | not modelled |

How they interact. `diagnose` (and the agent server's `probe`) hand the store and the loaded
model to a strategy; the strategy calls the live-set filter, the verdicts and the
redundancy rule, which call the predicate evaluator, which reads the store. The
suggestion is run by the provider's binary; what it returned is appended to the store
and the store is saved to the incident's state file. `mgtt fact add`, another
`diagnose` and the agent server reach the same file. The model those commands load is written
by an author and by `model build`; the types its components have come from the provider
directories, and `scenarios.yaml`, which diagnose reads, is derived from both, so an install can
make it stale as well as an edit.

## The modules

`FactStore` is the store: a function from components to sequences of facts, with the
queries of `facts/store.go`. A fact keeps key, value, status and collector.

`Health` extends it with the loaded model as constants (`Order`, `Depends`, `TypeFacts`,
`States`, `DefaultState`, `Rules`) and the pure functions over a store: predicates
(`Truth`: a comparison over a missing fact is unresolved, And and Or follow Kleene),
`DerivedStates`, `ComponentVerdict`, `SatisfiedGroup`, `RedundancyCovered`, `BfsWalk`
and `RootCause`.

`FailureGraph` extends it with the chains a failure can travel (`BuildGraph`,
`Expand`), the live-set filter, and what occam and bfs suggest or conclude.

`Probing` adds the systems considered and what a probe of one can establish (`Outcomes`), and what
full visibility would show (`Seen`).

`Diagnose` is the autopilot: one action per way an iteration of its loop can go
(`OutOfBudget`, `OutOfTime`, `ConcludeOccam`, `GetStuck`, `ConcludeBfs`, `Suggest`,
`RefuseWrite`, `ProbeReturns`, `ProbeFails`, the operator's four answers), `Start`,
`Crash`, `DeadlinePasses`, and `AddFact` for a `mgtt fact add` beside it. The
system under diagnosis is the variable `world`, chosen in the initial state: what every
fact would read. Probes tell the truth or fail; the operator tells the truth, skips,
mistypes or closes stdin. `options` is how a session was started: on a terminal or not,
with scenarios or not, and what happens to a probe that writes.

`Plan` is `mgtt plan`: the path engine as operators (`EnumeratePaths`, `Reason`, `Surviving`, and `Named`
for the cause) and the loop around it (`Suggest`, `Accept`, `Decline`, `ProbeReturns`, `ProbeFails`,
`Conclude`, `OutOfIterations`). It shares verdicts, walk, cause and strategies with `Diagnose`, as the code does; the
engine's own walk is written out, since the code has two. A session starts on an incident
that may hold facts, or on none, from any component.

`IncidentFile` is what a state file says to the agent server and what one request makes
of it. `IncidentRegister` is the server's promise: a request takes effect in one step
between its call and its return, or not at all. `IncidentServer` is the server itself:
goroutines that fetch a mutex from the registry, wait, load, edit a copy, write the
temporary file, rename it, evict and return, with a crash anywhere.
`IncidentServer` implements `IncidentRegister` under the refinement mapping
`StatusOf`/`SeenBy` (property `IsAtomic`).

`IncidentCommands` is the other way to an incident, the command line: `mgtt incident start`
and `end`, `mgtt fact add`, and a command that only reads. Each is a process that reads
`.mgtt-current`, loads the state file it names, and, if it writes, saves through the temporary
file and then writes or removes the pointer; it takes no lock and may be killed between any
two of these. The pointer is written in place, so it can be read empty (`EmptyPointer`,
`FillPointer`). It stands alone: a state file is reduced to whether it exists, has ended,
and whose facts it holds.

`EnumerationGraph` is the failure graph as the code builds it, of any model: `BuildGraph`, the listing `Expand`,
and what is computed without listing (`LiveCount`, `Touch`, `ShortestLive`, `RootClasses`). `Counting` builds it
from a model of `Health` (`Modelled`) and states what occam decides on counts (`GraphDecisions`), as `FailureGraph` does on the list.

`Revisions` holds a model as its author writes it (a committed revision and the edited one), the commands
that read it (`ModelValidate`, `ModelImpact`, `ModelDiff`, `ListClasses`) and the resolution of types, own states and rules.
A command leaves a report; the properties compare it with what the listing of the model's chains says. `Impact` is
`ImpactOf`: the breadth-first walk, the path shown, the guards and the groups that stop it.

`ModelBuild` is `mgtt model build` as a process: load, discover (`Generated`), merge (`MergePrev`), gate, truncate, write, and
a kill between any two. The author writes, augments and deletes components, also while discovery runs, and
restores the file when a build failed. Which fields an author set is a set of marks; a name that two providers return becomes
a key with its type, as in `BuildModel`.

`ProviderDirs` is an install or uninstall as a sequence of file operations on one directory, each of which may fail or be
killed half-way (`CutShort`), and what the loader, the registry and the dispatcher make of the directories.
`Sidecar` is `scenarios.yaml`: the validation and the writing of it, for one model and for the workspace, with its index.
`Workspace` composes the two: what a command builds from a model depends on the types it finds
installed, so jobs on directories interleave with edits and writes. `Sidecar` takes the types as a parameter of
every command; `Workspace` passes it `Registry`.

`MCChain`, `MCGroup`, `MCPlan`, `MCIncidentServer`, `MCIncidentCommands`, `MCModelBuild`, `MCWorkspace` and `MCRevisions`
give the constants small values; `GroupShape` is the model and the systems `MCGroup` and `MCPlan` share.

Mutants, definitions marked so in comments, are the plausible mistakes each property
must catch; no specification uses them. `The(S)` of `EnumerationGraph` names the element of a set of one, so that TLC
computes a graph once; `ModelBuild` and `Counting` bind large values the same way.

## The runs

| Run | Asks | Bounds, and why they are enough |
| --- | --- | --- |
| `ChainOccam` | `TypeOK`; `BudgetBuysFacts`: every unit of `--max-probes` bought a fact that was not there; `ConclusionHolds`: what occam concludes explains the system, if anything does; `VerdictIsSound`: a verdict reached early is the final one | three tiers and two generic components; every system of them (180); forbidden and transient failures, skips, not found. Chains of length 1 to 3, two chains through one component, a state with no trigger, a fact only one state reads |
| `ChainIncident` | `DiskOnlyGrows`, `NeverAsksAgain`: the state file across crashes, failed saves and facts added between sessions; `PromptsAreAttended`: nobody is prompted without a terminal; `LoopEnds`: the loop reaches a report or a prompt | the same model, the systems in which db is stopped or missing and takes web and api with it, two sessions with either kind of options, three probes each, one fact added by hand: a crash or a failed save in the first session and its consequence in the second |
| `Group` | `TruthStaysLive`: no explanation that full visibility allows is dropped, also through a redundancy group; `BfsConclusionIsComplete`: with all facts read, bfs names the root cause of the whole system; `AllClearIsEarned`: no all-clear over a broken component unless a group covers it; `CountsMatchListing`: the counts are those of the listed live chains, and occam decides on them as it would on the list | one of two members needed, both on one store, a spare behind a `while` guard, systems with the spare up in which a member or the store may be stopped or missing: group intact, half gone, gone by a shared cause; whatever was read so far |
| `Server` | `OneWriterUntilEnded`: no two writers in one incident until its end is on disk; `AnsweredIsOnDisk`: what a request was answered for is in the file; `ProbesAreRationed`: neither what is on record nor what agents were told was executed exceeds the budget; `EndStands`: the first end stays; `IsAtomic`: every request takes effect in one step or not at all; `EveryRequestIsAnswered`, or lost to a crash | one incident, three requests with any tool, two facts, a budget of one probe, failing saves and crashes. Three requests are an end, one that waits for the evicted mutex, and a newcomer under a fresh one; the inductive invariant was also checked with four |
| `Plan` | `PathsCoverTheWalk`: the engine and the strategies agree on what is in play; `CauseHasAPath`: the cause named ends a surviving path, or one a group cuts; `EliminationStands`: a path eliminated by a healthy end or a group that holds never survives again; `PlanNamesTheCause`: with all facts read the cause is that of the whole system; no deadlock, so with these bounds every session ends or waits for the operator | `GroupShape`; from the outermost component on an incident (one fact known, saves that fail), with scenarios, and attended from a member of the group; six iterations, so that the loop's bound is met too |
| `Commands` | `PointerNamesTheOpenOne`: the pointer and the state files disagree only while a command is unfinished; `ReadersMissNothing`: who reads sees every fact reported before; `NothingIsTakenBack`: no kill or failed save loses an incident, its end or a fact; `SingleActive`: one incident is open | four commands of any kind, two incidents, one writing command at a time beside any readers, failing file operations, kills anywhere. Four are a start, a fact or a killed end, its retry and a reader |
| `Build` | `RemovalNeedsConsent`: only `--allow-deletes` drops a component, and never an author's; `HandWorkSurvives`: rules, failure modes, variables and guards come through; `DiscoveredNeverDangles`: what was discovered depends on what is there; `RebuildIsStable`: the same answers again change nothing | two providers, one with three answers (all, part, an edge to nowhere) and a component of the same name as the other's; an authored root and a component an author wrote before discovery found it; any flags, two edits, any number of builds and kills. Two edits are a guard and its effect, or a field and a deletion |
| `Workspace` | `InstalledIsWhole`: an install that reports success left every file of its release; `AcceptedIsNotStale`: an accepted `scenarios.yaml` is that model's, with those types; `WrittenIsFresh`, `IndexIsTrue`: a workspace just written validates, and its index names what is there | one provider, two releases (the second drops a type and has no build), from source or as an image; two models in two directories, one of which may move off the dropped type or opt out; two changes: a job cut short and the next one, or an upgrade and an edit, each between any two steps of a validation or a write |
| `Revisions` | `ValidityIsExact`, `ImpactFollowsChains`, `PathsAreShortest`, `NoDifferenceIsNone`, `DiffFollowsChains`, `ClassesMatchListing`: the answers of validate, impact, diff and the class listing are what the chains of the model say | a diamond with an ordinary edge beside it, failures of two kinds, and for each component edits that make a group, a guard, a cycle, a missing type, own states, `healthy_in` and overrides of rules; two edits with a commit anywhere. Two edits are a changed link together with a changed state |
| `ClearedWhileForbidden` | a component with a forbidden fact is cleared by a state declared later | `MCGroup` with model-level states |
| `TwoWritersAfterEnd` | after `incident_end` two writers of one incident run at once | as `Server`, without crashes |
| `GuardedWay` | impact says a component breaks only under a guard though a chain reaches it that crosses none | as `Revisions` |

The last three show where the code and what the repository says of it part; `findings` in
`PROJECT.json` quotes both sides.

`CHECK_DEADLOCK FALSE` is set in the diagnose, `Server` and `Commands` runs, because a bounded number of sessions or requests
really comes to a stop.

Fairness. `Diagnose` assumes weak fairness of the loop's own steps and of the running
probe, because the loop is sequential code and every probe has a timeout; nobody has to
answer a prompt or start a session. `IncidentServer` assumes weak fairness of each
request's goroutine: Go schedules it, file operations return and a probe it
runs has a timeout; nobody has to send a request. Writer preference of `sync.RWMutex` is
left open: weak fairness suffices because requests are finitely many. `ModelBuild`, `Workspace`, `Plan`, `Revisions` and
`IncidentCommands` assume none: a command may be killed at any point, and nothing there waits for another.

## What is proved

`HealthProofs` (lemmas about the store, the verdicts, the walk and the root cause), `EnumerationGraphProofs` (lemmas
about what is read off a failure graph without listing its chains), `DiagnoseProofs`, `PlanProofs`, `IncidentServerProofs`,
`ModelBuildProofs`, `WorkspaceProofs` (the incident commands too) and `RevisionsProofs`, for every value of the constants:

- `TypeCorrect`, `BudgetCorrect` (`BudgetBuysFacts`), `UnattendedIsQuiet` (`PromptsAreAttended`). The
  argument for the budget: the inductive invariant `BInv` adds to it that the probe in hand
  is not collected; a strategy only suggests uncollected facts (`SuggestedIsOpen`), and
  every recording appends the pending fact.
- `DiskStaysKnown` (a session knows all that is on disk, `DiskIsKnown`), `DiskGrows`, `NothingIsAskedAgain`, assuming `~MayAddLive`, i.e. that no
  other process writes while a session runs; with `MayAddLive` they fail. The
  invariant says the disk is a prefix of the store in every component while a session runs.
- `LiveSetKeepsTruth`, `ConclusionIsTrue`, `VerdictsHold`, assuming `PlainModel` (states and rules
  of a component read its own facts and states carry no verdict, i.e. provider types
  only) and `WholeOrMissing` (a component is there with all its facts or not at all). The invariant
  `SInv` says that every recorded value is the system's value; what a predicate decides on part
  of the facts it decides on all of them (the monotonicity of Kleene's logic), so a refuted state stays
  refuted, a satisfied group stays satisfied, and a chain true of the whole is never
  dropped. `ClearedWhileForbidden` shows what goes wrong without `PlainModel`.
- `AllClearsHold` (`AllClearIsEarned`), under the same assumptions and for a model with an entry: what a run that
  found no cause reports was true of the store it stopped with (`ReportInv`): no component had to be left open, and every
  fact in play was read, skipped or refused. So a component the system has broken was seen broken, and since no candidate
  was left a group covers it.
- `BfsIsComplete` (`BfsConclusionIsComplete`) and, for `mgtt plan`, `NamingIsComplete` (`PlanNamesTheCause`), assuming
  `PlainModel` and `Grounded`: guards, groups and derived states look only at components the entry reaches over edges
  without a guard. Once nothing in play is unread, the store answers what full visibility answers for every component in play
  (`Alike`), so states, guards, verdicts, the walk and the cause are the same (`SameCause`, `FullReadingNamesTheCause`). The
  invariant says every record is a faithful answer (`Answers`). `Grounded` is needed: neither strategy asks
  about a component out of play, so a guard or a dependent there is never read while full visibility sees it. `NamingIsComplete`
  also assumes that facts added beforehand are of the component's type (`KnownFacts`).
- `PathsCover` (`PathsCoverTheWalk`), of every model and store: both walks visit exactly the least set that contains the
  entry and is closed under open dependencies (`WalkIsClosure` for the strategies' queue, which meets a component once per
  edge and so is done after one turn more than there are edges; `PathsAreClosure` for the engine's, done after one turn per component),
  and two least closed sets are equal.
- `CauseIsShown` (`CauseHasAPath`) and `EliminationsStand` (`EliminationStands`), assuming `PlainModel`: a component
  seen broken keeps its path whatever its links look like, and a healthy end or a group that holds stays so
  when more is read.
- `ServerTypeCorrect`, `OneWriter`, `TheEndStands`, `AnswersStay`, the last three assuming
  `~MayReuseId`. While the end is not on disk everybody in the incident waits for or holds
  the registry's mutex and whoever is past it with a writer is alone (`OneMutex`, `Exclusion`),
  so a copy loaded from an open incident is the file and the temporary file is one's own.
  Once the end is on disk every copy and every temporary file knows it
  (`CopiesKnowTheEnd`, `TmpKnowsTheEnd`), so no rename can move it, under however many mutexes.
  `NothingIsDropped` adds that an acknowledged request is in every file, copy and
  temporary file that can still reach the disk.
- `ServerIsAtomic` (`IsAtomic`, the refinement of `IncidentRegister`) and `BudgetIsKept` (`ProbesAreRationed`), assuming
  `~MayReuseId`. What a refinement needs beyond the locks is `CopiesAreCurrent`: as long as the incident is open, a request
  past the lock holds the file, or one edit of it, so the rename that replaces the file is that edit taken on what the file
  is now, the one step of the register; after the end, and everywhere else, a step is a stutter. For the budget,
  `FilesAreSound` says of every file, temporary file and copy that each fact names the request that recorded it and that no
  more probes are on record than allowed; `ReportedIsOnRecord` maps the probes reported done into those on record, one to one,
  so what agents were told is within the budget too.
- `PointerIsRight`, `NothingIsLost`, `OneIsActive` (`SingleActive`) and `NothingIsMissed` (`ReadersMissNothing`), assuming `~Parallel`, i.e. that the
  operator waits for a command that writes before starting the next; with `Parallel` they fail. The invariant `IInv` says that one command writes at a time (`Alone`), an id belongs
  to one start (`OwnIds`) and nothing of it exists before (`NothingWithoutStart`), and the copy a
  command carries, once written the temporary file too, contains what the state file
  holds (`Knows`): so its rename takes nothing back. For the readers, which overlap with anything, the invariant `Readers` is
  about history: what a reader was told of before its call was reported (`OnlyTold`), a reported start is started and a
  reported fact is in its file (`StartedWhenTold`, `AddedWhenTold`), what a reader found in the pointer is the incident
  that is still open (`PointedRight`), and what it loaded holds every fact reported before (`FoundAll`).
- `RemovalIsConsented`, `HandWorkIsCarried`, `DiscoveryIsClosed` and `BuildIsIdempotent`: all four properties of
  `ModelBuild`, assuming only that what an author writes has a component's fields (`WritingsAssumption`). The invariant `BInv` says
  that what is planned is the merge of the model that was loaded with what was discovered and passed the gate, that
  its discovery was not refused, and that what a finished build wrote is what it planned; the rest is about the operators.
  Idempotence rests on `GuardedAgain`: a guard carried over once is found again under the same targets.
- `SuccessIsWhole` (`InstalledIsWhole`), assuming that a release names types, binaries and a directory there are
  (`ReleasesAssumption`). The invariant `DInv` says, stage by stage, what the install has written so far, over any
  contents of the directory; `WorkspaceRunsProviders` carries it to the composition.
- `AcceptedIsOwn` (`AcceptedIsNotStale`), for any models, types and graphs. The invariant `SInv` says that each sidecar is the
  work of some write, whole or cut short, whose hash is that of what it wrote, and that what was accepted was fresh and
  still is.
- `WrittenStaysFresh` (`WrittenIsFresh`) and `IndexStaysTrue` (`IndexIsTrue`), assuming that each model has a directory to
  itself (`OneModelPerDirectory`) and that a walk comes to each file once (`ModelOrderAssumption`). The invariant `WInv`
  splits the list of models into what is behind and what is ahead: a write touches the directory of
  the first one ahead, so what is behind stays as it was written, and as the index will say.
- `DiffIsHonest` (`NoDifferenceIsNone`), without a hypothesis. The invariant `DiffInv` says that a report of a comparison
  is about the two revisions as they are; the rest is about the operators: components with the same edges have the same
  dependencies, guards and groups (`SameEdges`), a group breaks in both models or in neither (`PropagatesAlike`),
  and so the two failure graphs are one (`GraphAlike`).
- `ValidationIsExact` (`ValidityIsExact`), assuming that a component's `depends`, `states` and targets are lists
  (`WritingsAssumption`). The weight is on the search for a cycle. Its invariant `DfsInv` says that the stack is a path, that
  the black names are closed, and that each black name is fenced off: it lies outside a closed set of black names that has
  everything it depends on, so nothing black stands behind itself. Each turn colours a name or finds a cycle
  (`DfsSpends`), so two turns per name are enough (`DfsEnds`); a search that ends without one has fenced off every
  component, hence none is in its own closure (`NoneBehindItself`), and what it does find is a cycle (`CycleIsOne`).
- `ImpactIsExact` (`ImpactFollowsChains`) and `PathsAreChains` (`PathsAreShortest`), assuming also that the generic component is
  registered and the states of a type are a list (`RegistryAssumption`). The invariant of the breadth-first search (`SearchInv`)
  says that the queue is what was found last, each node once; that the parents lead back to where the search began (`Rooted`);
  and that nodes are found level by level, so that what was looked at goes on only to what is found, a level deeper at most
  (`Levelled`). A turn per node is enough (`SearchResult`); a way of the failure then stays among what is found and is no
  shorter than that is deep (`WayIsFound`), and `pathTo` retraces one of exactly that length (`PathToIs`). The listing's bound
  on walks costs nothing because a validated model has no cycle: on a way each component stands behind the ones after it
  (`WayIsBehind`), so a way meets a component once and never returns to the root (`WayIsShort`).
- `DiffIsOfListings` (`DiffFollowsChains`), assuming also `RegistryAssumption`. That what is counted along a graph is what is listed goes
  in three steps. A sum over disjoint finite sets is the cardinality of their union (`SumCounts`). The ways that end at a fact,
  counted from what comes next, are all there are (`SuffixesCount`), by descent on how deep a graph is below a node
  (`DepthOf`, `FromBelow`); so each root counts the live chains that begin with it (`FromRootCounts`), and `CountIsListing` adds
  up the roots, for any graph that is ranked and any set of facts. And the graph of a model without cycles is ranked
  (`LayeredIsRanked`), as is that of a model that validation accepts (`GraphIsRanked`). The symptoms are the ends of the
  chains (`SymptomsAreEnds`). `ReachInv` says that a report of a comparison has the roots and symptoms of the two revisions.
- `ClassesAreOfListing` (`ClassesMatchListing`), likewise. The scenario order is one (`LessIsOrder`, from a rank that is one, `RankOrders`), so a
  finite set of chains has a least one (`LeastIs`), and the least of a union is the least of the least (`LeastOfLeast`). The ways
  to a node, dead or alive, are known by their last step (`WaysToAre`): their number is the sum, and the least of them the least, over where
  they came from (`TallyStep`, `WaysAre`), again by descent, this time from the root. A class of a root gathers the ways to the nodes
  of a symptom (`EndsAreTallied`, `RootClassesAre`, `ClassesAre`). `ClassInv` says that what is saved or reported was made of the revision in hand.
- `CountsAreOfListing` (`CountsMatchListing`), assuming `NamedOnce`: the states of a component go by different names, since a chain names
  them. Where the two codes differ, one lemma each says that they agree: the dependency closure by rounds and as the least closed
  set (`ClosureIsBehind`, because a set that grows every round runs out of components, `RoundsReach`), the two graphs (`GraphParts`), the
  two listings (`ExpandIsChains`), and the live ones (`LiveIs`). The chains through a node are the ways to it times the ways on from
  it, each way being cut there and joined again in one way only (`ViaCounts`, because a way meets a component once), so `Touch` counts the listed
  chains through a component (`TouchIsListing`); and the first layer that is not empty holds the shortest live chains (`LayerIs`,
  `ShortestIs`). A chain no other beats is one of those, and both sides rank it by the same gain (`GainIs`, `ChosenIs`), hence the
  same decision (`DecisionsAre`). It holds of every store, so no invariant is needed.

Recursion. The walks, the derived states and the paths are recursive functions local to a definition. `HealthProofs` begins
with what it takes to reason about them: induction over a set of numbers (`SetInduction`, from the least element of a
nonempty set), the existence of a solution of a recursion over `Nat` or `0..N` (`Recursion`, `RecursionUpTo`, by
approximations that agree), and induction along it (`InductionUpTo`). `Behind` is followed the same way (`BehindRounds`).
`Sources` and `Depths` are not unfolded: the theorems hold whatever they return.

Hypotheses. `PlainModel`, `WholeOrMissing`, `Grounded`, `NamedOnce` and `KnownFacts` are checked to hold of the models the runs use
(`ChainIsPlain`, `GroupIsPlain`, `PlanIsPlain`), so the theorems speak about them; the other hypotheses (`~MayAddLive`,
`~MayReuseId`, `~Parallel`, `OneModelPerDirectory`) are settings of those runs. `NamedOnce` is not an assumption on the constants because nothing in the
loader enforces it: `providersupport/load.go:431` reads a type's states from a mapping without looking for a second key of one name.
Validation does refuse a component's own state that repeats a name of its type (`model/validate.go:518`).

The searches and `pathTo` in `Revisions` are bounded by a number known beforehand, so their proofs go by steps: `Iterated` gives a
solution among the states that satisfy an invariant, and `InductionUpTo` follows it.

The recursions along a graph (`SuffixesOf`, `PrefixesOf`, `Ways`) have no number to go by. Their proofs give a solution explicitly, the
cardinalities they are meant to be, and show by descent on `DepthOf` that a function that satisfies the same equations is that one.

Only model-checked: the liveness properties `LoopEnds` and `EveryRequestIsAnswered`, which are beyond the prover. Every safety
invariant, action property and refinement that a passing run checks is also the statement of a theorem.

## Known divergences

Three are runs. These were met while modelling and are not runs of their own; where a constant switches the behaviour on,
setting it in the named configuration has TLC show it.

- A fact that `mgtt fact add` writes while diagnose runs is lost by diagnose's next save (`cli/diagnose.go:227`; the store
  is append-only by `facts/types.go:29`). `ChainIncident` with `MayAddLive = TRUE` violates `DiskOnlyGrows`.
- Two `mgtt incident start` at once both succeed (`incident/incident.go:40`; line 36 forbids it). `Commands` with `Parallel = TRUE`
  violates `SingleActive`.
- `incident_start` under an id in use empties the incident's file (`incident/incident.go:76`). `Server` with
  `MayReuseId = TRUE` violates `AnsweredIsOnDisk`.
- `mgtt plan` prints "All components healthy" when no cause was found, whatever was left unread (`cli/plan.go:85`; `CHANGELOG.md:41`).
- Discovery runs `bin/provider` only (`providersupport/discover_walk.go:44`); the guides name the manifest's entry point
  (`docs/guides/providers.md:45`, `docs/providers/writing.md:77`).
- `model build` writes back no `states` and no `healthy_in` (`model/build/emit.go:87`), and an edit saved while
  discovery runs is overwritten (`cli/model_build.go:159`): the properties of `ModelBuild` are stated over the file that was loaded.
- Two models in one directory share one `scenarios.yaml` (`scenarios/persist.go:104`): with `MCFolder` mapping both to one
  directory `WrittenIsFresh` and `IndexIsTrue` fail.
- A `scenarios.yaml` cut short after its hash is accepted (`cli/model_validate.go:167`); `AcceptedIsNotStale` allows it, as a part of the
  model's own graph.
- `Diff.Empty` does not read a component's own `states`, `healthy_in` and `failure_modes` (`modeldiff/diff.go:46`);
  `NoDifferenceIsNone` leaves them out.

## What the model leaves out

- Ties broken by name are left open.
- A comparison is the set of values for which it holds; references
  to facts on the right of a comparison and type mismatches are not modelled, nor variables.
- `strict_types` and a component's own `providers:` list; commands over models that validation rejects (a cycle leaves the
  closure to the order of a map).
- The system does not change during a diagnosis; probes and operators do not lie.
- `mgtt fact add` is one step in `Diagnose`; its steps are in `IncidentCommands`.
- In the server a fact's component is left out, the engine suggests any uncollected fact or none,
  and a probe's run and its recording are one step, under the exclusive lock. The temporary file
  is written in one step: a crash in the middle leaves a temporary file nobody reads.
- Deadlines are nondeterministic.
- `mgtt plan` is one session; a kill is a session that stops. `--component` names a component that exists. `bfs` walks
  from the model's own entry point whatever `--component` says, as in the code, so a component behind
  a closed guard is concluded about unread; `PlanNamesTheCause` leaves that case out.
- With scenarios, `diagnose` names the root of the last live chain and `plan` the cause among
  what was seen broken; they may differ, and no property compares them.
- Discovery is its result: the processes, their timeouts and the parsing of their output are not modelled, nor are git,
  docker and the registry's HTTP behind an install, which may return a release or fail.
- One job at a time on the provider directories, and one sidecar command at a time; two at once are not excluded by the code
  and not modelled. The order in which an uninstall removes files is left open.

Not modelled at all, and why: `simulate` and replay (they drive the modelled strategies over facts read from YAML; what is
their own is reading and writing it), export, visualize and rendering (no state), `sdk/provider` (runs in
provider processes), the registry index and paging, authoring, authentication and transport of the agent server (I/O around
the modelled tools), and the expression and manifest parsers (string processing).

## What is left

1. overlapping installs on one provider directory, and a shared one between `model build` and `validate`;
2. `simulate`'s record and replay, once recordings hold more than facts.
