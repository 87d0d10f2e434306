------------------------------ MODULE Sidecar -------------------------------
(***************************************************************************)
(* scenarios.yaml (internal/scenarios/persist.go, internal/cli/            *)
(* model_validate.go): the failure graph a model and its types build, kept *)
(* in a file beside the model, with the hash of the graph it was written   *)
(* from.  mgtt model validate checks that hash; --write-scenarios writes   *)
(* the file, for one model, or for every model of the workspace and then   *)
(* an index of them; diagnose loads it.                                    *)
(*                                                                         *)
(* A hash holds what it is a hash of.  What the registry makes of the    *)
(* installed providers (types) is a parameter of every command.            *)
(***************************************************************************)
EXTENDS Naturals, Sequences, FiniteSets

CONSTANTS
    ModelOrder,     \* the model files of the workspace, as the walk finds them
    Folder,         \* the directory of each
    Contents,       \* what each may say: [name, optsOut, body]
    IsValid(_, _),  \* whether a content validates with some types
    GraphOf(_, _),  \* the failure graph a content builds with some types
    MaxEdits        \* bound on edits

VARIABLES
    models,     \* the content of each model file
    sidecars,   \* scenarios.yaml of each directory: [hash, graph]
    index,      \* scenarios.index.yaml: its entries
    cmd,        \* the running command: [pc, all, todo, types, graph, entries, current]
    edits       \* edits so far

sidecarVars == <<models, sidecars, index, cmd, edits>>

-----------------------------------------------------------------------------
(* Files.                                                                  *)

Models  == {ModelOrder[i] : i \in DOMAIN ModelOrder}
Folders == {Folder[m] : m \in Models}

\* filepath.Walk comes to every file once.
ASSUME ModelOrderAssumption ==
    /\ ModelOrder \in Seq(Models)
    /\ \A i, j \in DOMAIN ModelOrder : ModelOrder[i] = ModelOrder[j] => i = j

Nothing == <<>>
Absent  == [hash |-> <<"absent">>, graph |-> Nothing]
Blank   == [hash |-> <<"none">>, graph |-> Nothing]     \* os.Create

GraphHash(g) == <<"graph", g>>

\* WriteGraph puts the hash first: a file cut short may keep it.
Whole(g) == [hash |-> GraphHash(g), graph |-> g]
Part(g)  == [hash |-> GraphHash(g), graph |-> <<"part", g>>]

\* A list of chains, as an older mgtt wrote it: the hash of the files.
FileHash(content, types)  == <<"files", content, types>>
OldWhole(content, types)  == [hash |-> FileHash(content, types), graph |-> GraphOf(content, types)]

Sibling(m) == sidecars[Folder[m]]

\* LoadSiblingSet: what diagnose reasons over.
LoadSiblingSet(m) == Sibling(m).graph

\* Mutant: any list of chains is still accepted.
IsFreshIfOld(m, types) ==
    \/ Sibling(m) = Absent
    \/ Sibling(m).hash = GraphHash(GraphOf(models[m], types))
    \/ Sibling(m).hash[1] = "files"

\* checkScenariosDrift
IsFresh(m, types) ==
    \/ Sibling(m) = Absent
    \/ Sibling(m).hash = GraphHash(GraphOf(models[m], types))
    \/ Sibling(m).hash = FileHash(models[m], types)

-----------------------------------------------------------------------------
(* Commands.                                                               *)

NoCmd == [pc |-> "idle", all |-> FALSE, todo |-> <<>>, types |-> Nothing, graph |-> Nothing,
          entries |-> {}, current |-> TRUE]

Busy == cmd.pc \in {"next", "create", "write", "index", "indexing"}

SidecarInit(types) ==
    /\ models \in {f \in [Models -> UNION {Contents[m] : m \in Models}] : \A m \in Models : f[m] \in Contents[m]}
    /\ sidecars \in {f \in [Folders -> {Absent} \cup {OldWhole(models[m], types) : m \in Models}] :
                       \A d \in Folders : f[d] = Absent \/ \E m \in Models :
                           Folder[m] = d /\ f[d] = OldWhole(models[m], types)}
    /\ index = {} /\ cmd = NoCmd /\ edits = 0

At(pc) == [cmd EXCEPT !.pc = pc]
This   == Head(cmd.todo)

\* validate without --write-scenarios, and --check-scenarios, which skips
\* the rest of the validation.
Validate(m, types, driftOnly) ==
    /\ ~Busy
    /\ cmd' = IF /\ driftOnly \/ IsValid(models[m], types)
                 /\ models[m].optsOut \/ IsFresh(m, types)
              THEN [NoCmd EXCEPT !.pc = "accepted", !.todo = <<m>>, !.types = types]
              ELSE NoCmd
    /\ UNCHANGED <<models, sidecars, index, edits>>

\* --write-scenarios with a path, and without one: runWorkspaceWriteScenarios.
WriteOne(m, types) ==
    /\ ~Busy
    /\ cmd' = [NoCmd EXCEPT !.pc = "next", !.todo = <<m>>, !.types = types]
    /\ UNCHANGED <<models, sidecars, index, edits>>

WriteAll(types) ==
    /\ ~Busy
    /\ cmd' = [NoCmd EXCEPT !.pc = "next", !.all = TRUE, !.todo = ModelOrder, !.types = types]
    /\ UNCHANGED <<models, sidecars, index, edits>>

\* Mutant: a model that is not valid is passed over too.
NextModelSkipsInvalid ==
    /\ cmd.pc = "next" /\ cmd.todo # <<>>
    /\ cmd' = IF models[This].optsOut \/ ~IsValid(models[This], cmd.types) THEN [cmd EXCEPT !.todo = Tail(@)]
              ELSE [At("create") EXCEPT !.graph = GraphOf(models[This], cmd.types)]
    /\ UNCHANGED <<models, sidecars, index, edits>>

\* The next model is loaded and validated; one that opts out is passed
\* over.  After the last one, two models of one name end it.
NextModel ==
    /\ cmd.pc = "next" /\ cmd.todo # <<>>
    /\ cmd' = IF ~IsValid(models[This], cmd.types) THEN NoCmd
              ELSE IF models[This].optsOut THEN [cmd EXCEPT !.todo = Tail(@)]
              ELSE [At("create") EXCEPT !.graph = GraphOf(models[This], cmd.types)]
    /\ UNCHANGED <<models, sidecars, index, edits>>

NoneLeft ==
    /\ cmd.pc = "next" /\ cmd.todo = <<>>
    /\ cmd' = IF ~cmd.all THEN NoCmd
              ELSE IF \E e, f \in cmd.entries : e # f /\ e.name = f.name THEN NoCmd
              ELSE At("index")
    /\ UNCHANGED <<models, sidecars, index, edits>>

\* regenerateScenariosFor: os.Create, then WriteGraph, whole or in part.
Create ==
    /\ cmd.pc = "create"
    /\ sidecars' = [sidecars EXCEPT ![Folder[This]] = Blank]
    /\ cmd' = At("write")
    /\ UNCHANGED <<models, index, edits>>

\* Mutant: the hash of the file is that of the model as it is now.
WriteGraphLate ==
    /\ cmd.pc = "write"
    /\ sidecars' = [sidecars EXCEPT ![Folder[This]] =
                       [hash |-> GraphHash(GraphOf(models[This], cmd.types)), graph |-> cmd.graph]]
    /\ cmd' = [At("next") EXCEPT !.todo = Tail(@),
                  !.entries = @ \cup {[name |-> models[This].name, model |-> This, hash |-> GraphHash(cmd.graph)]}]
    /\ UNCHANGED <<models, index, edits>>

WriteGraph ==
    /\ cmd.pc = "write"
    /\ \/ /\ sidecars' = [sidecars EXCEPT ![Folder[This]] = Whole(cmd.graph)]
          /\ cmd' = [At("next") EXCEPT !.todo = Tail(@),
                        !.entries = @ \cup {[name |-> models[This].name, model |-> This, hash |-> GraphHash(cmd.graph)]}]
       \/ /\ sidecars' = [sidecars EXCEPT ![Folder[This]] = Part(cmd.graph)]
          /\ cmd' = NoCmd
    /\ UNCHANGED <<models, index, edits>>

\* writeWorkspaceIndex
CreateIndex ==
    /\ cmd.pc = "index"
    /\ index' = {} /\ cmd' = At("indexing")
    /\ UNCHANGED <<models, sidecars, edits>>

WriteIndex ==
    /\ cmd.pc = "indexing"
    /\ index' = cmd.entries /\ cmd' = At("indexed")
    /\ UNCHANGED <<models, sidecars, edits>>

KillWrite ==
    /\ Busy /\ cmd' = NoCmd
    /\ UNCHANGED <<models, sidecars, index, edits>>

\* What a command said of a model holds until something else changes.
Disturbed == IF Busy THEN [cmd EXCEPT !.current = FALSE] ELSE NoCmd

EditModel(m, content) ==
    /\ edits < MaxEdits /\ edits' = edits + 1
    /\ models' = [models EXCEPT ![m] = content] /\ cmd' = Disturbed
    /\ UNCHANGED <<sidecars, index>>

SidecarNext(types) ==
    \/ \E m \in Models : \/ \E driftOnly \in BOOLEAN : Validate(m, types, driftOnly)
                         \/ WriteOne(m, types)
                         \/ \E c \in Contents[m] : EditModel(m, c)
    \/ WriteAll(types)
    \/ NextModel \/ NoneLeft \/ Create \/ WriteGraph \/ CreateIndex \/ WriteIndex \/ KillWrite

-----------------------------------------------------------------------------
(* What an accepted sidecar is worth.                                      *)

\* When validate accepts a model, what diagnose loads beside it is the graph
\* of that model, or what a write cut short left of that very graph: never
\* one of an older model, older types or another model of the directory,
\* whoever wrote it and whatever was edited while it was written.
AcceptedIsNotStale ==
    cmd.pc = "accepted" /\ ~models[This].optsOut =>
        \E g \in {GraphOf(models[This], cmd.types)} : LoadSiblingSet(This) \in {Nothing, g, Part(g).graph}

\* When the workspace was written and nothing changed since it began, every
\* model that has a sidecar would be accepted: writing one model's did not
\* undo another's.
WrittenIsFresh ==
    cmd.pc = "indexed" /\ cmd.current =>
        \A m \in Models : models[m].optsOut \/ Sibling(m) = Whole(GraphOf(models[m], cmd.types))

\* The index names, of every model in it, the hash of the file beside it.
IndexIsTrue ==
    cmd.pc = "indexed" => \A e \in index : Sibling(e.model).hash = e.hash

=============================================================================
