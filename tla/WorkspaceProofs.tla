-------------------------- MODULE WorkspaceProofs --------------------------
(***************************************************************************)
(* What an install of a provider that reports success has left, whatever   *)
(* earlier installs and uninstalls left when they failed or died, and what *)
(* a scenarios.yaml that validate accepts holds, whoever wrote it when,    *)
(* and that a write of the whole workspace undoes nothing it has written;  *)
(* and, at the end, what the incident commands keep true of the pointer    *)
(* and the state files, killed or failing anywhere.                        *)
(***************************************************************************)
EXTENDS Workspace, IncidentCommands, TLAPS

-----------------------------------------------------------------------------
(* The invariant: what each step of an install writes is there at the next *)
(* one.                                                                    *)

IsDir(e) ==
    /\ e = [f \in {"manifest", "types", "bins", "method"} |-> e[f]]
    /\ DOMAIN e.types = Types
    /\ DOMAIN e.bins = Binaries

IsJob(j) == j = [f \in {"pc", "dir", "release", "recipe", "from"} |-> j[f]]

TypeInv ==
    /\ dirs = [d \in Dirs |-> dirs[d]]
    /\ \A d \in Dirs : IsDir(dirs[d])
    /\ IsJob(job)

Installing == job.pc \in {"manifest", "types", "build", "meta", "installed"}

JobInv ==
    Installing => /\ job.dir \in Dirs
                  /\ job.release \in Releases
                  /\ job.from \in Dirs \cup {Missing}

Past(stages) == job.from = Missing /\ job.pc \in stages

StageInv ==
    /\ Past({"types", "build", "meta", "installed"}) => Here.manifest = job.release
    /\ Past({"build", "meta", "installed"}) =>
          \A t \in Release[job.release].types : Here.types[t] = job.release
    /\ Past({"meta", "installed"}) /\ job.recipe = "source" /\ Release[job.release].hook =>
          \A b \in Release[job.release].builds : Here.bins[b] = job.release
    /\ Past({"installed"}) /\ job.recipe = "image" => Here.method = "image"

DInv == TypeInv /\ JobInv /\ StageInv

-----------------------------------------------------------------------------
(* The operators.                                                          *)

\* The fields of a directory, of a job and of a directory that is not there.
LEMMA DirHasItsFields ==
    ASSUME NEW m, NEW t, NEW b, NEW w, NEW e, DOMAIN t = Types, DOMAIN b = Binaries,
           e = [manifest |-> m, types |-> t, bins |-> b, method |-> w]
    PROVE  /\ IsDir(e)
           /\ e.manifest = m /\ e.types = t /\ e.bins = b /\ e.method = w
  BY DEF IsDir

\* The fields of a job.
LEMMA JobHasItsFields ==
    ASSUME NEW to, NEW d, NEW r, NEW recipe, NEW from, NEW j,
           j = [pc |-> to, dir |-> d, release |-> r, recipe |-> recipe, from |-> from]
    PROVE  IsJob(j) /\ j.pc = to /\ j.dir = d /\ j.release = r /\ j.recipe = recipe /\ j.from = from
  BY DEF IsJob

\* A directory that is not there is one, too.
LEMMA NoDirIsDir == IsDir(NoDir)
  BY DirHasItsFields DEF NoDir

\* What files written over others leave.
LEMMA OverIs ==
    ASSUME NEW new, NEW old
    PROVE  /\ DOMAIN Overlaid(new, old) = DOMAIN old
           /\ \A f \in DOMAIN old : Overlaid(new, old)[f] = IF new[f] = Missing THEN old[f] ELSE new[f]
  BY DEF Overlaid

\* A directory with one of its fields rewritten.
LEMMA Rewritten ==
    ASSUME NEW e, IsDir(e), NEW x
    PROVE  /\ IsDir([e EXCEPT !.manifest = x])
           /\ IsDir([e EXCEPT !.method = x])
           /\ DOMAIN x = Types => IsDir([e EXCEPT !.types = x])
           /\ DOMAIN x = Binaries => IsDir([e EXCEPT !.bins = x])
  BY DEF IsDir

\* The directory a step leaves is a directory, and the others are as they were.
LEMMA LeaveIsTyped ==
    ASSUME TypeInv, NEW e, IsDir(e), Leave(e)
    PROVE  /\ dirs' = [d \in Dirs |-> dirs'[d]]
           /\ \A d \in Dirs : IsDir(dirs'[d])
           /\ job.dir \in Dirs => dirs'[job.dir] = e
  BY DEF TypeInv, Leave

\* No job is one, too.
LEMMA IdleIsTyped == IsJob(Idle) /\ Idle.pc = "idle"
  BY JobHasItsFields DEF Idle

\* What is cut short leaves a directory too.
LEMMA CutShortIsTyped ==
    ASSUME DInv, Installing, CutShort
    PROVE  dirs' = [d \in Dirs |-> dirs'[d]] /\ \A d \in Dirs : IsDir(dirs'[d])
<1>1. IsDir(Here)
  BY DEF DInv, TypeInv, JobInv, Here
<1>2. CASE UNCHANGED dirs
  BY <1>2 DEF DInv, TypeInv
<1>3. ASSUME NEW x, Leave([Here EXCEPT !.manifest = x]) \/ Leave([Here EXCEPT !.method = x])
      PROVE  dirs' = [d \in Dirs |-> dirs'[d]] /\ \A d \in Dirs : IsDir(dirs'[d])
  BY <1>1, <1>3, Rewritten, LeaveIsTyped DEF DInv
<1>4. ASSUME NEW x, DOMAIN x = Types, Leave([Here EXCEPT !.types = x])
      PROVE  dirs' = [d \in Dirs |-> dirs'[d]] /\ \A d \in Dirs : IsDir(dirs'[d])
  BY <1>1, <1>4, Rewritten, LeaveIsTyped DEF DInv
<1>5. ASSUME NEW b \in Release[job.release].builds, Leave([Here EXCEPT !.bins[b] = job.release])
      PROVE  dirs' = [d \in Dirs |-> dirs'[d]] /\ \A d \in Dirs : IsDir(dirs'[d])
  <2>1. IsDir([Here EXCEPT !.bins[b] = job.release])
    BY <1>1 DEF IsDir
  <2> QED BY <1>5, <2>1, LeaveIsTyped DEF DInv
<1>6. ASSUME NEW S, NEW torn,
             Leave([Here EXCEPT !.types = [t \in Types |-> IF t \in torn THEN Torn ELSE Copied(S)[t]]])
      PROVE  dirs' = [d \in Dirs |-> dirs'[d]] /\ \A d \in Dirs : IsDir(dirs'[d])
  <2> DEFINE x == [t \in Types |-> IF t \in torn THEN Torn ELSE Copied(S)[t]]
  <2>1. DOMAIN x = Types
    OBVIOUS
  <2> HIDE DEF x
  <2> QED BY <1>4, <1>6, <2>1 DEF x
<1> QED BY <1>2, <1>3, <1>5, <1>6 DEF CutShort

-----------------------------------------------------------------------------
(* The invariant holds.                                                    *)

\* Beginning a job keeps the invariant.
LEMMA BeginKeeps ==
    ASSUME DInv, NEW d \in Dirs, NEW r \in Releases, NEW recipe, NEW from \in Dirs \cup {Missing},
           Begin(d, r, recipe, from)
    PROVE  DInv'
<1> DEFINE j == [pc |-> "manifest", dir |-> d, release |-> r, recipe |-> recipe, from |-> from]
<1>1. (job' = j \/ job' = Idle) /\ dirs' = dirs
  BY DEF Begin
<1>2. /\ IsJob(job') /\ job'.pc \in {"manifest", "idle"}
      /\ job'.pc = "manifest" => job'.dir = d /\ job'.release = r /\ job'.from = from
  BY <1>1, IdleIsTyped, JobHasItsFields
<1> QED BY <1>1, <1>2 DEF DInv, TypeInv, JobInv, Installing, StageInv, Past

\* A step that leaves e and goes on.
LEMMA StepKeeps ==
    ASSUME DInv, Installing, NEW e, IsDir(e), Leave(e), NEW to, Advance(to),
           to \in {"types", "build", "meta", "installed"}
    PROVE  /\ TypeInv' /\ JobInv'
           /\ Here' = e
           /\ job'.pc = to /\ job'.from = job.from /\ job'.release = job.release /\ job'.recipe = job.recipe
<1>1. /\ IsJob(job') /\ job'.pc = to /\ job'.from = job.from /\ job'.release = job.release
      /\ job'.recipe = job.recipe /\ job'.dir = job.dir
  BY DEF Advance, DInv, TypeInv, IsJob
<1>2. /\ dirs' = [d \in Dirs |-> dirs'[d]]
      /\ \A d \in Dirs : IsDir(dirs'[d])
      /\ dirs'[job.dir] = e
  BY LeaveIsTyped DEF DInv, JobInv
<1> QED BY <1>1, <1>2 DEF DInv, TypeInv, JobInv, Installing, Here

\* The invariant of the directories holds in every reachable state.
LEMMA DInvHolds == ProviderSpec => []DInv
<1>1. ProviderInit => DInv
  BY NoDirIsDir, IdleIsTyped DEF ProviderInit, DInv, TypeInv, JobInv, Installing, StageInv, Past
<1>2. DInv /\ [ProviderNext]_providerVars => DInv'
  <2> SUFFICES ASSUME DInv, [ProviderNext]_providerVars PROVE DInv'
    OBVIOUS
  <2>h. Installing => IsDir(Here) /\ job.release \in Releases /\ job.dir \in Dirs
    BY DEF DInv, TypeInv, JobInv, Here
  <2>e. ASSUME Finish, dirs' = [d \in Dirs |-> dirs'[d]], \A d \in Dirs : IsDir(dirs'[d])
        PROVE  DInv'
    BY <2>e, IdleIsTyped DEF Finish, DInv, TypeInv, JobInv, Installing, StageInv, Past
  <2>1. ASSUME NEW r \in Releases, InstallSource(r) PROVE DInv'
    BY <2>1, BeginKeeps, ReleasesAssumption DEF InstallSource
  <2>2. ASSUME NEW d \in Dirs, InstallAgain(d) PROVE DInv'
    BY <2>2, BeginKeeps, ReleasesAssumption DEF InstallAgain, Loadable, NameIn
  <2>3. ASSUME NEW r \in Releases, NEW d \in Dirs, InstallImage(r, d) PROVE DInv'
    BY <2>3, BeginKeeps DEF InstallImage
  <2>4. ASSUME NEW d \in Dirs, Uninstall(d) PROVE DInv'
    <3>1. IsJob(job') /\ job'.pc = "removing"
      <4> DEFINE j == [pc |-> "removing", dir |-> d, release |-> Missing, recipe |-> Missing, from |-> Missing]
      <4>1. job' = j
        BY <2>4 DEF Uninstall, Idle
      <4> QED BY <4>1, JobHasItsFields
    <3> QED BY <2>4, <3>1 DEF Uninstall, DInv, TypeInv, JobInv, Installing, StageInv, Past
  <2>5. CASE WriteManifest
    <3> DEFINE bins   == Overlaid(Source.bins, Here.bins)
               method == IF Source.method = Missing THEN Here.method ELSE Source.method
               e == [Here EXCEPT !.manifest = job.release, !.bins = bins, !.method = method]
    <3>1. Installing
      BY <2>5 DEF WriteManifest, Installing
    <3>2. DOMAIN bins = Binaries
      BY <2>h, <3>1, OverIs DEF IsDir
    <3>3. IsDir(e) /\ e.manifest = job.release
      <4> HIDE DEF bins, method
      <4> QED BY <2>h, <3>1, <3>2 DEF IsDir
    <3>4. Leave(e) /\ Advance("types")
      BY <2>5 DEF WriteManifest
    <3> HIDE DEF e
    <3> QED BY <3>1, <3>3, <3>4, StepKeeps DEF DInv, StageInv, Past
  <2>6. CASE WriteTypes
    <3> DEFINE e  == [Here EXCEPT !.types = Copied(Types)]
               to == IF job.recipe = "image" THEN "meta" ELSE "build"
    <3>1. Installing /\ job.pc = "types"
      BY <2>6 DEF WriteTypes, Installing
    <3>2. /\ DOMAIN Copied(Types) = Types
          /\ job.from = Missing =>
                \A t \in Release[job.release].types : Copied(Types)[t] = job.release
      <4>1. /\ DOMAIN Copied(Types) = DOMAIN Here.types
            /\ \A t \in Types : Copied(Types)[t] = IF Source.types[t] = Missing THEN Here.types[t] ELSE Source.types[t]
        BY <2>h, <3>1, OverIs DEF Copied, IsDir
      <4>2. job.from = Missing => \A t \in Release[job.release].types : Source.types[t] = job.release
        BY <2>h, <3>1, ReleasesAssumption DEF Source, NoDir, Filled
      <4> QED BY <2>h, <3>1, <4>1, <4>2, ReleasesAssumption DEF IsDir
    <3>3. IsDir(e) /\ e.manifest = Here.manifest /\ e.types = Copied(Types) /\ e.bins = Here.bins
      BY <2>h, <3>1, <3>2 DEF IsDir
    <3>4. Leave(e) /\ Advance(to) /\ to \in {"meta", "build"}
      BY <2>6 DEF WriteTypes
    <3>5. to = "meta" => job.recipe # "source"
      OBVIOUS
    <3> HIDE DEF e, to
    <3> QED BY <3>1, <3>2, <3>3, <3>4, <3>5, StepKeeps DEF DInv, StageInv, Past
  <2>7. CASE Build
    <3> DEFINE built == Overlaid(Filled(Binaries, Release[job.release].builds, job.release), Here.bins)
               e == IF Release[job.release].hook THEN [Here EXCEPT !.bins = built] ELSE Here
    <3>1. Installing /\ job.pc = "build"
      BY <2>7 DEF Build, Installing
    <3>2. DOMAIN built = Binaries /\ \A b \in Release[job.release].builds : built[b] = job.release
      BY <2>h, <3>1, OverIs, ReleasesAssumption DEF Filled, IsDir
    <3>3. /\ IsDir(e) /\ e.manifest = Here.manifest /\ e.types = Here.types
          /\ Release[job.release].hook => e.bins = built
      <4> HIDE DEF built
      <4> QED BY <2>h, <3>1, <3>2 DEF IsDir
    <3>4. Leave(e) /\ Advance("meta")
      BY <2>7 DEF Build
    <3> HIDE DEF e, built
    <3> QED BY <3>1, <3>2, <3>3, <3>4, StepKeeps DEF DInv, StageInv, Past
  <2>8. CASE StepFails
    BY <2>8, <2>e, CutShortIsTyped DEF StepFails, Installing
  <2>9. CASE WriteMeta
    <3>1. Installing /\ job.pc = "meta"
      BY <2>9 DEF WriteMeta, Installing
    <3>2. \E e : /\ IsDir(e) /\ e.manifest = Here.manifest /\ e.types = Here.types /\ e.bins = Here.bins
                 /\ job.recipe = "image" => e.method = "image"
                 /\ Leave(e)
      <4>1. CASE Leave([Here EXCEPT !.method = job.recipe])
        BY <2>h, <3>1, <4>1 DEF IsDir
      <4>2. CASE job.recipe = "source" /\ Leave([Here EXCEPT !.method = Torn])
        BY <2>h, <3>1, <4>2 DEF IsDir
      <4>3. CASE job.recipe = "source" /\ UNCHANGED dirs
        <5>1. Leave(Here)
          BY <4>3 DEF Leave, Here, DInv, TypeInv
        <5> QED BY <2>h, <3>1, <4>3, <5>1
      <4> QED BY <2>9, <3>1, <4>1, <4>2, <4>3 DEF WriteMeta, CutShort
    <3>3. Advance("installed")
      BY <2>9 DEF WriteMeta
    <3> QED BY <3>1, <3>2, <3>3, StepKeeps DEF DInv, StageInv, Past
  <2>10. CASE Remove
    BY <2>10, <2>e, NoDirIsDir, LeaveIsTyped DEF Remove, DInv
  <2>11. CASE Die
    <3>1. Finish
      BY <2>11 DEF Die
    <3>2. CASE job.pc = "removing" /\ ~UNCHANGED dirs
      <4>1. PICK types \in SUBSET Types, bins \in SUBSET Binaries, manifest \in BOOLEAN, method \in BOOLEAN :
               Leave([manifest |-> IF manifest THEN Here.manifest ELSE Missing,
                      types    |-> [t \in Types |-> IF t \in types THEN Here.types[t] ELSE Missing],
                      bins     |-> [b \in Binaries |-> IF b \in bins THEN Here.bins[b] ELSE Missing],
                      method   |-> IF method THEN Here.method ELSE Missing])
        BY <2>11, <3>2 DEF Die, CutShort
      <4> DEFINE e == [manifest |-> IF manifest THEN Here.manifest ELSE Missing,
                       types    |-> [t \in Types |-> IF t \in types THEN Here.types[t] ELSE Missing],
                       bins     |-> [b \in Binaries |-> IF b \in bins THEN Here.bins[b] ELSE Missing],
                       method   |-> IF method THEN Here.method ELSE Missing]
      <4>2. IsDir(e)
        BY DirHasItsFields
      <4> HIDE DEF e
      <4> QED BY <2>e, <3>1, <4>1, <4>2, LeaveIsTyped DEF DInv, e
    <3>3. CASE UNCHANGED dirs
      BY <2>e, <3>1, <3>3 DEF DInv, TypeInv
    <3>4. CASE job.pc # "removing"
      <4>1. CASE Installing
        BY <2>11, <2>e, <3>1, <3>4, <4>1, CutShortIsTyped DEF Die
      <4>2. CASE ~Installing
        BY <2>11, <2>e, <3>1, <3>3, <3>4, <4>2 DEF Die, CutShort, Installing
      <4> QED BY <4>1, <4>2
    <3> QED BY <3>2, <3>3, <3>4
  <2>12. CASE UNCHANGED providerVars
    BY <2>12 DEF providerVars, DInv, TypeInv, JobInv, Installing, StageInv, Past, Here
  <2> QED BY <2>1, <2>2, <2>3, <2>4, <2>5, <2>6, <2>7, <2>8, <2>9, <2>10, <2>11, <2>12 DEF ProviderNext
<1> QED BY <1>1, <1>2, PTL DEF ProviderSpec

\* Nothing else touches the directories.
LEMMA WorkspaceRunsProviders == WorkspaceSpec => ProviderSpec
<1>1. WorkspaceInit => ProviderInit
  BY DEF WorkspaceInit
<1>2. [WorkspaceNext]_workspaceVars => [ProviderNext]_providerVars
  BY DEF WorkspaceNext, ProviderStep, ModelStep, workspaceVars
<1> QED BY <1>1, <1>2, PTL DEF WorkspaceSpec, ProviderSpec

\* InstalledIsWhole, for all providers, releases and files, and wherever
\* earlier jobs stopped: each step writes what the last one left alone, and
\* a job that reports success took them all.
THEOREM SuccessIsWhole == WorkspaceSpec => []InstalledIsWhole
<1>1. DInv => InstalledIsWhole
  <2> SUFFICES ASSUME DInv, Installs PROVE
               /\ Here.manifest = job.release
               /\ \A t \in Release[job.release].types : Here.types[t] = job.release
               /\ job.recipe = "image" => Runner(job.dir) = "image"
               /\ job.recipe = "source" /\ Release[job.release].hook =>
                     \A b \in Release[job.release].builds : Here.bins[b] = job.release
    BY DEF InstalledIsWhole
  <2>1. job.release \in Releases
    BY DEF DInv, JobInv, Installing, Installs
  <2>2. Here.manifest = job.release
    BY DEF DInv, StageInv, Past, Installs
  <2>3. job.recipe = "image" => Installed(job.dir) /\ IsImage(job.dir)
    BY <2>1, <2>2, ReleasesAssumption DEF DInv, StageInv, Past, Installs, Installed, IsImage, Here
  <2> QED BY <2>2, <2>3 DEF DInv, StageInv, Past, Installs, Runner
<1> QED BY <1>1, DInvHolds, WorkspaceRunsProviders, PTL

-----------------------------------------------------------------------------
(* The invariant of the sidecars: each is the work of some write, and what *)
(* was accepted still is.                                                  *)

IsSidecar(s) ==
    \/ s \in {Absent, Blank}
    \/ \E c, t : s \in {OldWhole(c, t), Whole(GraphOf(c, t)), Part(GraphOf(c, t))}

IsCmd(c) == c = [f \in {"pc", "all", "todo", "types", "graph", "entries", "current"} |-> c[f]]

SInv ==
    /\ sidecars = [f \in Folders |-> sidecars[f]]
    /\ \A f \in Folders : IsSidecar(sidecars[f])
    /\ IsCmd(cmd)
    /\ cmd.pc \in {"create", "write"} => \E c, t : cmd.graph = GraphOf(c, t)
    /\ cmd.pc = "accepted" => This \in Models /\ (models[This].optsOut \/ IsFresh(This, cmd.types))

\* The fields of the command that is none.
LEMMA NoCmdIsCmd == IsCmd(NoCmd) /\ NoCmd.pc = "idle"
  BY DEF IsCmd, NoCmd

\* A file written by a command.
LEMMA SidecarWritten ==
    ASSUME SInv, NEW f, NEW s, IsSidecar(s), sidecars' = [sidecars EXCEPT ![f] = s]
    PROVE  /\ sidecars' = [g \in Folders |-> sidecars'[g]]
           /\ \A g \in Folders : IsSidecar(sidecars'[g])
  BY DEF SInv

\* A command that neither was accepted nor has a graph to write.
LEMMA OnwardKeeps ==
    ASSUME SInv, NEW to, cmd' = [cmd EXCEPT !.pc = to], sidecars' = sidecars,
           to \in {"index", "indexing", "indexed"}
    PROVE  SInv'
  BY DEF SInv, IsCmd

\* An edit, or an install, beside a command.
LEMMA DisturbedKeeps ==
    ASSUME SInv, cmd' = Disturbed, sidecars' = sidecars
    PROVE  SInv'
<1>1. CASE Busy
  <2>1. cmd' = [cmd EXCEPT !.current = FALSE]
    BY <1>1 DEF Disturbed
  <2>2. IsCmd(cmd') /\ cmd'.pc = cmd.pc /\ cmd'.graph = cmd.graph
    BY <2>1 DEF SInv, IsCmd
  <2>3. cmd.pc # "accepted"
    BY <1>1 DEF Busy
  <2> QED BY <2>2, <2>3 DEF SInv
<1>2. CASE ~Busy
  BY <1>2, NoCmdIsCmd DEF Disturbed, SInv
<1> QED BY <1>1, <1>2

\* Every command keeps sidecars the work of some write.
LEMMA SInvKept ==
    ASSUME SInv, NEW types, SidecarNext(types)
    PROVE  SInv'
<1>1. ASSUME NEW m \in Models, NEW driftOnly, Validate(m, types, driftOnly) PROVE SInv'
  <2>1. CASE cmd' = NoCmd
    BY <1>1, <2>1, NoCmdIsCmd DEF Validate, SInv
  <2>2. CASE cmd' # NoCmd
    <3>1. /\ cmd' = [NoCmd EXCEPT !.pc = "accepted", !.todo = <<m>>, !.types = types]
          /\ models[m].optsOut \/ IsFresh(m, types)
          /\ models' = models /\ sidecars' = sidecars
      BY <1>1, <2>2 DEF Validate
    <3>2. IsCmd(cmd') /\ cmd'.pc = "accepted" /\ cmd'.todo = <<m>> /\ cmd'.types = types
      BY <3>1, NoCmdIsCmd DEF IsCmd
    <3>3. This' = m
      BY <3>2 DEF This
    <3>4. IsFresh(m, types)' <=> IsFresh(m, types)
      BY <3>1 DEF IsFresh, Sibling
    <3>5. IsFresh(This, cmd.types)' <=> IsFresh(m, types)'
      BY <3>2, <3>3 DEF IsFresh, Sibling
    <3> QED BY <3>1, <3>2, <3>3, <3>4, <3>5 DEF SInv
  <2> QED BY <2>1, <2>2
<1>2. ASSUME NEW m \in Models, WriteOne(m, types) PROVE SInv'
  <2>1. IsCmd(cmd') /\ cmd'.pc = "next"
    BY <1>2, NoCmdIsCmd DEF WriteOne, IsCmd
  <2> QED BY <1>2, <2>1 DEF WriteOne, SInv
<1>3. ASSUME NEW m \in Models, NEW c \in Contents[m], EditModel(m, c) PROVE SInv'
  BY <1>3, DisturbedKeeps DEF EditModel
<1>4. CASE WriteAll(types)
  <2>1. IsCmd(cmd') /\ cmd'.pc = "next"
    BY <1>4, NoCmdIsCmd DEF WriteAll, IsCmd
  <2> QED BY <1>4, <2>1 DEF WriteAll, SInv
<1>5. CASE NextModel
  <2>1. CASE cmd' = NoCmd
    BY <1>5, <2>1, NoCmdIsCmd DEF NextModel, SInv
  <2>2. CASE cmd' = [cmd EXCEPT !.todo = Tail(@)]
    BY <1>5, <2>2 DEF NextModel, SInv, IsCmd
  <2>3. CASE cmd' = [At("create") EXCEPT !.graph = GraphOf(models[This], cmd.types)]
    <3>1. IsCmd(cmd') /\ cmd'.pc = "create" /\ cmd'.graph = GraphOf(models[This], cmd.types)
      BY <2>3 DEF SInv, IsCmd, At
    <3> QED BY <1>5, <3>1 DEF NextModel, SInv
  <2> QED BY <1>5, <2>1, <2>2, <2>3 DEF NextModel
<1>6. CASE NoneLeft
  BY <1>6, NoCmdIsCmd, OnwardKeeps DEF NoneLeft, At, SInv
<1>7. CASE Create
  <2>1. IsCmd(cmd') /\ cmd'.pc = "write" /\ cmd'.graph = cmd.graph
    BY <1>7 DEF Create, At, SInv, IsCmd
  <2>2. IsSidecar(Blank)
    BY DEF IsSidecar
  <2> QED BY <1>7, <2>1, <2>2, SidecarWritten DEF Create, SInv
<1>8. CASE WriteGraph
  <2>1. PICK c, t : cmd.graph = GraphOf(c, t)
    BY <1>8 DEF WriteGraph, SInv
  <2>2. IsSidecar(Whole(cmd.graph)) /\ IsSidecar(Part(cmd.graph))
    BY <2>1 DEF IsSidecar
  <2>3. IsCmd(cmd') /\ cmd'.pc \in {"next", "idle"}
    BY <1>8, NoCmdIsCmd DEF WriteGraph, At, SInv, IsCmd
  <2> QED BY <1>8, <2>2, <2>3, SidecarWritten DEF WriteGraph, SInv
<1>9. CASE CreateIndex \/ WriteIndex
  BY <1>9, OnwardKeeps DEF CreateIndex, WriteIndex, At
<1>10. CASE KillWrite
  BY <1>10, NoCmdIsCmd DEF KillWrite, SInv
<1> QED BY <1>1, <1>2, <1>3, <1>4, <1>5, <1>6, <1>7, <1>8, <1>9, <1>10 DEF SidecarNext

\* In every reachable state each sidecar is the work of some write.
LEMMA SInvHolds == WorkspaceSpec => []SInv
<1>1. WorkspaceInit => SInv
  <2> SUFFICES ASSUME SidecarInit(Registry) PROVE SInv
    BY DEF WorkspaceInit
  <2>1. sidecars \in [Folders -> {Absent} \cup {OldWhole(models[m], Registry) : m \in Models}]
    BY DEF SidecarInit
  <2>2. \A f \in Folders : IsSidecar(sidecars[f])
    BY <2>1 DEF IsSidecar
  <2> QED BY <2>1, <2>2, NoCmdIsCmd DEF SidecarInit, SInv
<1>2. SInv /\ [WorkspaceNext]_workspaceVars => SInv'
  <2> SUFFICES ASSUME SInv, [WorkspaceNext]_workspaceVars PROVE SInv'
    OBVIOUS
  <2>u. ASSUME cmd' = cmd, models' = models, sidecars' = sidecars PROVE SInv'
    <3>1. This' = This
      BY <2>u DEF This
    <3>2. IsFresh(This, cmd.types)' = IsFresh(This, cmd.types)
      BY <2>u, <3>1 DEF IsFresh, Sibling
    <3> QED BY <2>u, <3>1, <3>2 DEF SInv
  <2>1. CASE ProviderStep
    <3>1. CASE cmd' = cmd
      BY <2>1, <2>u, <3>1 DEF ProviderStep
    <3>2. CASE cmd' = Disturbed
      BY <2>1, <3>2, DisturbedKeeps DEF ProviderStep
    <3> QED BY <2>1, <3>1, <3>2 DEF ProviderStep
  <2>2. CASE ModelStep
    BY <2>2, SInvKept DEF ModelStep
  <2>3. CASE UNCHANGED workspaceVars
    BY <2>3, <2>u DEF workspaceVars, sidecarVars
  <2> QED BY <2>1, <2>2, <2>3 DEF WorkspaceNext
<1> QED BY <1>1, <1>2, PTL DEF WorkspaceSpec

\* AcceptedIsNotStale, for all models, types, graphs and edits: whatever
\* wrote a file put the hash of what it wrote first, so a hash that matches
\* is that of the graph the file holds, all of it or a part.
THEOREM AcceptedIsOwn == WorkspaceSpec => []AcceptedIsNotStale
<1>1. SInv => AcceptedIsNotStale
  <2> DEFINE g == GraphOf(models[This], cmd.types)
             s == sidecars[Folder[This]]
  <2> SUFFICES ASSUME SInv, cmd.pc = "accepted", ~models[This].optsOut
               PROVE  s.graph \in {Nothing, g, Part(g).graph}
    BY DEF AcceptedIsNotStale, LoadSiblingSet, Sibling
  <2>1. IsSidecar(s)
    BY DEF SInv, Folders
  <2>2. s = Absent \/ s.hash = GraphHash(g) \/ s.hash = FileHash(models[This], cmd.types)
    BY DEF SInv, IsFresh, Sibling
  <2> HIDE DEF s
  <2>3. CASE s \in {Absent, Blank}
    BY <2>3 DEF Absent, Blank
  <2>4. ASSUME NEW c, NEW t, s = OldWhole(c, t) PROVE s.graph = g
    <3>1. s.hash = <<"files", c, t>> /\ s.graph = GraphOf(c, t)
      BY <2>4 DEF OldWhole, FileHash
    <3>2. s # Absent
      BY <3>1 DEF Absent
    <3>3. s.hash = <<"files", models[This], cmd.types>>
      BY <2>2, <3>1, <3>2 DEF GraphHash, FileHash
    <3>4. c = models[This] /\ t = cmd.types
      BY <3>1, <3>3
    <3> QED BY <3>1, <3>4
  <2>5. ASSUME NEW c, NEW t, s \in {Whole(GraphOf(c, t)), Part(GraphOf(c, t))}
        PROVE  s.graph \in {g, Part(g).graph}
    <3> DEFINE h == GraphOf(c, t)
    <3>1. s.hash = <<"graph", h>> /\ s.graph \in {h, <<"part", h>>}
      BY <2>5 DEF Whole, Part, GraphHash
    <3> HIDE DEF g, h
    <3>2. s.hash = <<"graph", g>>
      BY <2>2, <3>1 DEF GraphHash, FileHash, Absent
    <3>3. h = g
      BY <3>1, <3>2
    <3> QED BY <3>1, <3>3 DEF Part
  <2> QED BY <2>1, <2>3, <2>4, <2>5 DEF IsSidecar
<1> QED BY <1>1, SInvHolds, PTL

-----------------------------------------------------------------------------
(* Writing the workspace: what is behind a write is done, and stays so.    *)

\* Each model has a directory to itself; two in one share their sidecar.
OneModelPerDirectory == \A m, n \in Models : Folder[m] = Folder[n] => m = n

Members(s) == {s[i] : i \in DOMAIN s}

\* A list of models without repetition.
IsTodo(s) == s \in Seq(Models) /\ \A i, j \in DOMAIN s : s[i] = s[j] => i = j

\* The models a write of the workspace is through with.
Behind == Models \ Members(cmd.todo)

TodoInv ==
    /\ IsTodo(cmd.todo)
    /\ cmd.pc \in {"create", "write"} => cmd.todo # <<>>
    /\ cmd.pc \in {"index", "indexing", "indexed"} => cmd.todo = <<>>

EntriesInv == \A e \in cmd.entries : e.model \in Behind /\ Sibling(e.model).hash = e.hash

FreshInv ==
    /\ cmd.pc \in {"create", "write"} => cmd.graph = GraphOf(models[This], cmd.types)
    /\ \A m \in Behind : models[m].optsOut \/ Sibling(m) = Whole(GraphOf(models[m], cmd.types))

WInv ==
    /\ cmd.pc \in {"index", "indexing", "indexed"} => cmd.all
    /\ cmd.pc = "indexed" => index = cmd.entries
    /\ cmd.all => TodoInv /\ EntriesInv /\ (cmd.current => FreshInv)

\* The first of a list without repetition is not in the rest of it.
LEMMA HeadAndTail ==
    ASSUME NEW s, IsTodo(s), s # <<>>
    PROVE  /\ IsTodo(Tail(s)) /\ Head(s) \in Models
           /\ Members(s) = {Head(s)} \cup Members(Tail(s)) /\ Head(s) \notin Members(Tail(s))
<1>1. /\ s \in Seq(Models) /\ Len(s) \in Nat \ {0} /\ DOMAIN s = 1..Len(s) /\ Head(s) = s[1]
      /\ Tail(s) \in Seq(Models) /\ Len(Tail(s)) = Len(s) - 1 /\ DOMAIN Tail(s) = 1..(Len(s) - 1)
      /\ \A i \in 1..(Len(s) - 1) : Tail(s)[i] = s[i + 1]
  BY DEF IsTodo
<1>2. \A i, j \in 1..Len(s) : s[i] = s[j] => i = j
  BY <1>1 DEF IsTodo
<1>3. IsTodo(Tail(s)) /\ Head(s) \in Models
  BY <1>1, <1>2 DEF IsTodo
<1>4. Head(s) \notin Members(Tail(s))
  BY <1>1, <1>2 DEF Members
<1>5. ASSUME NEW x \in Members(s) PROVE x = Head(s) \/ x \in Members(Tail(s))
  <2>1. PICK i \in 1..Len(s) : x = s[i]
    BY <1>1, <1>5 DEF Members
  <2>2. i = 1 \/ (i - 1 \in 1..(Len(s) - 1) /\ Tail(s)[i - 1] = s[i])
    BY <1>1
  <2> QED BY <1>1, <2>1, <2>2 DEF Members
<1>6. {Head(s)} \cup Members(Tail(s)) \subseteq Members(s)
  BY <1>1 DEF Members
<1> QED BY <1>3, <1>4, <1>5, <1>6

\* A command that ended writes nothing.
LEMMA NoCmdIsNoWrite == ASSUME cmd' = NoCmd PROVE WInv'
  BY DEF WInv, NoCmd

\* A step of a write that leaves the list, the files and the models alone.
LEMMA OnTheWay ==
    ASSUME SInv, WInv, NEW to, cmd' = [cmd EXCEPT !.pc = to],
           UNCHANGED <<models, sidecars>>,
           to \in {"index", "indexing", "indexed"}, cmd.all, cmd.todo = <<>>,
           to = "indexed" => index' = cmd.entries
    PROVE  WInv'
<1>1. /\ cmd'.pc = to /\ cmd'.all = cmd.all /\ cmd'.todo = cmd.todo /\ cmd'.types = cmd.types
      /\ cmd'.entries = cmd.entries /\ cmd'.current = cmd.current
  BY DEF SInv, IsCmd
<1>2. Behind' = Behind /\ (\A m : Sibling(m)' = Sibling(m))
  BY <1>1 DEF Behind, Sibling
<1>3. TodoInv' /\ EntriesInv'
  BY <1>1, <1>2 DEF WInv, TodoInv, EntriesInv
<1>4. cmd.current => FreshInv'
  BY <1>1, <1>2 DEF WInv, FreshInv
<1> QED BY <1>1, <1>3, <1>4 DEF WInv

\* An edit, or an install, beside a write: the files it wrote are untouched.
LEMMA DisturbedKeepsWInv ==
    ASSUME SInv, WInv, cmd' = Disturbed, UNCHANGED <<sidecars, index>>
    PROVE  WInv'
<1>1. CASE Busy
  <2>1. cmd' = [cmd EXCEPT !.current = FALSE]
    BY <1>1 DEF Disturbed
  <2>2. /\ cmd'.pc = cmd.pc /\ cmd'.all = cmd.all /\ cmd'.todo = cmd.todo
        /\ cmd'.entries = cmd.entries /\ ~cmd'.current
    BY <2>1 DEF SInv, IsCmd
  <2>3. cmd.all => TodoInv' /\ EntriesInv'
    BY <2>2 DEF WInv, TodoInv, EntriesInv, Behind, Sibling
  <2> QED BY <2>2, <2>3 DEF WInv
<1>2. CASE ~Busy
  BY <1>2, NoCmdIsNoWrite DEF Disturbed
<1> QED BY <1>1, <1>2

\* The next model is passed over, or its graph is built.
LEMMA NextKeepsWInv == ASSUME SInv, WInv, NextModel PROVE WInv'
<1>1. UNCHANGED <<models, sidecars, index>> /\ cmd.pc = "next" /\ cmd.todo # <<>>
  BY DEF NextModel
<1>2. \A m : Sibling(m)' = Sibling(m)
  BY <1>1 DEF Sibling
<1>3. CASE models[This].optsOut /\ cmd' = [cmd EXCEPT !.todo = Tail(@)]
  <2>1. /\ cmd'.pc = "next" /\ cmd'.all = cmd.all /\ cmd'.todo = Tail(cmd.todo)
        /\ cmd'.types = cmd.types /\ cmd'.entries = cmd.entries /\ cmd'.current = cmd.current
    BY <1>1, <1>3 DEF SInv, IsCmd
  <2>2. ASSUME cmd.all PROVE TodoInv' /\ EntriesInv' /\ (cmd'.current => FreshInv')
    <3>1. /\ IsTodo(Tail(cmd.todo)) /\ Behind' = Behind \cup {This}
      <4>1. IsTodo(cmd.todo)
        BY <2>2 DEF WInv, TodoInv
      <4> QED BY <1>1, <2>1, <4>1, HeadAndTail DEF Behind, This
    <3>2. TodoInv'
      BY <2>1, <3>1 DEF TodoInv
    <3>3. EntriesInv'
      BY <1>2, <2>1, <2>2, <3>1 DEF WInv, EntriesInv
    <3>4. ASSUME cmd.current PROVE FreshInv'
      BY <1>1, <1>2, <1>3, <2>1, <2>2, <3>1, <3>4 DEF WInv, FreshInv
    <3> QED BY <2>1, <3>2, <3>3, <3>4
  <2> QED BY <2>1, <2>2 DEF WInv
<1>4. CASE cmd' = [At("create") EXCEPT !.graph = GraphOf(models[This], cmd.types)]
  <2>1. /\ cmd'.pc = "create" /\ cmd'.all = cmd.all /\ cmd'.todo = cmd.todo
        /\ cmd'.types = cmd.types /\ cmd'.entries = cmd.entries /\ cmd'.current = cmd.current
        /\ cmd'.graph = GraphOf(models[This], cmd.types)
    BY <1>4 DEF SInv, IsCmd, At
  <2>2. Behind' = Behind /\ This' = This
    BY <2>1 DEF Behind, This
  <2>3. cmd.all => TodoInv' /\ EntriesInv'
    BY <1>1, <1>2, <2>1, <2>2 DEF WInv, TodoInv, EntriesInv
  <2>4. cmd.all /\ cmd.current => FreshInv'
    BY <1>1, <1>2, <2>1, <2>2 DEF WInv, FreshInv
  <2> QED BY <2>1, <2>3, <2>4 DEF WInv
<1> QED BY <1>3, <1>4, NoCmdIsNoWrite DEF NextModel

\* A file written for one model leaves the siblings of the others.
LEMMA OnlyThis ==
    ASSUME SInv, OneModelPerDirectory, NEW m \in Models, NEW s,
           sidecars' = [sidecars EXCEPT ![Folder[m]] = s]
    PROVE  /\ Sibling(m)' = s
           /\ \A n \in Models \ {m} : Sibling(n)' = Sibling(n)
  BY DEF SInv, OneModelPerDirectory, Sibling, Folders

\* The file that is emptied is not one of those behind.
LEMMA CreateKeepsWInv == ASSUME SInv, WInv, OneModelPerDirectory, Create PROVE WInv'
<1>1. /\ cmd'.pc = "write" /\ cmd'.all = cmd.all /\ cmd'.todo = cmd.todo
      /\ cmd'.types = cmd.types /\ cmd'.entries = cmd.entries /\ cmd'.current = cmd.current
      /\ cmd'.graph = cmd.graph /\ models' = models /\ cmd.pc = "create"
  BY DEF Create, At, SInv, IsCmd
<1>2. Behind' = Behind /\ This' = This
  BY <1>1 DEF Behind, This
<1>3. ASSUME cmd.all PROVE TodoInv' /\ EntriesInv' /\ (cmd'.current => FreshInv')
  <2>1. TodoInv /\ cmd.todo # <<>>
    BY <1>1, <1>3 DEF WInv, TodoInv
  <2>2. This \in Models \ Behind
    BY <2>1, HeadAndTail DEF TodoInv, Behind, This
  <2>3. \A n \in Behind : Sibling(n)' = Sibling(n)
    BY <2>2, OnlyThis DEF Create, Behind
  <2>4. TodoInv'
    BY <1>1, <2>1 DEF TodoInv
  <2>5. EntriesInv'
    BY <1>1, <1>2, <1>3, <2>3 DEF WInv, EntriesInv
  <2>6. cmd.current => FreshInv'
    BY <1>1, <1>2, <1>3, <2>3 DEF WInv, FreshInv
  <2> QED BY <1>1, <2>4, <2>5, <2>6
<1> QED BY <1>1, <1>3 DEF WInv

\* The file that is written joins those behind.
LEMMA WriteKeepsWInv == ASSUME SInv, WInv, OneModelPerDirectory, WriteGraph PROVE WInv'
<1>0. CASE cmd' = NoCmd
  BY <1>0, NoCmdIsNoWrite
<1>1. CASE cmd' # NoCmd
  <2> DEFINE entry == [name |-> models[This].name, model |-> This, hash |-> GraphHash(cmd.graph)]
  <2>1. /\ cmd'.pc = "next" /\ cmd'.all = cmd.all /\ cmd'.todo = Tail(cmd.todo)
        /\ cmd'.types = cmd.types /\ cmd'.entries = cmd.entries \cup {entry} /\ cmd'.current = cmd.current
        /\ models' = models /\ cmd.pc = "write"
        /\ sidecars' = [sidecars EXCEPT ![Folder[This]] = Whole(cmd.graph)]
    BY <1>1 DEF WriteGraph, At, SInv, IsCmd
  <2>2. ASSUME cmd.all PROVE TodoInv' /\ EntriesInv' /\ (cmd'.current => FreshInv')
    <3>1. TodoInv /\ cmd.todo # <<>>
      BY <2>1, <2>2 DEF WInv, TodoInv
    <3>2. /\ This \in Models \ Behind /\ IsTodo(Tail(cmd.todo))
          /\ Behind' = Behind \cup {This}
      BY <2>1, <3>1, HeadAndTail DEF TodoInv, Behind, This
    <3>3. \A n \in Behind : Sibling(n)' = Sibling(n)
      BY <2>1, <3>2, OnlyThis DEF Behind
    <3>4. sidecars'[Folder[This]] = Whole(cmd.graph)
      BY <2>1, <3>2, OnlyThis DEF Sibling
    <3>5. TodoInv'
      BY <2>1, <3>2 DEF TodoInv
    <3>6. EntriesInv'
      <4>1. ASSUME NEW e \in cmd.entries PROVE e.model \in Behind /\ Sibling(e.model)'.hash = e.hash
        BY <2>2, <3>3, <4>1 DEF WInv, EntriesInv
      <4>2. entry.model = This /\ sidecars'[Folder[entry.model]].hash = entry.hash
        BY <3>4 DEF Whole
      <4> HIDE DEF entry
      <4> QED BY <2>1, <3>2, <4>1, <4>2 DEF EntriesInv, Sibling
    <3>7. ASSUME cmd.current PROVE FreshInv'
      <4>1. cmd.graph = GraphOf(models[This], cmd.types)
        BY <2>1, <2>2, <3>7 DEF WInv, FreshInv
      <4>2. ASSUME NEW n \in Behind
            PROVE  models[n].optsOut \/ sidecars'[Folder[n]] = Whole(GraphOf(models[n], cmd.types))
        BY <2>2, <3>3, <3>7, <4>2 DEF WInv, FreshInv, Sibling
      <4> QED BY <2>1, <3>2, <3>4, <4>1, <4>2 DEF FreshInv, Sibling
    <3> QED BY <2>1, <3>5, <3>6, <3>7
  <2> QED BY <2>1, <2>2 DEF WInv
<1> QED BY <1>0, <1>1

\* No command breaks the invariant,
LEMMA WInvKept ==
    ASSUME SInv, WInv, OneModelPerDirectory, NEW types, SidecarNext(types)
    PROVE  WInv'
<1>1. ASSUME NEW m \in Models, NEW driftOnly, Validate(m, types, driftOnly) PROVE WInv'
  <2>1. cmd' = NoCmd \/ (~cmd'.all /\ cmd'.pc = "accepted")
    BY <1>1 DEF Validate, NoCmd
  <2> QED BY <2>1, NoCmdIsNoWrite DEF WInv
<1>2. ASSUME NEW m \in Models, WriteOne(m, types) PROVE WInv'
  <2>1. ~cmd'.all /\ cmd'.pc = "next"
    BY <1>2 DEF WriteOne, NoCmd
  <2> QED BY <2>1 DEF WInv
<1>3. ASSUME NEW m \in Models, NEW c \in Contents[m], EditModel(m, c) PROVE WInv'
  BY <1>3, DisturbedKeepsWInv DEF EditModel
<1>4. CASE WriteAll(types)
  <2>1. cmd'.pc = "next" /\ cmd'.todo = ModelOrder /\ cmd'.entries = {}
    BY <1>4 DEF WriteAll, NoCmd
  <2>2. IsTodo(ModelOrder) /\ Members(ModelOrder) = Models
    BY ModelOrderAssumption DEF IsTodo, Members, Models
  <2>3. TodoInv' /\ EntriesInv' /\ FreshInv'
    BY <2>1, <2>2 DEF TodoInv, EntriesInv, FreshInv, Behind
  <2> QED BY <2>1, <2>3 DEF WInv
<1>5. CASE NextModel
  BY <1>5, NextKeepsWInv
<1>6. CASE NoneLeft
  BY <1>6, NoCmdIsNoWrite, OnTheWay DEF NoneLeft, At
<1>7. CASE Create \/ WriteGraph
  BY <1>7, CreateKeepsWInv, WriteKeepsWInv
<1>8. CASE CreateIndex \/ WriteIndex
  <2>1. cmd.all /\ cmd.todo = <<>>
    BY <1>8 DEF CreateIndex, WriteIndex, WInv, TodoInv
  <2> QED BY <1>8, <2>1, OnTheWay DEF CreateIndex, WriteIndex, At
<1>9. CASE KillWrite
  BY <1>9, NoCmdIsNoWrite DEF KillWrite
<1> QED BY <1>1, <1>2, <1>3, <1>4, <1>5, <1>6, <1>7, <1>8, <1>9 DEF SidecarNext

\* and neither does an install: it holds in every reachable state.
LEMMA WInvHolds == OneModelPerDirectory => (WorkspaceSpec => []WInv)
<1> SUFFICES ASSUME OneModelPerDirectory PROVE WorkspaceSpec => []WInv
  OBVIOUS
<1>1. WorkspaceInit => WInv
  BY DEF WorkspaceInit, SidecarInit, WInv, NoCmd
<1>2. SInv /\ WInv /\ [WorkspaceNext]_workspaceVars => WInv'
  <2> SUFFICES ASSUME SInv, WInv, [WorkspaceNext]_workspaceVars PROVE WInv'
    OBVIOUS
  <2>u. ASSUME UNCHANGED <<cmd, models, sidecars, index>> PROVE WInv'
    <3>1. Behind' = Behind /\ This' = This /\ \A m : Sibling(m)' = Sibling(m)
      BY <2>u DEF Behind, This, Sibling
    <3>2. (TodoInv <=> TodoInv') /\ (EntriesInv <=> EntriesInv') /\ (FreshInv <=> FreshInv')
      BY <2>u, <3>1 DEF TodoInv, EntriesInv, FreshInv
    <3> QED BY <2>u, <3>2 DEF WInv
  <2>1. CASE ProviderStep
    <3>1. CASE cmd' = cmd
      BY <2>1, <2>u, <3>1 DEF ProviderStep
    <3>2. CASE cmd' = Disturbed
      BY <2>1, <3>2, DisturbedKeepsWInv DEF ProviderStep
    <3> QED BY <2>1, <3>1, <3>2 DEF ProviderStep
  <2>2. CASE ModelStep
    BY <2>2, WInvKept DEF ModelStep
  <2>3. CASE UNCHANGED workspaceVars
    BY <2>3, <2>u DEF workspaceVars, sidecarVars
  <2> QED BY <2>1, <2>2, <2>3 DEF WorkspaceNext
<1> QED BY <1>1, <1>2, SInvHolds, PTL DEF WorkspaceSpec

\* WrittenIsFresh, for all models and types, if no two models share a
\* directory: of what is behind a write of the workspace
\* (runWorkspaceWriteScenarios) it touches nothing again.
THEOREM WrittenStaysFresh == OneModelPerDirectory => (WorkspaceSpec => []WrittenIsFresh)
<1>1. WInv => WrittenIsFresh
  BY DEF WInv, TodoInv, FreshInv, Behind, Members, WrittenIsFresh
<1> QED BY <1>1, WInvHolds, PTL

\* IndexIsTrue, for the same workspaces, whatever was edited or installed
\* meanwhile: an entry is made of the graph that is written, not of the model
\* as it is when the index is.
THEOREM IndexStaysTrue == OneModelPerDirectory => (WorkspaceSpec => []IndexIsTrue)
<1>1. WInv => IndexIsTrue
  BY DEF WInv, EntriesInv, IndexIsTrue
<1> QED BY <1>1, WInvHolds, PTL


-----------------------------------------------------------------------------
(* The incident's files, for an operator who runs one writing command at a *)
(* time, and any number of commands, kills and failures.                   *)

\* What a command is about to save.
Edited(c) ==
    IF Is(c, "start") THEN NewFile
    ELSE IF Is(c, "end") THEN [file[at[c]] EXCEPT !.ended = TRUE]
    ELSE [file[at[c]] EXCEPT !.facts = @ \cup {c}]

\* The steps a command takes follow its operation.
InOrder(c) ==
    /\ pc[c] = "new" => call[c] = NoCall
    /\ pc[c] # "new" => call[c].op \in Ops
    /\ pc[c] \in {"new", "called"} => at[c] = None
    /\ pc[c] \in Running \ {"called", "pointed"} => call[c].op \in Writing
    /\ pc[c] = "saved" => Is(c, "start") \/ Is(c, "end")
    /\ pc[c] = "emptied" => Is(c, "start")
    /\ Is(c, "start") => call[c].id \in Incidents

\* What a start knows: no incident is current, and its own file.
StartKnows(c) == Is(c, "start") =>
    /\ pc[c] \in {"writing", "renaming", "saved", "emptied"} => pointer \notin Incidents
    /\ pc[c] \in {"called", "pointed", "writing", "renaming"} => file[call[c].id] = NoFile
    /\ pc[c] \in {"saved", "emptied"} => file[call[c].id] = NewFile

\* What an end or a fact add knows: the current incident, and that it is theirs.
EditKnows(c) == Is(c, "end") \/ Is(c, "fact add") =>
    /\ pc[c] \in {"current", "writing", "renaming", "saved"} =>
          at[c] \in Incidents /\ pointer = at[c] /\ file[at[c]].started
    /\ pc[c] = "saved" => file[at[c]].ended

\* What every command that writes knows.
WriterKnows(c) ==
    /\ Writes(c) /\ pc[c] = "pointed" => at[c] = pointer
    /\ pc[c] \in {"writing", "renaming"} => copy[c] = Edited(c)
    /\ pc[c] = "renaming" => tmp[On(c)] = copy[c]

Knows(c) == InOrder(c) /\ StartKnows(c) /\ EditKnows(c) /\ WriterKnows(c)

Alone == \A c, d \in Commands : Writes(c) /\ Writes(d) => c = d

OwnIds == \A c, d \in Commands :
    Is(c, "start") /\ Is(d, "start") /\ call[c].id = call[d].id => c = d

NothingWithoutStart == \A i \in Incidents : ~file[i].started => file[i] = NoFile

IInv ==
    /\ TypeOK /\ Alone /\ OwnIds /\ NothingWithoutStart
    /\ \A c \in Commands : Knows(c)
    /\ PointerNamesTheOpenOne

-----------------------------------------------------------------------------
(* Steps.                                                                  *)

\* Only command c moves.
Moves(c, p) ==
    /\ pc' = [pc EXCEPT ![c] = p]
    /\ \A d \in Commands \ {c} : at'[d] = at[d] /\ copy'[d] = copy[d]

\* What a command knows outlives a step of another one, which either leaves
\* the files alone or is the only one that writes.
LEMMA OthersKnow ==
    ASSUME IInv, NEW c \in Commands, NEW d \in Commands \ {c}, NEW p, Moves(c, p),
           call'[d] = call[d],
           Writes(c) \/ UNCHANGED <<pointer, file, tmp>>
    PROVE  Knows(d)'
<1>1. /\ pc'[d] = pc[d] /\ at'[d] = at[d] /\ copy'[d] = copy[d] /\ call'[d] = call[d]
      /\ Knows(d)
  BY DEF IInv, TypeOK, Moves
<1>2. InOrder(d)'
  BY <1>1 DEF Knows, InOrder, Is
<1>3. CASE UNCHANGED <<pointer, file, tmp>>
  BY <1>1, <1>2, <1>3 DEF Knows, StartKnows, EditKnows, WriterKnows, Edited, Writes, Is, On
<1>4. CASE Writes(c)
  <2>1. ~Writes(d)
    BY <1>4 DEF IInv, Alone
  <2>2. QED
    BY <1>1, <1>2, <2>1
    DEF Knows, InOrder, StartKnows, EditKnows, WriterKnows, Writes, Is, Running, Writing
<1>5. QED
  BY <1>3, <1>4

\* Steps that leave .mgtt-current, the files and what is called alone, and
\* report no success of a command that writes.
LEMMA QuietStep ==
    ASSUME IInv, TypeOK', NEW c \in Commands, NEW p, Moves(c, p),
           UNCHANGED <<pointer, file, tmp, call>>,
           pc[c] \in Running, p \in Running \cup Over, p = "done" => Is(c, "status"),
           at'[c] = at[c] \/ pc[c] = "called",
           Knows(c)'
    PROVE  IInv'
<1>1. \A d \in Commands : Knows(d)'
  BY OthersKnow
<1>2. Alone'
  BY DEF IInv, TypeOK, Alone, Writes, Moves
<1>3. (OwnIds /\ NothingWithoutStart)'
  BY DEF IInv, OwnIds, NothingWithoutStart, Is
<1>4. ASSUME NEW o \in {"start", "end"}, NEW i \in Incidents, Unfinished(o, i)
      PROVE  Unfinished(o, i)'
  <2>1. PICK d \in Commands : Is(d, o) /\ On(d) = i /\ pc[d] # "done"
    BY <1>4 DEF Unfinished
  <2>2. CASE d = c
    <3>1. pc'[c] # "done"
      BY <1>4, <2>1, <2>2 DEF IInv, TypeOK, Moves, Is
    <3>2. Is(c, o)'
      BY <2>1, <2>2 DEF Is
    <3>3. On(c)' = i
      <4>1. CASE Is(c, "start")
        BY <2>1, <2>2, <4>1 DEF On, Is
      <4>2. CASE ~Is(c, "start") /\ pc[c] = "called"
        BY <2>1, <2>2, <4>2, IncidentCommandsAssumption DEF IInv, Knows, InOrder, On, Is
      <4>3. CASE ~Is(c, "start") /\ at'[c] = at[c]
        BY <2>1, <2>2, <4>3 DEF On, Is
      <4>4. QED
        BY <4>1, <4>2, <4>3
    <3>4. QED
      BY <3>1, <3>2, <3>3 DEF Unfinished
  <2>3. CASE d # c
    BY <2>1, <2>3 DEF Unfinished, Moves, Is, On, IInv, TypeOK
  <2>4. QED
    BY <2>2, <2>3
<1>5. PointerNamesTheOpenOne'
  <2>1. PointerNamesTheOpenOne
    BY DEF IInv
  <2>2. ASSUME NEW i \in Incidents
        PROVE  /\ Unfinished("start", i) => Unfinished("start", i)'
               /\ Unfinished("end", i) => Unfinished("end", i)'
    BY <1>4
  <2>3. QED
    BY <2>1, <2>2 DEF PointerNamesTheOpenOne
<1>6. QED
  BY <1>1, <1>2, <1>3, <1>5 DEF IInv

\* The steps that only load, decide, fail or are killed.
Quiet(c) ==
    \/ ReadPointer(c) \/ Start(c) \/ End(c) \/ EndByID(c) \/ FactAdd(c) \/ Status(c) \/ Kill(c)
    \/ \E from \in Running : Fails(c, from)
    \/ /\ Go(c, "renaming", "failed")
       /\ UNCHANGED <<pointer, file, tmp, call, at, copy, before>>

\* A step that writes nothing does not break the invariant.
LEMMA QuietKeepsIInv == ASSUME IInv, NEW c \in Commands, Quiet(c) PROVE IInv'
<1> USE DEF Go, Running, Over
<1>0. /\ TypeOK /\ Knows(c) /\ pc[c] \in {"new"} \cup Running \cup Over
      /\ at[c] \in Incidents => file[at[c]] \in State
  BY DEF IInv, TypeOK
<1>1. CASE ReadPointer(c)
  <2>1. Moves(c, "pointed") /\ TypeOK'
    BY <1>0, <1>1 DEF ReadPointer, Moves, TypeOK, On, Is
  <2>2. Knows(c)'
    BY <1>0, <1>1 DEF ReadPointer, TypeOK, Knows, InOrder, StartKnows, EditKnows, WriterKnows, Is, Writes
  <2>3. QED
    BY <1>1, <2>1, <2>2, QuietStep DEF ReadPointer
<1>2. ASSUME NEW to, NEW store \in State, Proceed(c, "pointed", to, store), Knows(c)',
             to \in {"failed", "done", "writing", "current"}, to = "done" => Is(c, "status"),
             to \in {"writing", "current"} => On(c) \in Incidents
      PROVE  IInv'
  <2>1. Moves(c, to) /\ TypeOK'
    BY <1>0, <1>2 DEF Proceed, Moves, TypeOK, On, Is
  <2>2. QED
    BY <1>2, <2>1, QuietStep DEF Proceed
<1>3. CASE Start(c)
  <2>1. NoFile \in State /\ NewFile \in State
    BY DEF NoFile, NewFile, State
  <2>2. CASE Proceed(c, "pointed", "failed", NoFile)
    <3>1. Knows(c)'
      BY <1>0, <1>3, <2>2 DEF Start, Proceed, TypeOK, Knows, InOrder, StartKnows, EditKnows, WriterKnows, Is, Writes
    <3>2. QED
      BY <1>2, <2>1, <2>2, <3>1
  <2>3. CASE ~Loads(c) /\ Proceed(c, "pointed", "writing", NewFile)
    <3>1. at[c] = pointer /\ Is(c, "start")
      BY <1>0, <1>3, <2>3 DEF Start, Proceed, Knows, WriterKnows, Writes, Writing, Is
    <3>2. pointer \notin Incidents
      BY <2>3, <3>1 DEF Loads, IInv, PointerNamesTheOpenOne
    <3>3. Knows(c)'
      BY <1>0, <2>3, <3>1, <3>2
      DEF Proceed, TypeOK, Knows, InOrder, StartKnows, EditKnows, WriterKnows, Edited, Is, Writes, Writing
    <3>4. On(c) \in Incidents
      BY <1>0, <3>1 DEF Knows, InOrder, On
    <3>5. QED
      BY <1>2, <2>1, <2>3, <3>3, <3>4
  <2>4. QED
    BY <1>3, <2>2, <2>3 DEF Start
<1>4. ASSUME Is(c, "end") \/ Is(c, "fact add"), pc[c] = "pointed", Loads(c)
      PROVE  at[c] \in Incidents /\ pointer = at[c] /\ file[at[c]].started /\ On(c) = at[c]
  BY <1>0, <1>4 DEF Knows, WriterKnows, Writes, Writing, Is, On, Loads
<1>5. CASE End(c)
  <2>1. NoFile \in State
    BY DEF NoFile, State
  <2>2. CASE Proceed(c, "pointed", "failed", NoFile)
    <3>1. Knows(c)'
      BY <1>0, <1>5, <2>2 DEF End, Proceed, TypeOK, Knows, InOrder, StartKnows, EditKnows, WriterKnows, Is, Writes
    <3>2. QED
      BY <1>2, <2>1, <2>2, <3>1
  <2>3. CASE Loads(c) /\ Proceed(c, "pointed", "current", NoFile)
    <3>1. Knows(c)'
      BY <1>0, <1>4, <1>5, <2>3
      DEF End, Proceed, TypeOK, Knows, InOrder, StartKnows, EditKnows, WriterKnows, Is, Writes, Writing
    <3>2. QED
      BY <1>2, <1>4, <1>5, <2>1, <2>3, <3>1 DEF End, Proceed
  <2>4. QED
    BY <1>5, <2>2, <2>3 DEF End
<1>6. CASE FactAdd(c)
  <2>1. NoFile \in State
    BY DEF NoFile, State
  <2>2. CASE Proceed(c, "pointed", "failed", NoFile)
    <3>1. Knows(c)'
      BY <1>0, <1>6, <2>2 DEF FactAdd, Proceed, TypeOK, Knows, InOrder, StartKnows, EditKnows, WriterKnows, Is, Writes
    <3>2. QED
      BY <1>2, <2>1, <2>2, <3>1
  <2>3. CASE Loads(c) /\ Proceed(c, "pointed", "writing", [file[at[c]] EXCEPT !.facts = @ \cup {c}])
    <3>1. [file[at[c]] EXCEPT !.facts = @ \cup {c}] \in State
      BY <1>0, <1>4, <1>6, <2>3 DEF FactAdd, Proceed, State
    <3>2. Knows(c)'
      BY <1>0, <1>4, <1>6, <2>3
      DEF FactAdd, Proceed, TypeOK, Knows, InOrder, StartKnows, EditKnows, WriterKnows, Edited, Is, Writes, Writing
    <3>3. QED
      BY <1>2, <1>4, <1>6, <2>3, <3>1, <3>2 DEF FactAdd, Proceed
  <2>4. QED
    BY <1>6, <2>2, <2>3 DEF FactAdd
<1>7. CASE Status(c)
  <2>1. PICK store \in State : Proceed(c, "pointed", "done", store)
    BY <1>0, <1>7 DEF Status, Loads, NoFile, State
  <2>2. Knows(c)'
    BY <1>0, <1>7, <2>1 DEF Status, Proceed, TypeOK, Knows, InOrder, StartKnows, EditKnows, WriterKnows, Is, Writes
  <2>3. QED
    BY <1>2, <1>7, <2>1, <2>2 DEF Status
<1>8. CASE EndByID(c)
  <2>1. Is(c, "end") /\ pc[c] = "current" /\ at[c] \in Incidents /\ On(c) = at[c]
    BY <1>0, <1>8 DEF EndByID, Proceed, Knows, EditKnows, On, Is
  <2>2. [file[at[c]] EXCEPT !.ended = TRUE] \in State
    BY <1>0, <2>1 DEF State
  <2>3. Moves(c, "writing") /\ TypeOK'
    BY <1>0, <1>8, <2>1, <2>2 DEF EndByID, Proceed, Moves, TypeOK, On, Is
  <2>4. Knows(c)'
    BY <1>0, <1>8, <2>1 DEF EndByID, Proceed, TypeOK, Knows, InOrder, StartKnows, EditKnows, WriterKnows, Edited, Is, Writes
  <2>5. QED
    BY <1>8, <2>1, <2>3, <2>4, QuietStep DEF EndByID, Proceed
<1>9. ASSUME NEW over \in {"failed", "killed"}, pc' = [pc EXCEPT ![c] = over], pc[c] \in Running,
             UNCHANGED <<pointer, file, tmp, call, at, copy, before>>
      PROVE  IInv'
  <2>1. Moves(c, over) /\ TypeOK'
    BY <1>0, <1>9 DEF Moves, TypeOK, On, Is
  <2>2. Knows(c)'
    BY <1>0, <1>9 DEF TypeOK, Knows, InOrder, StartKnows, EditKnows, WriterKnows, Is, Writes
  <2>3. QED
    BY <1>9, <2>1, <2>2, QuietStep
<1>10. QED
  BY <1>1, <1>3, <1>5, <1>6, <1>7, <1>8, <1>9 DEF Quiet, Kill, Fails

-----------------------------------------------------------------------------
(* Steps that call, or write.                                              *)

\* The invariant holds before the first command.
LEMMA InitHolds == Init => IInv
<1> SUFFICES ASSUME Init PROVE IInv
  OBVIOUS
<1> USE IncidentCommandsAssumption DEF Init, NoCall, Running, Over, Writing
<1>1. NoFile \in State /\ ~NoFile.started /\ ~NoFile.ended
  BY DEF NoFile, State
<1>2. TypeOK
  BY <1>1 DEF TypeOK
<1>3. \A c \in Commands, o \in Ops : ~Is(c, o)
  BY DEF Is
<1>4. Alone /\ OwnIds /\ NothingWithoutStart
  BY <1>3 DEF Alone, OwnIds, NothingWithoutStart, Writes, Ops
<1>5. \A c \in Commands : Knows(c)
  BY <1>3 DEF Knows, InOrder, StartKnows, EditKnows, WriterKnows, Writes, Ops
<1>6. PointerNamesTheOpenOne
  BY <1>1 DEF PointerNamesTheOpenOne
<1>7. QED
  BY <1>2, <1>4, <1>5, <1>6 DEF IInv

\* A call keeps it, if those that write do not overlap.
LEMMA CallKeepsIInv == ASSUME IInv, ~Parallel, NEW c \in Commands, Call(c) PROVE IInv'
<1> USE DEF Go, Running, Over
<1>0. PICK o \in Ops :
          /\ o \in Writing => \A d \in Commands : ~Writes(d)
          /\ \E i \in (IF o = "start" THEN {j \in Incidents : Unused(j)} ELSE {None}) :
                call' = [call EXCEPT ![c] = [op |-> o, id |-> i]]
  BY DEF Call
<1>1. PICK i \in (IF o = "start" THEN {j \in Incidents : Unused(j)} ELSE {None}) :
          call' = [call EXCEPT ![c] = [op |-> o, id |-> i]]
  BY <1>0
<1>2. /\ TypeOK /\ pc[c] = "new" /\ pc' = [pc EXCEPT ![c] = "called"]
      /\ UNCHANGED <<pointer, file, tmp, at, copy>> /\ call[c] = NoCall
      /\ call'[c] = [op |-> o, id |-> i] /\ \A d \in Commands \ {c} : call'[d] = call[d]
      /\ Told \subseteq Commands /\ before' = [before EXCEPT ![c] = Told]
  BY <1>1 DEF Call, IInv, TypeOK, Knows, InOrder, Told
<1>3. i \in Incidents \cup {None} /\ (o = "start" => i \in Incidents /\ Unused(i))
  OBVIOUS
<1>4. TypeOK'
  BY <1>1, <1>2, <1>3 DEF TypeOK, On, Is, Ops, Writing
<1>5. Alone'
  <2>1. \A d \in Commands \ {c} : Writes(d)' => Writes(d)
    BY <1>2 DEF Writes, TypeOK
  <2>2. Writes(c)' => \A d \in Commands : ~Writes(d)
    BY <1>0, <1>2 DEF Writes
  <2>3. QED
    BY <2>1, <2>2 DEF IInv, Alone
<1>6. OwnIds'
  BY <1>2, <1>3 DEF IInv, OwnIds, Is, Unused
<1>7. NothingWithoutStart'
  BY <1>2 DEF IInv, NothingWithoutStart
<1>8. Moves(c, "called")
  BY <1>2 DEF Moves
<1>9. Knows(c)'
  <2>1. at[c] = None
    BY <1>2 DEF IInv, Knows, InOrder
  <2>2. o = "start" => file[i] = NoFile
    BY <1>3 DEF IInv, NothingWithoutStart, Unused
  <2>3. pc'[c] = "called"
    BY <1>2 DEF TypeOK
  <2>4. InOrder(c)'
    BY <1>2, <1>3, <2>1, <2>3 DEF InOrder, Is
  <2>5. StartKnows(c)'
    BY <1>2, <2>2, <2>3 DEF StartKnows, Is
  <2>6. (EditKnows(c) /\ WriterKnows(c))'
    BY <2>3 DEF EditKnows, WriterKnows
  <2>7. QED
    BY <2>4, <2>5, <2>6 DEF Knows
<1>10. \A d \in Commands : Knows(d)'
  BY <1>2, <1>8, <1>9, OthersKnow
<1>11. ASSUME NEW k \in {"start", "end"}, NEW j \in Incidents, Unfinished(k, j) PROVE Unfinished(k, j)'
  <2>1. PICK d \in Commands : Is(d, k) /\ On(d) = j /\ pc[d] # "done"
    BY <1>11 DEF Unfinished
  <2>2. d # c
    <3>1. k \in Ops /\ None \notin Ops
      BY <1>11, IncidentCommandsAssumption DEF Ops, Writing
    <3>2. call[c].op = None
      BY <1>2 DEF NoCall
    <3>3. QED
      BY <2>1, <3>1, <3>2 DEF Is
  <2>3. pc'[d] = pc[d] /\ call'[d] = call[d] /\ at'[d] = at[d]
    BY <1>2, <2>2 DEF TypeOK
  <2>4. QED
    BY <2>1, <2>3 DEF Unfinished, Is, On
<1>12. PointerNamesTheOpenOne'
  <2>1. PointerNamesTheOpenOne
    BY DEF IInv
  <2>2. ASSUME NEW j \in Incidents
        PROVE  /\ Unfinished("start", j) => Unfinished("start", j)'
               /\ Unfinished("end", j) => Unfinished("end", j)'
    BY <1>11
  <2>3. QED
    BY <1>2, <2>1, <2>2 DEF PointerNamesTheOpenOne
<1>13. QED
  BY <1>4, <1>5, <1>6, <1>7, <1>10, <1>12 DEF IInv

\* What a step of a command that writes, to the program counter p, leaves in place.
LeavesOthers(c) == (\A d \in Commands \ {c} : Knows(d)') /\ Alone' /\ OwnIds'

LeavesUnfinished(c, p) ==
    \A o \in {"start", "end"}, i \in Incidents :
        /\ Unfinished(o, i) /\ ~(Is(c, o) /\ On(c) = i /\ p = "done") => Unfinished(o, i)'
        /\ Is(c, o) /\ On(c) = i /\ p # "done" => Unfinished(o, i)'

Moved(c, p) == Writes(c) /\ pc'[c] = p /\ On(c) \in Incidents /\ On(c)' = On(c)

\* A step of a command that writes moves that command only.
LEMMA WritingStep ==
    ASSUME IInv, NEW c \in Commands, NEW p \in Running \cup {"done"}, pc[c] \in Running,
           pc[c] \notin {"called", "pointed"},
           pc' = [pc EXCEPT ![c] = p], UNCHANGED <<call, at, copy>>
    PROVE  Moved(c, p) /\ LeavesOthers(c) /\ LeavesUnfinished(c, p)
<1>0. TypeOK /\ Knows(c) /\ Alone /\ OwnIds
  BY DEF IInv
<1>1. Moved(c, p)
  <2>1. On(c)' = On(c)
    BY DEF On, Is
  <2>2. Writes(c)
    BY <1>0 DEF Writes, Running, Knows, InOrder
  <2>3. On(c) \in Incidents
    BY <1>0 DEF TypeOK
  <2>4. pc'[c] = p
    BY <1>0 DEF TypeOK
  <2>5. QED
    BY <2>1, <2>2, <2>3, <2>4 DEF Moved
<1>2. Moves(c, p)
  BY DEF Moves
<1>3. \A d \in Commands \ {c} : Knows(d)'
  BY <1>1, <1>2, OthersKnow DEF Moved
<1>4. Alone'
  BY <1>0, <1>1 DEF TypeOK, Alone, Writes, Moved
<1>5. OwnIds'
  BY <1>0 DEF OwnIds, Is
<1>6. LeavesUnfinished(c, p)
  <2>1. ASSUME NEW o \in {"start", "end"}, NEW i \in Incidents, NEW d \in Commands,
               Is(d, o), On(d) = i, pc[d] # "done", d = c => p # "done"
        PROVE  Unfinished(o, i)'
    <3>1. pc'[d] # "done"
      BY <1>0, <2>1 DEF TypeOK
    <3>2. Is(d, o)' /\ On(d)' = i
      BY <2>1 DEF Is, On
    <3>3. QED
      BY <3>1, <3>2 DEF Unfinished
  <2>2. pc[c] # "done"
    BY DEF Running
  <2>3. ASSUME NEW o \in {"start", "end"}, NEW i \in Incidents, Unfinished(o, i),
               ~(Is(c, o) /\ On(c) = i /\ p = "done")
        PROVE  Unfinished(o, i)'
    <3>1. PICK d \in Commands : Is(d, o) /\ On(d) = i /\ pc[d] # "done"
      BY <2>3 DEF Unfinished
    <3>2. d = c => p # "done"
      BY <2>3, <3>1
    <3>3. QED
      BY <2>1, <3>1, <3>2
  <2>4. ASSUME NEW o \in {"start", "end"}, NEW i \in Incidents,
               Is(c, o) /\ On(c) = i /\ p # "done"
        PROVE  Unfinished(o, i)'
    BY <2>1, <2>2, <2>4
  <2>5. QED
    BY <2>3, <2>4 DEF LeavesUnfinished
<1>7. QED
  BY <1>1, <1>3, <1>4, <1>5, <1>6 DEF LeavesOthers

\* Writing the temporary file keeps it.
LEMMA WriteTmpKeepsIInv ==
    ASSUME IInv, NEW c \in Commands, WriteTmp(c), pc'[c] # "failed" PROVE IInv'
<1> USE DEF Running
<1>1. /\ pc[c] = "writing" /\ pc' = [pc EXCEPT ![c] = "renaming"]
      /\ tmp' = [tmp EXCEPT ![On(c)] = copy[c]]
      /\ UNCHANGED <<pointer, file, call, at, copy, before>>
  BY DEF WriteTmp, Fails, Go, IInv, TypeOK
<1>2. /\ pc'[c] = "renaming" /\ On(c) \in Incidents /\ On(c)' = On(c) /\ Writes(c)
      /\ \A d \in Commands \ {c} : Knows(d)'
      /\ Alone' /\ OwnIds'
      /\ \A o \in {"start", "end"}, i \in Incidents : Unfinished(o, i) => Unfinished(o, i)'
  <2>1. Moved(c, "renaming") /\ LeavesOthers(c) /\ LeavesUnfinished(c, "renaming")
    BY <1>1, WritingStep
  <2>2. QED
    BY <2>1 DEF Moved, LeavesOthers, LeavesUnfinished
<1>3. TypeOK'
  <2>1. tmp' \in [Incidents -> State]
    BY <1>1, <1>2 DEF IInv, TypeOK
  <2>2. \A d \in Commands : pc'[d] \in Running \ {"called", "pointed"} => On(d)' \in Incidents
    BY <1>1, <1>2 DEF IInv, TypeOK, On, Is
  <2>3. QED
    BY <1>1, <2>1, <2>2 DEF IInv, TypeOK
<1>4. Knows(c)'
  <2>1. Knows(c) /\ tmp'[On(c)] = copy[c]
    BY <1>1, <1>2 DEF IInv, TypeOK
  <2>2. QED
    BY <1>1, <1>2, <2>1 DEF Knows, InOrder, StartKnows, EditKnows, WriterKnows, Edited, Is
<1>5. (NothingWithoutStart /\ PointerNamesTheOpenOne)'
  <2>1. NothingWithoutStart /\ PointerNamesTheOpenOne
    BY DEF IInv
  <2>2. NothingWithoutStart'
    BY <1>1, <2>1 DEF NothingWithoutStart
  <2>3. PointerNamesTheOpenOne'
    BY <1>1, <1>2, <2>1 DEF PointerNamesTheOpenOne
  <2>4. QED
    BY <2>2, <2>3
<1>6. QED
  BY <1>2, <1>3, <1>4, <1>5 DEF IInv

\* What a rename puts in place of the state file.
LEMMA RenameSaves ==
    ASSUME IInv, NEW c \in Commands, Rename(c), pc'[c] # "failed"
    PROVE  /\ pc[c] = "renaming" /\ pc' = [pc EXCEPT ![c] = IF Is(c, "fact add") THEN "done" ELSE "saved"]
           /\ On(c) \in Incidents /\ file' = [file EXCEPT ![On(c)] = Edited(c)]
           /\ tmp' = [tmp EXCEPT ![On(c)] = NoFile]
           /\ UNCHANGED <<pointer, call, at, copy, before>>
           /\ Edited(c) \in State /\ Edited(c).started
           /\ Is(c, "start") \/ Is(c, "end") \/ Is(c, "fact add")
<1>1. /\ pc[c] = "renaming" /\ pc' = [pc EXCEPT ![c] = IF Is(c, "fact add") THEN "done" ELSE "saved"]
      /\ tmp[On(c)].started
      /\ file' = [file EXCEPT ![On(c)] = tmp[On(c)]] /\ tmp' = [tmp EXCEPT ![On(c)] = NoFile]
      /\ UNCHANGED <<pointer, call, at, copy, before>>
  BY DEF Rename, Go, IInv, TypeOK
<1>2. tmp[On(c)] = Edited(c)
  BY <1>1 DEF IInv, Knows, WriterKnows
<1>3. On(c) \in Incidents /\ tmp[On(c)] \in State
  BY <1>1 DEF IInv, TypeOK, Running
<1>4. Is(c, "start") \/ Is(c, "end") \/ Is(c, "fact add")
  BY <1>1 DEF IInv, Knows, InOrder, Running, Writing, Is
<1>5. QED
  BY <1>1, <1>2, <1>3, <1>4

\* Renaming it into place keeps it.
LEMMA RenameKeepsIInv ==
    ASSUME IInv, NEW c \in Commands, Rename(c), pc'[c] # "failed" PROVE IInv'
<1> USE DEF Running
<1> DEFINE p == IF Is(c, "fact add") THEN "done" ELSE "saved"
<1>1. /\ pc[c] = "renaming" /\ pc' = [pc EXCEPT ![c] = p]
      /\ On(c) \in Incidents /\ file' = [file EXCEPT ![On(c)] = Edited(c)]
      /\ tmp' = [tmp EXCEPT ![On(c)] = NoFile]
      /\ UNCHANGED <<pointer, call, at, copy, before>>
      /\ Edited(c) \in State /\ Edited(c).started
      /\ Is(c, "start") \/ Is(c, "end") \/ Is(c, "fact add")
  BY RenameSaves
<1>2. /\ pc'[c] = p /\ On(c)' = On(c) /\ Writes(c)
      /\ \A d \in Commands \ {c} : Knows(d)'
      /\ Alone' /\ OwnIds'
      /\ \A o \in {"start", "end"}, i \in Incidents :
            /\ Unfinished(o, i) => Unfinished(o, i)'
            /\ Is(c, o) /\ On(c) = i => Unfinished(o, i)'
  <2>1. p \in Running \cup {"done"} /\ (p = "done" => Is(c, "fact add"))
    OBVIOUS
  <2>2. \A o \in {"start", "end"} : Is(c, o) => p # "done"
    BY <2>1 DEF Is
  <2>3. Moved(c, p) /\ LeavesOthers(c) /\ LeavesUnfinished(c, p)
    <3> HIDE DEF p
    <3>1. QED
      BY <1>1, <2>1, WritingStep
  <2>4. \A o \in {"start", "end"}, i \in Incidents :
           /\ Unfinished(o, i) => Unfinished(o, i)'
           /\ Is(c, o) /\ On(c) = i => Unfinished(o, i)'
    <3> HIDE DEF p
    <3>1. QED
      BY <2>2, <2>3 DEF LeavesUnfinished
  <2>5. QED
    <3> HIDE DEF p
    <3>1. QED
      BY <2>3, <2>4 DEF Moved, LeavesOthers
<1>3. TypeOK'
  <2>1. file' \in [Incidents -> State] /\ tmp' \in [Incidents -> State]
    BY <1>1 DEF IInv, TypeOK, NoFile, State
  <2>2. \A d \in Commands : pc'[d] \in Running \ {"called", "pointed"} => On(d)' \in Incidents
    BY <1>1, <1>2 DEF IInv, TypeOK, On, Is
  <2>3. QED
    BY <1>1, <2>1, <2>2 DEF IInv, TypeOK, Over
<1>4. file'[On(c)] = Edited(c) /\ \A i \in Incidents \ {On(c)} : file'[i] = file[i]
  BY <1>1 DEF IInv, TypeOK
<1>5. /\ Is(c, "start") => pointer \notin Incidents /\ Edited(c) = NewFile /\ On(c) = call[c].id
      /\ Is(c, "end") => pointer = On(c) /\ Edited(c).ended /\ On(c) = at[c]
      /\ Is(c, "fact add") => pointer = On(c) /\ Edited(c).ended = file[On(c)].ended /\ file[On(c)].started
  <2>1. Knows(c) /\ file \in [Incidents -> State]
    BY DEF IInv, TypeOK
  <2>2. QED
    BY <1>1, <2>1 DEF Knows, StartKnows, EditKnows, Edited, On, Is, State
<1>6. Knows(c)'
  <2>1. Knows(c)
    BY DEF IInv
  <2>2. /\ Is(c, "start") \/ Is(c, "end") => pc'[c] = "saved"
        /\ Is(c, "fact add") => pc'[c] = "done"
        /\ call'[c] = call[c] /\ at'[c] = at[c] /\ pointer' = pointer
    BY <1>1, <1>2 DEF Is
  <2>3. InOrder(c)'
    BY <1>1, <2>1, <2>2 DEF Knows, InOrder, Is, Writing
  <2>4. StartKnows(c)'
    BY <1>4, <1>5, <2>2 DEF StartKnows, Is
  <2>5. EditKnows(c)'
    BY <1>1, <1>4, <1>5, <2>1, <2>2 DEF Knows, EditKnows, Is
  <2>6. WriterKnows(c)'
    BY <1>1, <2>2 DEF WriterKnows
  <2>7. QED
    BY <2>3, <2>4, <2>5, <2>6 DEF Knows
<1>7. NothingWithoutStart'
  BY <1>1, <1>4 DEF IInv, NothingWithoutStart
<1>8. PointerNamesTheOpenOne'
  <2>1. PointerNamesTheOpenOne
    BY DEF IInv
  <2>2. SUFFICES ASSUME NEW i \in Incidents
        PROVE /\ file'[i].started /\ ~file'[i].ended /\ ~Unfinished("start", i)' => pointer' = i
              /\ pointer' = i => file'[i].started /\ (file'[i].ended => Unfinished("end", i)')
    BY DEF PointerNamesTheOpenOne
  <2>3. CASE i # On(c)
    BY <1>1, <1>2, <1>4, <2>1, <2>3 DEF PointerNamesTheOpenOne
  <2>4. CASE i = On(c)
    BY <1>1, <1>2, <1>4, <1>5, <2>1, <2>4 DEF PointerNamesTheOpenOne
  <2>5. QED
    BY <2>3, <2>4
<1>9. QED
  BY <1>2, <1>3, <1>6, <1>7, <1>8 DEF IInv

\* Writing and removing .mgtt-current keep it.
LEMMA PointerKeepsIInv ==
    ASSUME IInv, NEW c \in Commands, EmptyPointer(c) \/ FillPointer(c) \/ RemovePointer(c),
           pc'[c] # "failed"
    PROVE  IInv'
<1> USE DEF Running
<1>0. TypeOK /\ PointerNamesTheOpenOne /\ Knows(c)
  BY DEF IInv
<1>1. PICK p \in {"emptied", "done"} :
         /\ pc[c] \in {"saved", "emptied"} /\ UNCHANGED <<file, tmp, call, at, copy, before>>
         /\ pc' = [pc EXCEPT ![c] = p]
         /\ \/ Is(c, "start") /\ p = "emptied" /\ pointer' = Empty
            \/ Is(c, "start") /\ p = "done" /\ pointer' = call[c].id
            \/ Is(c, "end") /\ p = "done" /\ pointer' = None /\ pc[c] = "saved"
  <2>1. CASE EmptyPointer(c)
    BY <1>0, <2>1 DEF EmptyPointer, SetPointer, Fails, Go, TypeOK
  <2>2. CASE FillPointer(c)
    BY <1>0, <2>2 DEF FillPointer, SetPointer, Fails, Go, TypeOK
  <2>3. CASE RemovePointer(c)
    BY <1>0, <2>3 DEF RemovePointer, SetPointer, Fails, Go, TypeOK
  <2>4. QED
    BY <2>1, <2>2, <2>3
<1>2. /\ call'[c] = call[c] /\ at'[c] = at[c] /\ call[c].op \in Ops
      /\ Is(c, "start") => call[c].id \in Incidents /\ ~Is(c, "end")
  BY <1>0, <1>1 DEF Knows, InOrder, Is
<1>3. /\ pc'[c] = p /\ On(c) \in Incidents /\ On(c)' = On(c)
      /\ \A d \in Commands \ {c} : Knows(d)'
      /\ Alone' /\ OwnIds'
      /\ \A o \in {"start", "end"}, i \in Incidents :
            /\ Unfinished(o, i) /\ ~(Is(c, o) /\ On(c) = i /\ p = "done") => Unfinished(o, i)'
            /\ Is(c, o) /\ On(c) = i /\ p # "done" => Unfinished(o, i)'
  <2>1. p \in Running \cup {"done"} /\ pc[c] \in Running /\ pc[c] \notin {"called", "pointed"}
    BY <1>1
  <2>2. Moved(c, p) /\ LeavesOthers(c) /\ LeavesUnfinished(c, p)
    BY <1>1, <2>1, WritingStep
  <2>3. QED
    BY <2>2 DEF Moved, LeavesOthers, LeavesUnfinished
<1>4. TypeOK'
  <2>1. pointer' \in Incidents \cup {None, Empty}
    BY <1>0, <1>1 DEF Knows, InOrder
  <2>2. \A d \in Commands : pc'[d] \in Running \ {"called", "pointed"} => On(d)' \in Incidents
    BY <1>0, <1>1, <1>2, <1>3 DEF TypeOK, On, Is
  <2>3. QED
    BY <1>0, <1>1, <1>2, <2>1, <2>2 DEF TypeOK, Over
<1>5. Knows(c)'
  <2>1. InOrder(c)'
    <3>1. pc'[c] \in {"emptied", "done"} /\ (pc'[c] = "emptied" => Is(c, "start"))
      BY <1>1, <1>2, <1>3
    <3>2. QED
      BY <1>2, <3>1 DEF InOrder, Is, Writing
  <2>2. StartKnows(c)'
    <3>1. CASE p = "done"
      BY <1>3, <3>1 DEF StartKnows
    <3>2. CASE p = "emptied"
      <4>1. Is(c, "start") /\ pointer' = Empty
        BY <1>1, <1>2, <1>3, <3>2 DEF Is
      <4>2. file'[call'[c].id] = NewFile
        BY <1>0, <1>1, <1>2, <4>1 DEF Knows, StartKnows
      <4>3. QED
        BY <1>3, <3>2, <4>1, <4>2, IncidentCommandsAssumption DEF StartKnows
    <3>3. QED
      BY <3>1, <3>2
  <2>3. (EditKnows(c) /\ WriterKnows(c))'
    BY <1>3 DEF EditKnows, WriterKnows
  <2>4. QED
    BY <2>1, <2>2, <2>3 DEF Knows
<1>6. NothingWithoutStart'
  BY <1>1 DEF IInv, NothingWithoutStart
<1>7. PointerNamesTheOpenOne'
  <2>1. CASE Is(c, "start")
    <3>1. /\ pointer \notin Incidents /\ file[On(c)] = NewFile /\ On(c) = call[c].id
          /\ (pointer' = Empty /\ p = "emptied") \/ (pointer' = On(c) /\ p = "done")
      BY <1>0, <1>1, <1>2, <1>3, <2>1 DEF Knows, StartKnows, On, Is
    <3>2. ASSUME NEW i \in Incidents, file'[i].started, ~file'[i].ended, ~Unfinished("start", i)'
          PROVE  pointer' = i
      <4>1. i = On(c) /\ p = "done"
        <5>1. SUFFICES ASSUME ~(i = On(c) /\ p = "done") PROVE FALSE
          OBVIOUS
        <5>2. ~Unfinished("start", i)
          BY <1>3, <2>1, <3>2, <5>1
        <5>3. pointer = i
          BY <1>0, <1>1, <3>2, <5>2 DEF PointerNamesTheOpenOne
        <5>4. QED
          BY <3>1, <5>3
      <4>2. QED
        BY <1>3, <3>1, <4>1
    <3>3. ASSUME NEW i \in Incidents, pointer' = i
          PROVE  file'[i].started /\ (file'[i].ended => Unfinished("end", i)')
      BY <1>1, <3>1, <3>3, IncidentCommandsAssumption DEF NewFile
    <3>4. QED
      BY <3>2, <3>3 DEF PointerNamesTheOpenOne
  <2>2. CASE Is(c, "end")
    <3>1. pointer = On(c) /\ file[On(c)].ended /\ pointer' = None
      BY <1>0, <1>1, <2>2 DEF Knows, EditKnows, On, Is
    <3>2. ASSUME NEW i \in Incidents, file'[i].started, ~file'[i].ended, ~Unfinished("start", i)'
          PROVE  pointer' = i
      <4>1. ~Unfinished("start", i)
        BY <1>3, <2>2, <3>2 DEF Is
      <4>2. pointer = i
        BY <1>0, <1>1, <3>2, <4>1 DEF PointerNamesTheOpenOne
      <4>3. QED
        BY <1>1, <3>1, <3>2, <4>2
    <3>3. QED
      BY <3>1, <3>2, IncidentCommandsAssumption DEF PointerNamesTheOpenOne
  <2>3. QED
    BY <1>1, <2>1, <2>2
<1>8. QED
  BY <1>3, <1>4, <1>5, <1>6, <1>7 DEF IInv

-----------------------------------------------------------------------------
(* Theorems.                                                               *)

\* Every step keeps it,
LEMMA IInvStep == ASSUME IInv, ~Parallel, [Next]_vars PROVE IInv'
<1>1. CASE UNCHANGED vars
  <2>. USE <1>1 DEF vars
  <2>1. ASSUME NEW c \in Commands PROVE /\ Writes(c)' = Writes(c) /\ On(c)' = On(c)
                                        /\ \A o \in Ops : Is(c, o)' = Is(c, o)
    BY DEF Writes, On, Is
  <2>2. TypeOK'
    BY <2>1 DEF IInv, TypeOK
  <2>3. Alone' /\ OwnIds' /\ NothingWithoutStart'
    BY <2>1 DEF IInv, Alone, OwnIds, NothingWithoutStart, Is
  <2>4. ASSUME NEW c \in Commands PROVE Knows(c)'
    <3>1. Knows(c)
      BY DEF IInv
    <3>2. InOrder(c)'
      BY <3>1, <2>1 DEF Knows, InOrder, Is
    <3>3. StartKnows(c)'
      BY <3>1, <2>1 DEF Knows, StartKnows, Is
    <3>4. EditKnows(c)'
      BY <3>1, <2>1 DEF Knows, EditKnows, Is
    <3>5. WriterKnows(c)'
      BY <3>1, <2>1 DEF Knows, WriterKnows, Edited, Is
    <3>6. QED
      BY <3>2, <3>3, <3>4, <3>5 DEF Knows
  <2>5. PointerNamesTheOpenOne'
    BY <2>1 DEF IInv, PointerNamesTheOpenOne, Unfinished, Is, On
  <2>6. QED
    BY <2>2, <2>3, <2>4, <2>5 DEF IInv
<1>2. ASSUME NEW c \in Commands, Call(c) PROVE IInv'
  BY <1>2, CallKeepsIInv
<1>3. ASSUME NEW c \in Commands, Quiet(c) PROVE IInv'
  BY <1>3, QuietKeepsIInv
<1>4. ASSUME NEW c \in Commands, WriteTmp(c) PROVE IInv'
  <2>1. CASE Fails(c, "writing")
    BY <1>3, <2>1 DEF Quiet, Running
  <2>2. CASE pc'[c] # "failed"
    BY <1>4, <2>2, WriteTmpKeepsIInv
  <2>3. QED
    BY <1>4, <2>1, <2>2 DEF WriteTmp, Go, IInv, TypeOK
<1>5. ASSUME NEW c \in Commands, Rename(c) PROVE IInv'
  <2>1. CASE pc'[c] # "failed"
    BY <1>5, <2>1, RenameKeepsIInv
  <2>2. CASE pc'[c] = "failed"
    BY <1>3, <1>5, <2>2 DEF Rename, Go, Quiet, IInv, TypeOK
  <2>3. QED
    BY <2>1, <2>2
<1>6. ASSUME NEW c \in Commands, EmptyPointer(c) \/ FillPointer(c) \/ RemovePointer(c) PROVE IInv'
  <2>1. CASE \E from \in Running : Fails(c, from)
    BY <1>3, <2>1 DEF Quiet
  <2>2. CASE pc'[c] # "failed"
    BY <1>6, <2>2, PointerKeepsIInv
  <2>3. QED
    BY <1>6, <2>1, <2>2
    DEF EmptyPointer, FillPointer, RemovePointer, SetPointer, Go, Running, IInv, TypeOK
<1>7. QED
  BY <1>1, <1>2, <1>3, <1>4, <1>5, <1>6 DEF Next, Step, Quiet

\* and so it holds in every reachable state, for one writing command at a
\* time.
THEOREM Invariance == ~Parallel => (Spec => []IInv)
<1> SUFFICES ASSUME ~Parallel PROVE Spec => []IInv
  OBVIOUS
<1>1. IInv /\ [Next]_vars => IInv'
  BY IInvStep
<1>2. QED
  BY <1>1, InitHolds, PTL DEF Spec

\* Between any two file operations of a start, an end or a fact add, killed
\* or not, .mgtt-current names the open incident (Start, End).
THEOREM PointerIsRight == ~Parallel => (Spec => []PointerNamesTheOpenOne)
<1>1. IInv => PointerNamesTheOpenOne
  BY DEF IInv
<1>2. QED
  BY <1>1, Invariance, PTL

Kept == \A i \in Incidents :
    /\ file[i].started => file'[i].started
    /\ file[i].ended => file'[i].ended
    /\ file[i].facts \subseteq file'[i].facts

\* No step takes anything back.
LEMMA FilesAreKept == ASSUME IInv, [Next]_vars PROVE Kept
<1>2. ASSUME NEW c \in Commands, Rename(c), pc'[c] # "failed" PROVE Kept
  <2>1. /\ On(c) \in Incidents /\ file' = [file EXCEPT ![On(c)] = Edited(c)] /\ Edited(c).started
        /\ pc[c] = "renaming" /\ (Is(c, "start") \/ Is(c, "end") \/ Is(c, "fact add"))
    BY <1>2, RenameSaves
  <2>2. CASE Is(c, "start")
    <3>1. file[On(c)] = NoFile
      BY <2>1, <2>2 DEF IInv, Knows, StartKnows, On
    <3>2. ~file[On(c)].started /\ ~file[On(c)].ended /\ file[On(c)].facts = {}
      BY <3>1 DEF NoFile
    <3>3. \A i \in Incidents \ {On(c)} : file'[i] = file[i]
      BY <2>1 DEF IInv, TypeOK
    <3>4. QED
      BY <3>2, <3>3 DEF Kept
  <2>3. CASE ~Is(c, "start")
    <3>1. On(c) = at[c] /\ file[at[c]] \in State
      BY <2>1, <2>3 DEF On, IInv, TypeOK
    <3>2. /\ file[at[c]].ended => Edited(c).ended
          /\ file[at[c]].facts \subseteq Edited(c).facts
      BY <2>3, <3>1 DEF Edited, State
    <3>3. QED
      BY <2>1, <3>1, <3>2 DEF Kept, IInv, TypeOK
  <2>4. QED
    BY <2>2, <2>3
<1>3. CASE \A c \in Commands : ~(Rename(c) /\ pc'[c] # "failed")
  <2>1. ASSUME NEW c \in Commands, Step(c) \/ Kill(c), ~Rename(c) PROVE UNCHANGED file
    <3>1. CASE ReadPointer(c) \/ Status(c) \/ Kill(c)
      BY <3>1 DEF ReadPointer, Status, Proceed, Kill
    <3>2. CASE Start(c) \/ End(c) \/ EndByID(c) \/ FactAdd(c)
      BY <3>2 DEF Start, End, EndByID, FactAdd, Proceed
    <3>3. CASE WriteTmp(c) \/ EmptyPointer(c) \/ FillPointer(c) \/ RemovePointer(c)
      BY <3>3 DEF WriteTmp, EmptyPointer, FillPointer, RemovePointer, SetPointer, Fails
    <3>4. QED
      BY <2>1, <3>1, <3>2, <3>3 DEF Step
  <2>2. ASSUME NEW c \in Commands, Rename(c), pc'[c] = "failed" PROVE UNCHANGED file
    BY <2>2 DEF Rename, Go, IInv, TypeOK
  <2>3. ASSUME NEW c \in Commands, Step(c) \/ Kill(c) PROVE UNCHANGED file
    BY <1>3, <2>1, <2>2, <2>3
  <2>4. ASSUME NEW c \in Commands, Call(c) PROVE UNCHANGED file
    BY <2>4 DEF Call
  <2>5. UNCHANGED file
    BY <2>3, <2>4 DEF Next, vars
  <2>6. QED
    BY <2>5 DEF Kept
<1>4. QED
  BY <1>2, <1>3

\* No step undoes a saved start, end or fact (Save renames into place what
\* was loaded, with the change).
THEOREM NothingIsLost == ~Parallel => (Spec => NothingIsTakenBack)
<1> SUFFICES ASSUME ~Parallel PROVE Spec => NothingIsTakenBack
  OBVIOUS
<1>1. IInv /\ [Next]_vars => Kept
  BY FilesAreKept
<1>2. QED
  BY <1>1, Invariance, PTL DEF NothingIsTakenBack, Kept, Spec

StartedWhenTold == \A c \in Told : Is(c, "start") => file[On(c)].started

\* What was reported started was started.
LEMMA StartedWhenToldHolds == ~Parallel => (Spec => []StartedWhenTold)
<1> SUFFICES ASSUME ~Parallel PROVE Spec => []StartedWhenTold
  OBVIOUS
<1>1. Init => StartedWhenTold
  BY DEF Init, StartedWhenTold, Told
<1>2. StartedWhenTold /\ IInv /\ IInv' /\ [Next]_vars => StartedWhenTold'
  <2> SUFFICES ASSUME StartedWhenTold, IInv, IInv', [Next]_vars, NEW c \in Told', Is(c, "start")'
               PROVE  file'[On(c)'].started
    BY DEF StartedWhenTold
  <2>1. Kept /\ c \in Commands /\ pc'[c] = "done" /\ On(c)' = call'[c].id /\ call'[c].id \in Incidents
    BY FilesAreKept DEF Told, On, Is, IInv, Knows, InOrder
  <2>2. CASE pc[c] = "done" /\ call'[c] = call[c]
    BY <2>1, <2>2 DEF StartedWhenTold, Told, Kept, On, Is
  <2>3. CASE FillPointer(c)
    BY <2>1, <2>3 DEF FillPointer, SetPointer, Fails, Go, IInv, TypeOK, Knows, StartKnows, NewFile, Is
  <2>4. CASE pc[c] = "done"
    <3>1. call'[c] = call[c]
      <4>1. ASSUME NEW e \in Commands, Call(e) PROVE call'[c] = call[c]
        BY <2>1, <2>4, <4>1 DEF Call, Go, IInv, TypeOK
      <4>2. ASSUME NEW e \in Commands, Step(e) PROVE call'[c] = call[c]
        BY <4>2 DEF Step, ReadPointer, Start, End, EndByID, FactAdd, Status, Proceed, WriteTmp, Rename,
           EmptyPointer, FillPointer, RemovePointer, SetPointer, Fails
      <4>3. QED
        BY <4>1, <4>2 DEF Next, vars, Kill
    <3>2. QED
      BY <2>2, <2>4, <3>1
  <2>5. CASE pc[c] # "done"
    <3>1. ~ \E e \in Commands : Call(e) \/ Kill(e)
      BY <2>1, <2>5 DEF Call, Kill, Go, IInv, TypeOK
    <3>2. PICK e \in Commands : Step(e)
      BY <2>1, <2>5, <3>1 DEF Next, vars
    <3>3. e = c
      <4>1. \E q : pc' = [pc EXCEPT ![e] = q]
        BY <3>2 DEF Step, ReadPointer, Start, End, EndByID, FactAdd, Status, Proceed, WriteTmp, Rename,
           EmptyPointer, FillPointer, RemovePointer, SetPointer, Fails, Go
      <4>2. QED
        BY <2>1, <2>5, <4>1 DEF IInv, TypeOK
    <3>4. Is(c, "start")
      BY <3>2, <3>3 DEF Step, ReadPointer, Start, End, EndByID, FactAdd, Status, Proceed, WriteTmp, Rename,
         EmptyPointer, FillPointer, RemovePointer, SetPointer, Fails, Is
    <3>5. FillPointer(c)
      <4>1. ReadPointer(c) \/ Start(c) \/ WriteTmp(c) \/ Rename(c) \/ EmptyPointer(c) \/ FillPointer(c)
        BY <3>2, <3>3, <3>4 DEF Step, End, EndByID, FactAdd, Status, RemovePointer, Is
      <4>2. ASSUME NEW q, pc' = [pc EXCEPT ![c] = q], q # "done" PROVE FALSE
        BY <2>1, <4>2 DEF IInv, TypeOK
      <4>3. ~(ReadPointer(c) \/ Start(c) \/ WriteTmp(c) \/ Rename(c) \/ EmptyPointer(c))
        BY <3>4, <4>2 DEF ReadPointer, Start, Proceed, WriteTmp, Rename, EmptyPointer, SetPointer, Fails, Go, Is
      <4>4. QED
        BY <4>1, <4>3
    <3>6. QED
      BY <2>3, <3>5
  <2>6. QED
    BY <2>4, <2>5
<1>3. QED
  BY <1>1, <1>2, Invariance, PTL DEF Spec

\* The open incident of a reported start is the current one.
LEMMA OpenIsCurrent ==
    ASSUME IInv, StartedWhenTold, NEW d \in Told, Is(d, "start"), ~file[On(d)].ended
    PROVE  pointer = On(d)
<1>1. d \in Commands /\ pc[d] = "done" /\ On(d) = call[d].id /\ On(d) \in Incidents
  BY DEF Told, On, IInv, Knows, InOrder
<1>2. ~Unfinished("start", On(d))
  BY <1>1 DEF IInv, OwnIds, Unfinished, On
<1>3. file[On(d)].started
  BY DEF StartedWhenTold
<1>4. QED
  BY <1>1, <1>2, <1>3 DEF IInv, PointerNamesTheOpenOne

\* The single-active invariant of Start, for one writing command at a time.
THEOREM OneIsActive == ~Parallel => (Spec => []SingleActive)
<1>1. IInv /\ StartedWhenTold => SingleActive
  <2> SUFFICES ASSUME IInv, StartedWhenTold, NEW c \in Told, NEW d \in Told,
                      Is(c, "start"), ~file[On(c)].ended, Is(d, "start"), ~file[On(d)].ended
               PROVE  c = d
    BY DEF SingleActive
  <2>1. pointer = On(c) /\ pointer = On(d)
    BY OpenIsCurrent
  <2>2. QED
    BY <2>1 DEF IInv, OwnIds, Told, On
<1>2. QED
  BY <1>1, Invariance, StartedWhenToldHolds, PTL

-----------------------------------------------------------------------------
(* What a reader finds.                                                    *)

\* A step leaves a command as it was, unless it is a step of that command.
Still(c) ==
    pc'[c] = pc[c] /\ call'[c] = call[c] /\ at'[c] = at[c] /\ copy'[c] = copy[c]
    /\ before'[c] = before[c]

\* A step moves one command.
LEMMA OneMoves ==
    ASSUME IInv, [Next]_vars, NEW c \in Commands
    PROVE  Still(c) \/ Call(c) \/ Step(c) \/ Kill(c)
<1> USE DEF Go
<1>1. CASE UNCHANGED vars
  BY <1>1 DEF vars, Still
<1>2. ASSUME NEW d \in Commands \ {c}, Call(d) \/ Step(d) \/ Kill(d)
      PROVE  Still(c)
  <2>1. CASE Call(d)
    BY <1>2, <2>1 DEF Call, Still, IInv, TypeOK
  <2>2. CASE ReadPointer(d) \/ Kill(d)
    BY <1>2, <2>2 DEF ReadPointer, Kill, Still, IInv, TypeOK
  <2>3. CASE Start(d) \/ End(d) \/ EndByID(d) \/ FactAdd(d) \/ Status(d)
    BY <1>2, <2>3 DEF Start, End, EndByID, FactAdd, Status, Proceed, Still, IInv, TypeOK
  <2>4. CASE WriteTmp(d) \/ Rename(d)
    BY <1>2, <2>4 DEF WriteTmp, Fails, Rename, Still, IInv, TypeOK
  <2>5. CASE EmptyPointer(d) \/ FillPointer(d) \/ RemovePointer(d)
    BY <1>2, <2>5 DEF EmptyPointer, FillPointer, RemovePointer, SetPointer, Fails, Still, IInv, TypeOK
  <2>6. QED
    BY <1>2, <2>1, <2>2, <2>3, <2>4, <2>5 DEF Step
<1>3. QED
  BY <1>1, <1>2 DEF Next

\* A command's own step sets its history only when it is called, and what it
\* read in .mgtt-current only when it reads it.
LEMMA OwnStep ==
    ASSUME IInv, NEW c \in Commands, Step(c) \/ Kill(c)
    PROVE  /\ pc[c] \in Running /\ pc'[c] # "new" /\ call'[c] = call[c] /\ before'[c] = before[c]
           /\ ReadPointer(c) \/ at'[c] = at[c]
           /\ pc'[c] = "pointed" => ReadPointer(c)
           /\ pc'[c] = "done" => \/ FillPointer(c) \/ RemovePointer(c) \/ Status(c)
                                 \/ Rename(c) /\ Is(c, "fact add")
<1> USE DEF Go, Running, IInv, TypeOK
<1>1. CASE ReadPointer(c) \/ Kill(c)
  BY <1>1 DEF ReadPointer, Kill
<1>2. CASE Start(c) \/ End(c) \/ EndByID(c) \/ FactAdd(c) \/ Status(c)
  BY <1>2 DEF Start, End, EndByID, FactAdd, Status, Proceed
<1>3. CASE WriteTmp(c) \/ Rename(c)
  BY <1>3 DEF WriteTmp, Fails, Rename
<1>4. CASE EmptyPointer(c) \/ FillPointer(c) \/ RemovePointer(c)
  BY <1>4 DEF EmptyPointer, FillPointer, RemovePointer, SetPointer, Fails
<1>5. QED
  BY <1>1, <1>2, <1>3, <1>4 DEF Step

\* A success that was reported stays.
LEMMA ToldStays == ASSUME IInv, [Next]_vars, NEW c \in Told PROVE Still(c) /\ c \in Told'
<1>1. c \in Commands /\ pc[c] = "done"
  BY DEF Told
<1>2. Still(c)
  BY <1>1, OneMoves, OwnStep DEF Call, Go, Running
<1>3. QED
  BY <1>1, <1>2 DEF Still, Told

\* What was told to a command before it was called was told.
OnlyTold == \A c \in Commands : before[c] \subseteq Told

\* A fact reported added is in the state file it was added to.
AddedWhenTold == \A d \in Told : Is(d, "fact add") => at[d] \in Incidents /\ d \in file[at[d]].facts

\* A reader that has read .mgtt-current found the open incident in it, if it
\* had been started before.
PointedRight ==
    \A c \in Commands : Is(c, "status") /\ pc[c] \in {"pointed", "done"} =>
        \A d \in before[c] : Is(d, "start") /\ ~file[On(d)].ended => at[c] = On(d)

\* A reader that has reported found every fact added before.
FoundAll ==
    \A c \in Told : Is(c, "status") =>
        \A d \in before[c] : Is(d, "fact add") /\ On(d) = at[c] => d \in copy[c].facts

Readers == StartedWhenTold /\ OnlyTold /\ AddedWhenTold /\ PointedRight /\ FoundAll

\* No step makes a command know of what was not reported.
LEMMA OnlyToldStep == ASSUME IInv, [Next]_vars, OnlyTold PROVE OnlyTold'
<1> SUFFICES ASSUME NEW c \in Commands, NEW d \in before'[c] PROVE d \in Told'
  BY DEF OnlyTold
<1>1. CASE Call(c)
  <2>1. d \in Told
    BY <1>1 DEF Call, IInv, TypeOK
  <2>2. QED
    BY <2>1, ToldStays
<1>2. CASE before'[c] = before[c]
  BY <1>2, ToldStays DEF OnlyTold
<1>3. QED
  BY <1>1, <1>2, OneMoves, OwnStep DEF Still

\* No step reports a fact that is not in its file, or loses one.
LEMMA AddedWhenToldStep == ASSUME IInv, IInv', [Next]_vars, AddedWhenTold PROVE AddedWhenTold'
<1> SUFFICES ASSUME NEW d \in Told', Is(d, "fact add")'
             PROVE  at'[d] \in Incidents /\ d \in file'[at'[d]].facts
  BY DEF AddedWhenTold
<1>1. d \in Commands /\ pc'[d] = "done"
  BY DEF Told
<1>2. CASE d \in Told
  <2>1. Still(d)
    BY <1>2, ToldStays
  <2>2. at[d] \in Incidents /\ d \in file[at[d]].facts
    BY <1>2, <2>1 DEF AddedWhenTold, Still, Is
  <2>3. Kept
    BY FilesAreKept
  <2>4. QED
    BY <2>1, <2>2, <2>3 DEF Still, Kept
<1>3. CASE d \notin Told
  <2>1. pc[d] # "done"
    BY <1>1, <1>3 DEF Told
  <2>2. Step(d) \/ Kill(d)
    BY <1>1, <2>1, OneMoves DEF Still, Call, Go, IInv, TypeOK
  <2>3. Is(d, "fact add")
    BY <1>1, <2>2, OwnStep DEF Is
  <2>4. Rename(d)
    BY <1>1, <2>2, <2>3, OwnStep DEF FillPointer, RemovePointer, Status, Is
  <2>5. /\ On(d) \in Incidents /\ file' = [file EXCEPT ![On(d)] = Edited(d)]
        /\ at'[d] = at[d] /\ On(d) = at[d]
    <3>1. pc'[d] # "failed"
      BY <1>1
    <3>2. On(d) \in Incidents /\ file' = [file EXCEPT ![On(d)] = Edited(d)]
      BY <1>1, <2>4, <3>1, RenameSaves
    <3>3. at'[d] = at[d] /\ On(d) = at[d]
      BY <2>3, <2>4 DEF Rename, On, Is
    <3>4. QED
      BY <3>2, <3>3
  <2>6. d \in Edited(d).facts
    <3>1. file[at[d]] \in State
      BY <2>5 DEF IInv, TypeOK
    <3>2. Edited(d) = [file[at[d]] EXCEPT !.facts = @ \cup {d}]
      BY <2>3 DEF Edited, Is
    <3>3. QED
      BY <3>1, <3>2 DEF State
  <2>7. DOMAIN file = Incidents
    BY DEF IInv, TypeOK
  <2>8. QED
    BY <2>5, <2>6, <2>7
<1>4. QED
  BY <1>2, <1>3

\* No step makes a reader find another incident than the open one.
LEMMA PointedRightStep ==
    ASSUME IInv, IInv', [Next]_vars, StartedWhenTold, OnlyTold, OnlyTold', PointedRight
    PROVE  PointedRight'
<1> SUFFICES ASSUME NEW c \in Commands, Is(c, "status")', pc'[c] \in {"pointed", "done"},
                    NEW d \in before'[c], Is(d, "start")', ~file'[On(d)'].ended
             PROVE  at'[c] = On(d)'
  BY DEF PointedRight
<1>1. before'[c] = before[c]
  BY OneMoves, OwnStep DEF Still, Call, Go, IInv, TypeOK
<1>2. d \in Told /\ Still(d)
  BY <1>1, ToldStays DEF OnlyTold
<1>3. Is(d, "start") /\ On(d)' = On(d) /\ On(d) \in Incidents /\ d \in Commands
  BY <1>2 DEF Still, Is, On, IInv, Knows, InOrder, Told
<1>4. ~file[On(d)].ended
  BY <1>3, FilesAreKept DEF Kept
<1>5. pointer = On(d)
  BY <1>2, <1>3, <1>4, OpenIsCurrent
<1>6. CASE ReadPointer(c)
  BY <1>3, <1>5, <1>6 DEF ReadPointer, IInv, TypeOK
<1>7. CASE Still(c)
  BY <1>1, <1>3, <1>4, <1>7 DEF PointedRight, Still, Is
<1>8. CASE (Step(c) \/ Kill(c)) /\ ~ReadPointer(c)
  <2>1. Is(c, "status") /\ pc'[c] = "done" /\ at'[c] = at[c]
    BY <1>8, OwnStep DEF Is
  <2>2. Status(c)
    BY <1>8, <2>1, OwnStep DEF FillPointer, RemovePointer, Is
  <2>3. pc[c] = "pointed"
    BY <2>2 DEF Status, Proceed, Go
  <2>4. QED
    BY <1>1, <1>3, <1>4, <2>1, <2>3 DEF PointedRight
<1>9. ~Call(c)
  BY DEF Call, Go, IInv, TypeOK
<1>10. QED
  BY <1>6, <1>7, <1>8, <1>9, OneMoves

\* No step makes a reader report less than was there before it was called.
LEMMA FoundAllStep ==
    ASSUME IInv, IInv', [Next]_vars, OnlyTold, AddedWhenTold, FoundAll
    PROVE  FoundAll'
<1> SUFFICES ASSUME NEW c \in Told', Is(c, "status")', NEW d \in before'[c],
                    Is(d, "fact add")', On(d)' = at'[c]
             PROVE  d \in copy'[c].facts
  BY DEF FoundAll
<1>1. c \in Commands /\ pc'[c] = "done" /\ ~Call(c)
  BY DEF Told, Call, Go, IInv, TypeOK
<1>2. before'[c] = before[c]
  BY <1>1, OneMoves, OwnStep DEF Still
<1>3. d \in Told /\ Still(d)
  BY <1>1, <1>2, ToldStays DEF OnlyTold
<1>4. Is(d, "fact add") /\ On(d)' = On(d) /\ On(d) = at[d]
  BY <1>3 DEF Still, Is, On
<1>5. at[d] \in Incidents /\ d \in file[at[d]].facts
  BY <1>3, <1>4 DEF AddedWhenTold
<1>6. CASE Still(c)
  BY <1>1, <1>2, <1>4, <1>6 DEF FoundAll, Still, Is, Told
<1>7. CASE Step(c) \/ Kill(c)
  <2>1. Is(c, "status") /\ Status(c)
    BY <1>1, <1>7, OwnStep DEF Is, FillPointer, RemovePointer
  <2>2. at'[c] = at[c] /\ at[c] = at[d]
    BY <1>4, <2>1 DEF Status, Proceed
  <2>3. file[at[d]].started
    <3>1. ~file[at[d]].started => file[at[d]] = NoFile
      BY <1>5 DEF IInv, NothingWithoutStart
    <3>2. NoFile.facts = {}
      BY DEF NoFile
    <3>3. QED
      BY <1>5, <3>1, <3>2
  <2>4. copy' = [copy EXCEPT ![c] = file[at[c]]]
    BY <1>5, <2>1, <2>2, <2>3 DEF Status, Loads, Proceed
  <2>5. copy'[c] = file[at[d]]
    BY <1>1, <2>2, <2>4 DEF IInv, TypeOK
  <2>6. QED
    BY <1>5, <2>5
<1>8. QED
  BY <1>1, <1>6, <1>7, OneMoves

\* What readers find, in every reachable state.
LEMMA ReadersHold == ~Parallel => (Spec => [](IInv /\ Readers))
<1> SUFFICES ASSUME ~Parallel PROVE Spec => [](IInv /\ Readers)
  OBVIOUS
<1>1. Init => OnlyTold /\ AddedWhenTold /\ PointedRight /\ FoundAll
  BY DEF Init, OnlyTold, AddedWhenTold, PointedRight, FoundAll, Told
<1>2. /\ IInv /\ IInv' /\ StartedWhenTold /\ [Next]_vars
      /\ OnlyTold /\ AddedWhenTold /\ PointedRight /\ FoundAll
      => (OnlyTold /\ AddedWhenTold /\ PointedRight /\ FoundAll)'
  BY OnlyToldStep, AddedWhenToldStep, PointedRightStep, FoundAllStep
<1>3. QED
  BY <1>1, <1>2, Invariance, StartedWhenToldHolds, PTL DEF Spec, Readers

\* A command that reads (CurrentStoreOrMemory) misses nothing that was
\* reported before it was called, whatever writes, fails or is killed beside
\* it: the incident that is open is the one it finds, with every fact.
THEOREM NothingIsMissed == ~Parallel => (Spec => []ReadersMissNothing)
<1>1. Readers => ReadersMissNothing
  <2> SUFFICES ASSUME Readers, NEW c \in Told, Is(c, "status"), NEW d \in before[c]
               PROVE  /\ Is(d, "start") /\ ~file[On(d)].ended => at[c] = On(d)
                      /\ Is(d, "fact add") /\ On(d) = at[c] => d \in copy[c].facts
    BY DEF ReadersMissNothing
  <2>1. c \in Commands /\ pc[c] = "done"
    BY DEF Told
  <2>2. QED
    BY <2>1 DEF Readers, PointedRight, FoundAll
<1>2. QED
  BY <1>1, ReadersHold, PTL

=============================================================================
