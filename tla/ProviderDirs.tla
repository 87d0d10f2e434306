---------------------------- MODULE ProviderDirs ----------------------------
(***************************************************************************)
(* Installed providers (internal/providersupport, internal/cli): mgtt      *)
(* provider install from source or from an image, and uninstall, as steps  *)
(* on a provider's directory that can fail or be killed, and what the      *)
(* other commands make of the directories they find.                       *)
(*                                                                         *)
(* A file's content is the release that wrote it, Missing, or Torn when    *)
(* its writing was cut short.  A directory is named for the provider,      *)
(* unless the operator named an image install himself.                     *)
(***************************************************************************)
EXTENDS Naturals, FiniteSets, Sequences

CONSTANTS
    DirOrder,   \* directory names under $MGTT_HOME/providers, as they are listed
    Types,      \* type names
    Releases,   \* published releases
    Release,    \* [name, types, hook, builds, recipes, compatible] of each
    MaxJobs     \* bound on installs and uninstalls

VARIABLES
    dirs,       \* [manifest, types, bins, method] of each directory
    job,        \* the running install or uninstall: [pc, dir, release, recipe, from]
    jobs        \* installs and uninstalls so far

providerVars == <<dirs, job, jobs>>

Dirs    == {DirOrder[i] : i \in DOMAIN DirOrder}
Missing == "missing"
Torn    == "torn"

Binaries == {"mgtt-provider", "provider"}   \* bin/mgtt-provider-<name> and bin/provider
Recipes  == {"source", "image"}
NoDir    == [manifest |-> Missing, types |-> [t \in Types |-> Missing],
             bins |-> [b \in Binaries |-> Missing], method |-> Missing]

\* What a release has fits the directories and files there are.
ASSUME ReleasesAssumption ==
    /\ Missing \notin Releases
    /\ \A r \in Releases : /\ Release[r].name \in Dirs
                           /\ Release[r].types \subseteq Types
                           /\ Release[r].builds \subseteq Binaries

Idle     == [pc |-> "idle", dir |-> Missing, release |-> Missing, recipe |-> Missing, from |-> Missing]

-----------------------------------------------------------------------------
(* Reading.                                                                *)

\* ProviderDir, ListEmbedded: a directory counts once it has a manifest.
Installed(d) == dirs[d].manifest # Missing

\* LoadFromDir: an empty manifest is refused, an empty type file is a type
\* without facts.
Loadable(d)  == dirs[d].manifest \in Releases
TypesOf(d)   == {t \in Types : dirs[d].types[t] # Missing}

\* LoadAllForUse
ForUse(d)    == Loadable(d) /\ Release[dirs[d].manifest].compatible
NameIn(d)    == Release[dirs[d].manifest].name

\* loadAll: a provider goes by the name in its manifest, and of two
\* directories with one name the last is registered.
Named(n)      == {i \in DOMAIN DirOrder : ForUse(DirOrder[i]) /\ NameIn(DirOrder[i]) = n}
Registered(n) == DirOrder[CHOOSE i \in Named(n) : \A j \in Named(n) : j <= i]

\* The types of each, by the release whose file defines them.
Registry ==
    [n \in {NameIn(d) : d \in {e \in Dirs : ForUse(e)}} |->
        [t \in TypesOf(Registered(n)) |-> dirs[Registered(n)].types[t]]]

\* ReadInstallMeta: no metadata is an install from source, and so is
\* metadata that does not parse, for all that is asked of it.
IsImage(d)   == dirs[d].method = "image"

\* runnerFor: what the probes of a provider run on.
Runner(n) ==
    CASE ~Installed(n)                  -> "shell"
      [] Installed(n) /\ IsImage(n)     -> "image"
      [] Installed(n) /\ ~IsImage(n)    ->
            IF dirs[n].bins["mgtt-provider"] # Missing THEN "binary" ELSE "shell"

-----------------------------------------------------------------------------
(* Writing.                                                                *)

\* Mutant: a file that is there is left alone.
OverlayMissing(new, old) == [f \in DOMAIN old |-> IF old[f] = Missing THEN new[f] ELSE old[f]]

\* Files written over others: what is missing leaves the old one.
Overlaid(new, old) == [f \in DOMAIN old |-> IF new[f] = Missing THEN old[f] ELSE new[f]]

Filled(S, names, content) == [f \in S |-> IF f \in names THEN content ELSE Missing]

Here        == dirs[job.dir]
Advance(to) == job' = [job EXCEPT !.pc = to] /\ UNCHANGED jobs
Finish      == job' = Idle /\ UNCHANGED jobs  \* all that is left is the files
Leave(dir)  == dirs' = [dirs EXCEPT ![job.dir] = dir]

ProviderInit == dirs = [d \in Dirs |-> NoDir] /\ job = Idle /\ jobs = 0

Free == job.pc \in {"idle", "installed"}

Job == Free /\ jobs < MaxJobs /\ jobs' = jobs + 1

Begin(d, r, recipe, from) ==
    /\ Job
    /\ job' = IF recipe \in Release[r].recipes
              THEN [pc |-> "manifest", dir |-> d, release |-> r, recipe |-> recipe, from |-> from]
              ELSE Idle
    /\ UNCHANGED dirs

\* From a git URL, a path or the registry.
InstallSource(r) == Begin(Release[r].name, r, "source", Missing)

\* A bare name that is installed resolves to its directory, and is copied
\* from there: as a rule onto itself.
InstallAgain(d) == Loadable(d) /\ Begin(NameIn(d), dirs[d].manifest, "source", d)

\* --image, under the manifest's name or one given with it.
InstallImage(r, d) == Begin(d, r, "image", Missing)

\* What is copied: the files of a release, or of the directory it is in.
Source ==
    IF job.from # Missing THEN dirs[job.from]
    ELSE [NoDir EXCEPT !.types = Filled(Types, Release[job.release].types, job.release)]

\* The types after those in S were copied.
Copied(S) == Overlaid([t \in Types |-> IF t \in S THEN Source.types[t] ELSE Missing], Here.types)

\* copyDir and writeImageInstall: the types last.
WriteManifest ==
    /\ job.pc = "manifest"
    /\ Leave([Here EXCEPT !.manifest = job.release,
                          !.bins     = Overlaid(Source.bins, @),
                          !.method   = IF Source.method = Missing THEN @ ELSE Source.method])
    /\ Advance("types")

WriteTypes ==
    /\ job.pc = "types"
    /\ Leave([Here EXCEPT !.types = Copied(Types)])
    /\ Advance(IF job.recipe = "image" THEN "meta" ELSE "build")

\* runSourceBuildHook
Build ==
    /\ job.pc = "build"
    /\ Leave(IF Release[job.release].hook
             THEN [Here EXCEPT !.bins = Overlaid(Filled(Binaries, Release[job.release].builds, job.release), @)]
             ELSE Here)
    /\ Advance("meta")

\* What a step leaves that fails or dies on the way: a file torn, some of
\* the files copied, some of the binaries built.
CutShort ==
    \/ UNCHANGED dirs
    \/ job.pc = "manifest" /\ Leave([Here EXCEPT !.manifest = Torn])
    \/ job.pc = "types" /\ \E S \in SUBSET Types, torn \in SUBSET Types :
          /\ torn \subseteq {t \in Types \ S : Source.types[t] # Missing} /\ Cardinality(torn) <= 1
          /\ Leave([Here EXCEPT !.types = [t \in Types |-> IF t \in torn THEN Torn ELSE Copied(S)[t]]])
    \/ job.pc = "build" /\ \E b \in Release[job.release].builds :
          Leave([Here EXCEPT !.bins[b] = job.release])
    \/ job.pc = "meta" /\ Leave([Here EXCEPT !.method = Torn])

\* A file cannot be read, extracted or written, or the hook fails.
StepFails ==
    /\ job.pc \in {"manifest", "types", "build", "meta"}
    /\ job.pc = "build" => Release[job.release].hook
    /\ job.pc = "meta" => job.recipe = "image"
    /\ CutShort /\ Finish

\* WriteInstallMeta; without it an install from source still succeeds.
WriteMeta ==
    /\ job.pc = "meta"
    /\ \/ Leave([Here EXCEPT !.method = job.recipe])
       \/ job.recipe = "source" /\ CutShort
    /\ Advance("installed")

\* uninstallProvider: whatever the manifest says, the directory goes;
Uninstall(d) ==
    /\ Job /\ Installed(d)
    /\ job' = [Idle EXCEPT !.pc = "removing", !.dir = d]
    /\ UNCHANGED dirs

\* its files in no particular order.
Remove == job.pc = "removing" /\ Leave(NoDir) /\ Finish

Die ==
    /\ ~Free
    /\ \/ CutShort
       \/ /\ job.pc = "removing"
          /\ \E types \in SUBSET Types, bins \in SUBSET Binaries, manifest, method \in BOOLEAN :
                Leave([manifest |-> IF manifest THEN Here.manifest ELSE Missing,
                       method   |-> IF method THEN Here.method ELSE Missing,
                       types    |-> [t \in Types |-> IF t \in types THEN Here.types[t] ELSE Missing],
                       bins     |-> [b \in Binaries |-> IF b \in bins THEN Here.bins[b] ELSE Missing]])
    /\ Finish

ProviderNext ==
    \/ \E r \in Releases : InstallSource(r)
    \/ \E d \in Dirs : InstallAgain(d) \/ Uninstall(d)
    \/ \E r \in Releases, d \in Dirs : InstallImage(r, d)
    \/ WriteManifest \/ WriteTypes \/ Build \/ StepFails \/ WriteMeta \/ Remove \/ Die

ProviderSpec == ProviderInit /\ [][ProviderNext]_providerVars

-----------------------------------------------------------------------------
(* What an install promises.                                               *)

Installs == job.pc = "installed" /\ job.from = Missing

\* An install of a release that reports success left a whole provider,
\* whatever earlier installs and uninstalls left when they failed or were
\* killed: its manifest, every type of the release, every binary its hook
\* builds, and probes run on the image if it is one (installProvider,
\* installFromImage).
InstalledIsWhole ==
    Installs => /\ Here.manifest = job.release
                /\ \A t \in Release[job.release].types : Here.types[t] = job.release
                /\ job.recipe = "image" => Runner(job.dir) = "image"
                /\ job.recipe = "source" /\ Release[job.release].hook =>
                      \A b \in Release[job.release].builds : Here.bins[b] = job.release

=============================================================================
