----------------------------- MODULE Workspace ------------------------------
(***************************************************************************)
(* The providers installed and the models written beside each other: what  *)
(* a model's failure graph is depends on the types in the provider         *)
(* directories as a command finds them, whatever an install or uninstall   *)
(* left there.                                                             *)
(***************************************************************************)
EXTENDS ProviderDirs, Sidecar

CONSTANT MaxChanges     \* bound on jobs and edits together

workspaceVars == <<providerVars, sidecarVars>>

WorkspaceInit == ProviderInit /\ SidecarInit(Registry)

\* What a command said holds for the types it found.
ProviderStep ==
    /\ ProviderNext /\ jobs' + edits <= MaxChanges
    /\ cmd' = IF Registry' = Registry THEN cmd ELSE Disturbed
    /\ UNCHANGED <<models, sidecars, index, edits>>

ModelStep ==
    /\ \E types \in {Registry} : SidecarNext(types)
    /\ jobs + edits' <= MaxChanges
    /\ UNCHANGED providerVars

WorkspaceNext == ProviderStep \/ ModelStep

WorkspaceSpec == WorkspaceInit /\ [][WorkspaceNext]_workspaceVars

=============================================================================
