------------------------- MODULE MCIncidentCommands -------------------------
(***************************************************************************)
(* A few command lines around one .mgtt-current.                           *)
(***************************************************************************)
EXTENDS IncidentCommands, TLC

Interchangeable == Permutations(Commands) \cup Permutations(Incidents)

=============================================================================
