-------------------------- MODULE MCIncidentServer --------------------------
(***************************************************************************)
(* Small agent servers.                                                    *)
(***************************************************************************)
EXTENDS IncidentServer, TLC

Interchangeable == Permutations(Requests)

AllTools == Tools

=============================================================================
