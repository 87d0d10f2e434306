------------------------------ MODULE MCGroup -------------------------------
(***************************************************************************)
(* The autopilot on GroupShape.                                            *)
(***************************************************************************)
EXTENDS Diagnose, GroupShape

\* Ways to start a run: with scenarios.yaml beside the model, or without.
Listed   == [terminal |-> TRUE, scenarios |-> TRUE, onWrite |-> "run"]
Unlisted == [Listed EXCEPT !.scenarios = FALSE]

OnlyUnlisted == {Unlisted}
AnyOptions   == {Listed, Unlisted}

\* What the theorems ask of a model, the one with provider types only meets.
ASSUME GroupIsPlain ==
    (States = MCStates => PlainModel(ReadKeys) /\ Grounded) /\ WholeOrMissing /\ NamedOnce

=============================================================================
