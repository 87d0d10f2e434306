------------------------------- MODULE MCPlan -------------------------------
(***************************************************************************)
(* `mgtt plan` on GroupShape.                                              *)
(***************************************************************************)
EXTENDS Plan, GroupShape

\* Started from the outermost component on an incident, with scenarios.yaml
\* beside the model, and attended with --component.
OnIncident == [entry |-> "web", terminal |-> FALSE, scenarios |-> FALSE, incident |-> TRUE]
Listed     == [entry |-> "web", terminal |-> FALSE, scenarios |-> TRUE, incident |-> FALSE]
Attended   == [entry |-> "a", terminal |-> TRUE, scenarios |-> FALSE, incident |-> FALSE]

AnyOptions == {OnIncident, Listed, Attended}

MCRecalled == {[on |-> "db", fact |-> "up"]}

\* What the theorems ask of a model, this one meets.
ASSUME PlanIsPlain == PlainModel(Keys) /\ Grounded /\ KnownFacts

=============================================================================
