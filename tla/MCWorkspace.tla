---------------------------- MODULE MCWorkspace -----------------------------
(***************************************************************************)
(* A provider with two releases: the second drops a type, changes another  *)
(* and may not build; both come as an image too.  Two models, of which one *)
(* uses the dropped type, and may drop it too or opt out of scenarios.     *)
(***************************************************************************)
EXTENDS Workspace

R(name, types, hook, builds, recipes, compatible) ==
    [name |-> name, types |-> types, hook |-> hook, builds |-> builds,
     recipes |-> recipes, compatible |-> compatible]

MCDirOrder == <<"k8s">>
MCRelease == [r \in Releases |->
    CASE r = "k1" -> R("k8s", {"deploy", "svc"}, TRUE, {"mgtt-provider"}, Recipes, TRUE)
      [] r = "k2" -> R("k8s", {"deploy"}, FALSE, {}, {"source"}, TRUE)]

C(name, optsOut, body) == [name |-> name, optsOut |-> optsOut, body |-> body]
MCModelOrder == <<"api/model.yaml", "web/model.yaml">>
MCFolder == [m \in {"api/model.yaml", "web/model.yaml"} |-> IF m = "api/model.yaml" THEN "api" ELSE "web"]
MCContents == [m \in {"api/model.yaml", "web/model.yaml"} |->
    IF m = "api/model.yaml" THEN {C("api", FALSE, "deploy")}
    ELSE {C("web", FALSE, "svc"), C("web", FALSE, "deploy"), C("web", TRUE, "svc")}]

\* A model builds the states of the types it uses; it is invalid when it
\* uses one no provider has.
MCTypes(c, types) == IF "k8s" \in DOMAIN types /\ c.body \in DOMAIN types["k8s"] THEN types["k8s"][c.body] ELSE Missing
MCGraphOf(c, types) == <<"graph", c.body, MCTypes(c, types)>>
MCIsValid(c, types) == MCTypes(c, types) # Missing
=============================================================================
