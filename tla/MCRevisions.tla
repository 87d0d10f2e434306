---------------------------- MODULE MCRevisions -----------------------------
(***************************************************************************)
(* A shop: web reads from cache and api, cache from api or db, api from    *)
(* db, whose failures are of two kinds.                                    *)
(***************************************************************************)
EXTENDS Revisions

State(name, triggeredBy) == [name |-> name, when |-> name, verdict |-> "", triggeredBy |-> triggeredBy]

Type(states, causes, healthy, facts) ==
    [states |-> <<State("live", {})>> \o states, default |-> "live",
     causes |-> causes, healthy |-> healthy, facts |-> facts]

Shop ==
    "site"  :> Type(<<State("down", {})>>, <<>>, {}, {"up"}) @@
    "cache" :> Type(<<State("cold", {"down"})>>, "cold" :> {"down"}, {"hits"}, {}) @@
    "app"   :> Type(<<State("late", {"slow"}), State("dead", {"down"})>>,
                    "late" :> {"slow"} @@ "dead" :> {"down"}, {"ready"}, {"up"}) @@
    "store" :> Type(<<State("slow", {}), State("gone", {})>>,
                    "slow" :> {"slow"} @@ "gone" :> {"down"}, {"ready", "room"}, {"up"})

MCRegistry ==
    "shop" :> Shop @@
    "generic" :> ("component" :> Type(<<State("stopped", {})>>, "stopped" :> {"upstream"}, {"says"}, {"says"}))

MCProviders == <<"away", "shop">>

On(targets, need, while) == [on |-> targets, need |-> need, while |-> while]
Plain(t) == On(<<t>>, 0, NoGuard)

Comp(type, depends) ==
    [type |-> [provider |-> "", name |-> type], resource |-> "", vars |-> "", depends |-> depends, healthy |-> {}, mode |-> "",
     states |-> <<>>, healthyIn |-> {}, causes |-> <<>>]

Web   == Comp("site", <<Plain("cache"), Plain("api")>>)
Cache == Comp("cache", <<Plain("db")>>)
Api   == Comp("app", <<Plain("db")>>)
Db    == Comp("store", <<>>)

OwnState(name) == [name |-> name, when |-> name, verdict |-> "broken", triggeredBy |-> {}]

MCOrder == <<"web", "cache", "api", "db">>
MCBase  == "web" :> Web @@ "cache" :> Cache @@ "api" :> Api @@ "db" :> Db

MCWritings == [n \in {"web", "cache", "api", "db"} |->
    CASE n = "web"   -> {Web, [Web EXCEPT !.depends = <<On(<<"cache", "api">>, 1, NoGuard)>>],
                         [Web EXCEPT !.depends = <<On(<<"cache", "api">>, 3, NoGuard)>>],
                         [Web EXCEPT !.depends = <<Plain("cache"), On(<<"api">>, 0, "peak")>>]}
      [] n = "cache" -> {Cache, [Cache EXCEPT !.depends = <<Plain("api")>>],
                         [Cache EXCEPT !.healthy = {"hits"}, !.mode = "replace"]}
      [] n = "api"   -> {Api, [Api EXCEPT !.depends = <<Plain("db"), Plain("web")>>],
                         [Api EXCEPT !.healthyIn = {"late"}],
                         [Api EXCEPT !.states = <<OwnState("dead")>>],
                         [Api EXCEPT !.states = <<OwnState("stuck")>>, !.causes = "stuck" :> {"slow", "down"}]}
      [] n = "db"    -> {Db, [Db EXCEPT !.type.name = "lake"], [Db EXCEPT !.type.provider = "away"],
                         [Db EXCEPT !.healthy = {"quick"}, !.mode = "add"],
                         [Db EXCEPT !.healthy = {"ready"}]}]

=============================================================================
