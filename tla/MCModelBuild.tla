---------------------------- MODULE MCModelBuild ---------------------------
EXTENDS ModelBuild

Comp(n, t) == [name |-> n, type |-> t]
Ans(C, E)  == [comps |-> C, edges |-> E]

K1 == Ans({Comp("api", "deploy"), Comp("db", "deploy")}, {<<"api", "db">>})
K2 == Ans({Comp("db", "deploy")}, {})
K3 == Ans({Comp("db", "deploy")}, {<<"api", "db">>})
A1 == Ans({Comp("db", "rds")}, {})
MCAnswers ==
    {r \in UNION {[S -> {K1, K2, K3, A1}] : S \in SUBSET {"k8s", "aws"}} :
        \A p \in DOMAIN r : (p = "aws") = (r[p] = A1)}
MCKeyOrder == << <<"api">>, <<"db">>, <<"deploy", "db">>, <<"rds", "db">>, <<"shop">> >>
Dep(k) == [on |-> {k}, need |-> 0, while |-> "always"]
MCWritings == {[key |-> <<"shop">>, comp |-> [source |-> "authored", type |-> "business", providers |-> {},
                 marks |-> {}, depends |-> {Dep(<<"api">>)}]],
               [key |-> <<"api">>, comp |-> [source |-> "authored", type |-> "deploy", providers |-> {},
                 marks |-> {}, depends |-> {Dep(<<"db">>)}]]}
MCFlags == {[allowDeletes |-> a, tombstone |-> t, dryRun |-> FALSE] : a \in BOOLEAN, t \in {{}, {<<"db">>}}}
   \cup {[allowDeletes |-> FALSE, tombstone |-> {}, dryRun |-> TRUE]}
=============================================================================
