---------------------------- MODULE MCDeployment ----------------------------
(* A small instance of Deployment: a front end, an interface it refers to, *)
(* and a database the interface refers to.                                 *)
EXTENDS Deployment

Reference == {<<"web", "api">>, <<"api", "db">>}
Stage3 == {{"web", "api", "db"}, {"api", "db"}, {"web", "db"}}
=============================================================================
