--------------------------- MODULE MCRuntimeCleanup ---------------------------
(* Two projects on one Docker, each with its proof of concept. *)
EXTENDS RuntimeCleanup

DeployedBy == [a \in Apps |-> IF a = "web" THEN "p" ELSE "q"]
=============================================================================
