---------------------------- MODULE MCProjectLock ----------------------------
(* Small instances of ProjectLock: two threads of the daemon, and CLIs. *)
EXTENDS ProjectLock

CONSTANTS t1, t2, cli1, cli2, daemon, shell1, shell2

MCProcOf == [a \in Actor |-> CASE a \in {t1, t2} -> daemon
                               [] a = cli1 -> shell1
                               [] a = cli2 -> shell2]
=============================================================================
