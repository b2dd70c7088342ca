----------------------------- MODULE MCMcpDaemon -----------------------------
(* Small instances of McpDaemon. *)
EXTENDS McpDaemon, TLC

Symmetry == Permutations(Cli)
=============================================================================
