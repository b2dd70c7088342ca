---------------------------- MODULE MCBackground ----------------------------
(***************************************************************************)
(* Small instances of the components whose operations have to end - the    *)
(* project lock, the background MCP daemon, the privilege helper and the   *)
(* dashboard's jobs - and of a project's runbook.  They share no state: a  *)
(* behaviour is one of the component that `part` names, and the others     *)
(* never leave their initial state.                                        *)
(***************************************************************************)
EXTENDS ProjectLock, McpDaemon, ContainerdHelper, DashboardJobs, Runbook

CONSTANTS t1, t2, cli1, cli2, daemon, shell1, shell2

\* Two threads of the daemon, and two commands.
MCProcOf == [a \in Actor |-> CASE a \in {t1, t2} -> daemon
                               [] a = cli1 -> shell1
                               [] a = cli2 -> shell2]

VARIABLE part

backgroundVars == <<part, vars, mcpVars, helperVars, jobsVars, runbookVars>>

BackgroundInit ==
  /\ part \in {"lock", "daemon", "helper", "jobs", "runbook"}
  /\ Init /\ McpInit /\ HelperInit /\ JobsInit /\ RunbookInit

BackgroundNext ==
  \/ /\ part = "lock" /\ Next
     /\ UNCHANGED <<part, mcpVars, helperVars, jobsVars, runbookVars>>
  \/ /\ part = "daemon" /\ McpNext
     /\ UNCHANGED <<part, vars, helperVars, jobsVars, runbookVars>>
  \/ /\ part = "helper" /\ HelperNext
     /\ UNCHANGED <<part, vars, mcpVars, jobsVars, runbookVars>>
  \/ /\ part = "jobs" /\ JobsNext
     /\ UNCHANGED <<part, vars, mcpVars, helperVars, runbookVars>>
  \/ /\ part = "runbook" /\ RunbookNext
     /\ UNCHANGED <<part, vars, mcpVars, helperVars, jobsVars>>

\* No fair step of a component is enabled in its initial state: those of the
\* components that stand still ask for nothing.
BackgroundSpec ==
  /\ BackgroundInit /\ [][BackgroundNext]_backgroundVars
  /\ Fairness /\ McpFairness /\ HelperFairness /\ JobsFairness
=============================================================================
