-------------------------- MODULE MCStackProcesses --------------------------
(***************************************************************************)
(* Small instances of a project's stack and what leads to it: the stack's  *)
(* processes, its route through the ingress, the authority of the ingress, *)
(* and the edge link.  They share no state: a behaviour is one of the      *)
(* component that `part` names, and the others never leave their initial   *)
(* state.                                                                  *)
(***************************************************************************)
EXTENDS StackProcesses, StackRoute, EdgeLink, CaddyAuthority, TLC

Symmetry == Permutations(Pid) \cup Permutations(Project)

CONSTANTS c1, t1, t2

\* The cluster says nothing, or names the core and two endpoints of its rathole service.
ClusterSays ==
  {[core |-> NoLink, tunnel |-> NoLink, endpoints |-> {}],
   [core |-> c1, tunnel |-> t1, endpoints |-> {t1, t2}]}

\* There is no bundle, or it names the core and one address.
BundleSays == {[core |-> NoLink, tunnel |-> NoLink], [core |-> c1, tunnel |-> t1]}

VARIABLE part

StackInit ==
  /\ part \in {"processes", "route", "edge", "authority"}
  /\ Init /\ RouteInit /\ EdgeLinkInit /\ CaddyInit

StackNext ==
  \/ part = "processes" /\ Next /\ UNCHANGED <<part, routeVars, edgeVars, caddyVars>>
  \/ part = "route" /\ RouteNext /\ UNCHANGED <<part, vars, edgeVars, caddyVars>>
  \/ part = "edge" /\ EdgeLinkNext /\ UNCHANGED <<part, vars, routeVars, caddyVars>>
  \/ part = "authority" /\ CaddyNext /\ UNCHANGED <<part, vars, routeVars, edgeVars>>

StackSpec == StackInit /\ [][StackNext]_<<part, vars, routeVars, edgeVars, caddyVars>>
=============================================================================
