------------------------------ MODULE EdgeLink -------------------------------
(***************************************************************************)
(* The edge link of one project in detail (edge_link.py, daemon.py): where *)
(* its settings come from, which containers they become, and what is asked *)
(* of them and of the external core before a start or a validation is      *)
(* reported.  ProfileRuntime has the same link by its containers and its   *)
(* record only, together with the profile in the same namespace.           *)
(***************************************************************************)
EXTENDS Naturals, Sequences, SequencesExt, FiniteSets

CONSTANTS
  Core,       \* external cores, by their controller_url
  Tunnel,     \* addresses of rathole servers
  CellNodes,  \* nodes of a cell besides its gateway (AI_MAX_EDGE_CELL_NODE_COUNT)
  Cells,      \* sizes of a fabric that are supported, in cells
  Clusters,   \* what a MicroK8s cluster may say: core, tunnel, endpoints of its rathole service
  Bundles,    \* what a bundle may say: core and tunnel
  NoLink,     \* no link, no container, and a setting that is not given
  MaxExits    \* bound: containers that exit

ASSUME EdgeLinkAssumption ==
  /\ NoLink \notin Core \cup Tunnel /\ CellNodes \in Nat \ {0}
  /\ Cells \subseteq Nat \ {0} /\ 1 \in Cells /\ MaxExits \in Nat
  /\ NoLink \notin [core : Core, tunnels : SUBSET Tunnel, cells : Nat] /\ IsFiniteSet(Tunnel)
  /\ Clusters \subseteq [core : Core \cup {NoLink}, tunnel : Tunnel \cup {NoLink},
                         endpoints : SUBSET Tunnel]
  /\ Bundles \subseteq [core : Core \cup {NoLink}, tunnel : Tunnel \cup {NoLink}]

VARIABLES
  link,      \* k1s-edge-link.json: the settings of the link, or NoLink
  container, \* the containers by component: what each was told, and whether it runs
  nodes,     \* [Core -> the nodes the core has a record of]
  fresh,     \* those of them the link's core has seen since started_at, during a start
  own,       \* history: those heard from a container of this start
  at,        \* where the handler with the project's lock is
  command,   \* what it was called for
  want,      \* the settings they amount to
  todo,      \* components it has still to remove or to start
  launched,  \* components it has started
  started,   \* it has started the link anew
  ok,        \* no check of this start or validation has failed
  exits

edgeVars == <<link, container, nodes, fresh, own, at, command, want, todo, launched,
              started, ok, exits>>

-----------------------------------------------------------------------------
(* Settings, and what they ask for. *)

\* A legacy link has one node and no contract; a fabric of n cells has the gateways and
\* the nodes of all its cells (cells = 0 stands for cell_node_count = 0).
NodesOf(cells) ==
  IF cells = 0 THEN {<<1, 0>>} ELSE (1 .. cells) \X (0 .. CellNodes)

\* compute_node_ids of the contract, which a legacy link does not have.
ComputeNodes(cells) == IF cells = 0 THEN {} ELSE NodesOf(cells)

GatewayNode == <<1, 0>>

\* The sizes that are not refused: cell_node_count is 0 or CellNodes, and several cells
\* need cell nodes.
Supported(count, cells) ==
  /\ count \in {0, CellNodes} /\ cells \in Cells
  /\ cells = 1 \/ count = CellNodes

First(a, b, c) == IF a # NoLink THEN a ELSE IF b # NoLink THEN b ELSE c

\* What is said explicitly wins over the bundle, the bundle over what the cluster says;
\* but the cluster's rathole endpoints, when it has any, win over one address from anywhere.
Resolve(g) ==
  [core |-> First(g.manual.core, g.bundle.core, g.kube.core),
   tunnels |-> IF g.kube.endpoints # {} THEN g.kube.endpoints
               ELSE {First(g.manual.tunnel, g.bundle.tunnel, g.kube.tunnel)} \ {NoLink},
   cells |-> IF g.count = 0 THEN 0 ELSE g.cells]

Complete(g) ==
  /\ First(g.manual.core, g.bundle.core, g.kube.core) # NoLink
  /\ First(g.manual.tunnel, g.bundle.tunnel, g.kube.tunnel) # NoLink

\* The settings a running link is compared by: the core and its token are not among them.
SameLink(a, b) == a.tunnels = b.tunnels /\ a.cells = b.cells

\* Components in the order they are started.
Components(w) ==
  IF w = NoLink THEN <<>>
  ELSE <<<<"nats">>>> \o SetToSeq({<<"rathole", t>> : t \in w.tunnels}) \o <<<<"gateway">>>>
       \o <<<<"node", GatewayNode>>>>
       \o SetToSeq({<<"node", n>> : n \in NodesOf(w.cells) \ {GatewayNode}})

\* What a component is told. NATS leafs to the core, a rathole client tunnels to one
\* address, the gateway knows the core, and a node reports to the core under its name.
NatsConfig(w) == [core |-> w.core]
RatholeConfig(t) == [tunnel |-> t]
GatewayConfig(w) == [core |-> w.core]
NodeConfig(w, n) == [core |-> w.core, node |-> n]

Config(w, k) ==
  CASE k[1] = "nats" -> NatsConfig(w)
    [] k[1] = "rathole" -> RatholeConfig(k[2])
    [] k[1] = "gateway" -> GatewayConfig(w)
    [] k[1] = "node" -> NodeConfig(w, k[2])

Running(w) ==
  w # NoLink /\ \A k \in ToSet(Components(w)) :
                   k \in DOMAIN container /\ container[k].up

-----------------------------------------------------------------------------

LinkNodes == UNION {NodesOf(n) : n \in Cells \cup {0}}
LinkSettings == [core : Core, tunnels : SUBSET Tunnel, cells : Cells \cup {0}]
LinkComponents ==
  {<<"nats">>, <<"gateway">>} \cup ({"rathole"} \X Tunnel) \cup ({"node"} \X LinkNodes)
LinkConfigs == [core : Core] \cup [tunnel : Tunnel] \cup [core : Core, node : LinkNodes]

\* A link is settings, and its containers are components that were told of a core or a tunnel.
EdgeLinkTypeOK ==
  /\ link \in LinkSettings \cup {NoLink} /\ want \in LinkSettings \cup {NoLink}
  /\ DOMAIN container \subseteq LinkComponents
  /\ \A k \in DOMAIN container : container[k] \in [told : LinkConfigs, up : BOOLEAN]
  /\ nodes \in [Core -> SUBSET LinkNodes] /\ fresh \subseteq LinkNodes /\ own \subseteq LinkNodes
  /\ at \in {"idle", "compare", "stop", "remove", "prepare", "launch", "core", "components",
             "node", "cells", "ready", "checks", "reported"}
  /\ command \in {"none", "start", "validate", "stop", "purge"}
  /\ ToSet(todo) \subseteq LinkComponents /\ launched \subseteq LinkComponents
  /\ started \in BOOLEAN /\ ok \in BOOLEAN /\ exits \in 0 .. MaxExits

EdgeLinkInit ==
  /\ link = NoLink /\ container = <<>>
  /\ nodes = [c \in Core |-> {}] /\ fresh = {} /\ own = {}
  /\ at = "idle" /\ command = "none" /\ want = NoLink /\ todo = <<>>
  /\ launched = {}
  /\ started = FALSE /\ ok = TRUE /\ exits = 0

outside == <<container, nodes, exits>>
seen == <<fresh, own>>
progress == <<want, todo, launched, started>>
Step(s) == at' = s /\ UNCHANGED command

\* The cluster, a bundle and the options give an address each, or none.
Sources ==
  [kube : Clusters, bundle : Bundles,
   manual : [core : Core \cup {NoLink}, tunnel : Tunnel \cup {NoLink}],
   count : 0 .. CellNodes + 1, cells : Cells]

\* A start or a validation is called; it holds the project's lock until it returns.
\* Settings that are refused, or are not all given, change nothing.
Asked(c) ==
  /\ at = "idle" /\ at' = "compare" /\ command' = c
  /\ \E g \in Sources : Supported(g.count, g.cells) /\ Complete(g) /\ want' = Resolve(g)
  /\ UNCHANGED <<link, outside, seen, todo, launched, started, ok>>

EdgeStart == Asked("start")

EdgeValidate == Asked("validate")

\* A stop needs no settings, and a purge is a stop that takes the directory as well.
EdgeStop ==
  /\ at = "idle" /\ at' = "stop" /\ command' \in {"stop", "purge"}
  /\ UNCHANGED <<link, outside, seen, progress, ok>>

\* The handler returns, or raises and leaves what it has done.
EdgeLeaves ==
  /\ at' = "idle" /\ command' = "none" /\ want' = NoLink /\ todo' = <<>>
  /\ launched' = {} /\ started' = FALSE /\ ok' = TRUE /\ fresh' = {} /\ own' = {}

Compare ==
  /\ at = "compare"
  /\ IF link # NoLink /\ SameLink(link, want) /\ Running(link)
       THEN Step(IF command = "start" THEN "reported" ELSE "checks")
       ELSE Step(IF link = NoLink THEN "prepare" ELSE "stop")
  /\ UNCHANGED <<link, ok, progress, outside, seen>>

-----------------------------------------------------------------------------
(* Stop, on its own or before a start. *)

BeginStop ==
  /\ at = "stop"
  /\ Step("remove") /\ todo' = Reverse(Components(link))
  /\ UNCHANGED <<link, want, launched, started, ok, outside, seen>>

\* A failure to remove is reported by a stop, and ignored by a start.
RemoveComponent ==
  /\ at = "remove" /\ todo # <<>>
  /\ todo' = Tail(todo) /\ Step("remove")
  /\ \/ container' = [k \in DOMAIN container \ {Head(todo)} |-> container[k]]
     \/ UNCHANGED container
  /\ UNCHANGED <<link, nodes, exits, want, launched, started, ok, seen>>

\* The record is unlinked, or goes with the whole directory when everything is purged.
ForgetLink ==
  /\ at = "remove" /\ todo = <<>>
  /\ link' = NoLink
  /\ Step(IF command \in {"start", "validate"} THEN "prepare" ELSE "reported")
  /\ UNCHANGED <<progress, ok, outside, seen>>

-----------------------------------------------------------------------------
(* Start. *)

\* Directories, the network, the images (a build that fails is replaced by the plain
\* image, unless builds are strict), ports and the address to advertise.
Prepare ==
  /\ at = "prepare"
  /\ \/ /\ Step("launch") /\ todo' = Components(want)
        /\ UNCHANGED <<want, launched, started, ok, seen>>
     \/ EdgeLeaves
  /\ UNCHANGED <<link, outside>>

\* `rm -f` of the old container of that name, and `run`, which fails while the name is taken.
LaunchComponent ==
  /\ at = "launch" /\ todo # <<>>
  /\ LET k == Head(todo) IN
     \/ /\ container' = [i \in DOMAIN container \cup {k} |->
                           IF i = k THEN [told |-> Config(want, k), up |-> TRUE] ELSE container[i]]
        /\ todo' = Tail(todo) /\ launched' = launched \cup {k}
        /\ Step("launch") /\ UNCHANGED <<want, started, ok, seen>>
     \/ /\ EdgeLeaves
        /\ \/ container' = [i \in DOMAIN container \ {k} |-> container[i]]
           \/ UNCHANGED container
  /\ UNCHANGED <<link, nodes, exits>>

\* The record, with the time of the start taken just before.
RecordLink ==
  /\ at = "launch" /\ todo = <<>>
  /\ link' = want /\ started' = TRUE
  /\ Step("core")
  /\ UNCHANGED <<outside, want, todo, launched, ok, seen>>

\* A check passes when what it looks for is there, and may fail at the deadline or because
\* the core does not answer.
Passes(condition) == ok' \in {FALSE, ok /\ condition}

\* Mutant of Seen: any record of the node will do.
SeenEver(ns) == ns \subseteq nodes[link.core]

\* The nodes with a record no older than the start.
Seen(ns) == ns \subseteq fresh

\* _wait_ready: the core, the containers, the node, and the nodes of the cells.
AwaitCore ==
  /\ at = "core" /\ Step("components")
  /\ Passes(TRUE)
  /\ UNCHANGED <<link, progress, outside, seen>>

CheckComponents ==
  /\ at = "components" /\ Step("node")
  /\ Passes(Running(link))
  /\ UNCHANGED <<link, progress, outside, seen>>

AwaitNode ==
  /\ at = "node" /\ Step("cells")
  /\ Passes(Seen({GatewayNode}))
  /\ UNCHANGED <<link, progress, outside, seen>>

AwaitCells ==
  /\ at = "cells" /\ Step("ready")
  /\ Passes(Seen(ComputeNodes(link.cells)))
  /\ UNCHANGED <<link, progress, outside, seen>>

Started ==
  /\ at = "ready"
  /\ Step(IF command = "start" THEN "reported" ELSE "checks")
  /\ UNCHANGED <<link, progress, ok, outside, seen>>

\* validate goes on to ask for the containers, the core, the nodes, whatever the age of
\* their records, and the GPU, whose smoke test needs the node.
ValidateLink ==
  /\ at = "checks" /\ Step("reported")
  /\ Passes(Running(link) /\ {GatewayNode} \cup ComputeNodes(link.cells) \subseteq nodes[link.core])
  /\ UNCHANGED <<link, progress, outside, seen>>

EdgeReported ==
  /\ at = "reported" /\ EdgeLeaves
  /\ UNCHANGED <<link, outside>>

-----------------------------------------------------------------------------
(* The containers, the core, and the end of the daemon. *)

handler == <<at, command, progress, ok>>

\* A node that runs reports to its core.
NodeReports ==
  /\ \E k \in DOMAIN container :
       /\ k[1] = "node" /\ container[k].up
       /\ LET c == container[k].told.core IN
          /\ nodes' = [nodes EXCEPT ![c] = @ \cup {k[2]}]
          /\ fresh' = IF started /\ link.core = c THEN fresh \cup {k[2]} ELSE fresh
          /\ own' = IF started /\ k \in launched THEN own \cup {k[2]} ELSE own
  /\ UNCHANGED <<link, container, exits, handler>>

\* A container exits, and containerd restarts it (--restart unless-stopped).
ComponentExits ==
  /\ exits < MaxExits /\ exits' = exits + 1
  /\ \E k \in DOMAIN container : container[k].up /\ container' = [container EXCEPT ![k].up = FALSE]
  /\ UNCHANGED <<link, nodes, seen, handler>>

ComponentRestarts ==
  /\ \E k \in DOMAIN container : ~container[k].up /\ container' = [container EXCEPT ![k].up = TRUE]
  /\ UNCHANGED <<link, nodes, seen, exits, handler>>

HandlerDies ==
  /\ at # "idle" /\ EdgeLeaves
  /\ UNCHANGED <<link, outside>>

EdgeLinkNext ==
  \/ EdgeStart \/ EdgeValidate \/ EdgeStop \/ Compare \/ BeginStop \/ RemoveComponent \/ ForgetLink
  \/ Prepare \/ LaunchComponent \/ RecordLink \/ AwaitCore \/ CheckComponents \/ AwaitNode
  \/ AwaitCells \/ Started \/ ValidateLink \/ EdgeReported
  \/ NodeReports \/ ComponentExits \/ ComponentRestarts \/ HandlerDies

EdgeLinkSpec == EdgeLinkInit /\ [][EdgeLinkNext]_edgeVars

-----------------------------------------------------------------------------
(* What it promises. *)

\* A start or validation that reports success has the containers of the size and the
\* tunnels that were asked for; and one that has started them has heard from each of their
\* nodes since, and not from a container of an earlier start: "edge-link start waits for a
\* fresh post-start node heartbeat so short restart windows do not produce a false
\* success" (docs/k1s-dev-workflow.md:160).  A start that finds the link running answers at
\* once, for the core the link was started with, and has heard from nobody
\* (start: `info.site_id == site and ...`).
LinkIsHeard ==
  at = "reported" /\ command \in {"start", "validate"} /\ ok =>
    /\ \A k \in ToSet(Components(want)) :
         k \in DOMAIN container /\ (started => container[k].told = Config(want, k))
    /\ started => {GatewayNode} \cup ComputeNodes(want.cells) \subseteq own
=============================================================================
