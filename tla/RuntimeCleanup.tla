---------------------------- MODULE RuntimeCleanup ----------------------------
(***************************************************************************)
(* What a stack leaves in its container runtime and how it is cleaned up   *)
(* (supervisor.py, runtime_support.py).  The controller of a running stack *)
(* keeps a container for every app it was given.  A stop terminates the    *)
(* controller, lists the project's containers and removes them; a purge    *)
(* removes the network and the state directory as well.  Docker (and       *)
(* Podman, which is driven alike) has one store for the host, where        *)
(* containers are told apart by labels; containerd has a namespace for     *)
(* each project.  The results of most commands are not looked at.          *)
(* Handlers of one project are serialised by its lock; the clean-up of the *)
(* whole state root (`workerbee cleanup`) takes none.                      *)
(***************************************************************************)
EXTENDS FiniteSets

CONSTANTS
  Owner, Apps, \* projects, and what is deployed
  OwnerOf,     \* the project an app is deployed by
  NamespaceOf, \* the namespace of its containers: the project's name, another, or
  PocApps,     \*   the one all proofs of concept share
  LabelledApps \* apps whose image WorkerBee built: it bears the labels of project and root

CONSTANT NoRuntime

Runtime == {"docker", "containerd"}
PocNamespace == "workerbee-poc"

ASSUME CleanupAssumption ==
  /\ OwnerOf \in [Apps -> Owner]
  /\ PocApps \cup LabelledApps \subseteq Apps
  /\ NoRuntime \notin Runtime

VARIABLES
  containers, \* the containers of each runtime, by app
  networks,   \* the project networks of each runtime
  stack,      \* the runtime in the project's stack.json
  controlled, \* the projects with a controller under the address in stack.json
  identified, \* those of them whose process id is in stack.json
  strays,     \* the runtimes and projects of controllers that no stack.json leads to
  specs,      \* the apps the controllers were given, in the state directories
  handler,    \* the handler of each project
  sweep,      \* the clean-up of the state root
  done        \* history: what the project's last stop has reported, while nothing was
              \* started and no stray ran in that runtime

controllers == <<controlled, identified, strays>>
cleanupVars == <<containers, networks, stack, controllers, specs, handler, sweep, done>>

Resting == [at |-> "idle", runtime |-> NoRuntime, purge |-> FALSE, restart |-> FALSE,
            reset |-> FALSE, listed |-> {}, failed |-> FALSE]
Asleep == [at |-> "idle", runtime |-> NoRuntime, scope |-> {}, listed |-> {}]
NothingDone == [runtime |-> NoRuntime, purge |-> FALSE]

\* What runs and what is on record belongs to projects and apps that there are.
CleanupTypeOK ==
  /\ containers \subseteq Runtime \X Apps /\ networks \subseteq Runtime \X Owner
  /\ stack \in [Owner -> Runtime \cup {NoRuntime}]
  /\ controlled \subseteq Owner /\ identified \subseteq controlled /\ strays \subseteq Runtime \X Owner
  /\ specs \subseteq Apps
  /\ handler \in
       [Owner -> [at : {"idle", "kill", "list", "remove", "network", "record", "labels",
                        "ensure", "launch", "popen", "pid"},
                  runtime : Runtime \cup {NoRuntime}, purge : BOOLEAN, restart : BOOLEAN,
                  reset : BOOLEAN, listed : SUBSET (Runtime \X Apps), failed : BOOLEAN]]
  /\ sweep \in [at : {"idle", "remove", "networks"}, runtime : Runtime \cup {NoRuntime},
                scope : SUBSET Owner, listed : SUBSET (Runtime \X Apps)]
  /\ done \in [Owner -> [runtime : Runtime \cup {NoRuntime}, purge : BOOLEAN]]

CleanupInit ==
  /\ containers = {} /\ networks = {} /\ specs = {}
  /\ controlled = {} /\ identified = {} /\ strays = {}
  /\ stack = [p \in Owner |-> NoRuntime]
  /\ handler = [p \in Owner |-> Resting]
  /\ sweep = Asleep
  /\ done = [p \in Owner |-> NothingDone]

-----------------------------------------------------------------------------

NamespaceIn(a) == IF a \in PocApps THEN PocNamespace ELSE NamespaceOf[a]

\* _project_cleanup_label_filters: the label of the project, and the namespaces of the
\* proofs of concept and of the project's name.
Labelled(p, a, byNamespace) ==
  \/ a \in LabelledApps /\ OwnerOf[a] = p
  \/ byNamespace /\ NamespaceIn(a) \in {PocNamespace, p}

\* What ps lists for a project.
Listed(p, r, byNamespace) ==
  {c \in containers : /\ c[1] = r
                      /\ IF r = "docker" THEN Labelled(p, c[2], byNamespace)
                                         ELSE OwnerOf[c[2]] = p}

\* A network goes when no container uses it.
Unused(r, p) == ~\E a \in Apps : <<r, a>> \in containers /\ OwnerOf[a] = p

Enter(p, h) == handler' = [handler EXCEPT ![p] = h]
StepTo(p, at) == handler' = [handler EXCEPT ![p].at = at]
NothingReported(p) == done' = [done EXCEPT ![p] = NothingDone]

\* start, unless it finds a stack that it leaves alone: what is on record is stopped first.
BeginStart(p) ==
  /\ handler[p].at = "idle"
  /\ \E r \in Runtime :
       Enter(p, [Resting EXCEPT !.at = IF stack[p] = NoRuntime THEN "labels" ELSE "kill",
                                !.runtime = r, !.restart = TRUE])
  /\ NothingReported(p)
  /\ UNCHANGED <<containers, networks, stack, controllers, specs, sweep>>

\* stop(purge), on the runtime on record or, when there is none, the one asked for.
BeginStop(p) ==
  /\ handler[p].at = "idle"
  /\ \E r \in Runtime, purge \in BOOLEAN :
       /\ stack[p] \in {r, NoRuntime}
       /\ Enter(p, [Resting EXCEPT !.at = "kill", !.runtime = r, !.purge = purge])
  /\ UNCHANGED <<containers, networks, stack, controllers, specs, sweep, done>>

\* _reset_poc: the apps of the proof of concept are deleted, then everything is removed
\* under a controller that goes on.
BeginReset(p) ==
  /\ handler[p].at = "idle" /\ p \in controlled
  /\ Enter(p, [Resting EXCEPT !.at = "list", !.runtime = stack[p], !.reset = TRUE])
  /\ specs' = {a \in specs : ~(OwnerOf[a] = p /\ a \in PocApps)}
  /\ UNCHANGED <<containers, networks, stack, controllers, sweep, done>>

Cleaning(p) == IF stack[p] = NoRuntime THEN handler[p].runtime ELSE stack[p]

\* The process on record is terminated.  A controller whose id is not on record goes on,
\* and stack.json, which has its address, goes.
LoseController(p) ==
  /\ controlled' = controlled \ {p}
  /\ strays' = IF p \in controlled \ identified THEN strays \cup {<<stack[p], p>>} ELSE strays
  /\ identified' = identified \ {p}

\* Mutant of KillController: a purge with no stack on record cleans nothing.
KillRecordedController(p) ==
  /\ handler[p].at = "kill"
  /\ LoseController(p)
  /\ StepTo(p, IF stack[p] # NoRuntime THEN "list" ELSE "record")
  /\ UNCHANGED <<containers, networks, stack, specs, sweep, done>>

\* The controller goes before its containers. With nothing on record only a purge of
\* containerd goes on.
KillController(p) ==
  /\ handler[p].at = "kill"
  /\ LoseController(p)
  /\ StepTo(p, IF stack[p] # NoRuntime \/ (handler[p].purge /\ handler[p].runtime = "containerd")
             THEN "list" ELSE "record")
  /\ UNCHANGED <<containers, networks, stack, specs, sweep, done>>

\* ps -aq; one that fails lists nothing.
ListContainers(p) ==
  /\ handler[p].at = "list"
  /\ \/ handler' = [handler EXCEPT ![p].at = "remove",
                                   ![p].listed = Listed(p, Cleaning(p), TRUE)]
     \/ handler' = [handler EXCEPT ![p].at = "remove", ![p].failed = TRUE]
  /\ UNCHANGED <<containers, networks, stack, controllers, specs, sweep, done>>

\* nerdctl rm says "no such network".
MissingNetwork(p) ==
  Cleaning(p) = "containerd" /\ <<"containerd", p>> \notin networks

\* rm -f, which removes all of them or, without notice, only some.
Removal(p) ==
  \E gone \in SUBSET handler[p].listed :
    /\ containers' = containers \ gone
    /\ IF handler[p].reset
       THEN Enter(p, Resting)
       ELSE handler' = [handler EXCEPT ![p].at = "network", ![p].listed = {},
                                       ![p].failed = @ \/ gone # handler[p].listed]

\* Without its network containerd removes no container: it is created, unless that fails,
\* too, and rm is tried again.
RemoveContainers(p) ==
  /\ handler[p].at = "remove"
  /\ IF handler[p].listed # {} /\ MissingNetwork(p)
     THEN \E created \in BOOLEAN :
            IF created
            THEN Removal(p) /\ networks' = networks \cup {<<"containerd", p>>}
            ELSE /\ \E h \in {[handler[p] EXCEPT !.at = "network", !.listed = {}, !.failed = TRUE]} :
                      Enter(p, IF handler[p].reset THEN Resting ELSE h)
                 /\ UNCHANGED <<containers, networks>>
     ELSE Removal(p) /\ UNCHANGED networks
  /\ UNCHANGED <<stack, controllers, specs, sweep, done>>

\* A purge removes the network, unless a container uses it or the command fails.
RemoveNetwork(p) ==
  /\ handler[p].at = "network"
  /\ \/ /\ handler[p].purge => Unused(Cleaning(p), p)
        /\ networks' = IF handler[p].purge THEN networks \ {<<Cleaning(p), p>>} ELSE networks
        /\ StepTo(p, "record")
     \/ /\ handler[p].purge
        /\ handler' = [handler EXCEPT ![p].at = "record", ![p].failed = TRUE]
        /\ UNCHANGED networks
  /\ UNCHANGED <<containers, stack, controllers, specs, sweep, done>>

\* stack.json goes, or the whole state directory, and with it the apps of the controller
\* and the configuration of containerd's networks.
ForgetStack(p) ==
  LET h == handler[p]
      cleaned == stack[p] # NoRuntime \/ (h.purge /\ h.runtime = "containerd")
  IN
  /\ h.at = "record"
  /\ stack' = [stack EXCEPT ![p] = NoRuntime]
  /\ IF h.purge
     THEN /\ specs' = {a \in specs : OwnerOf[a] # p}
          /\ networks' = networks \ {<<"containerd", p>>}
     ELSE UNCHANGED <<specs, networks>>
  /\ IF h.restart THEN StepTo(p, "labels") ELSE Enter(p, Resting)
  /\ done' = IF cleaned /\ ~h.failed /\ ~h.restart /\ <<Cleaning(p), p>> \notin strays
             THEN [done EXCEPT ![p] = [runtime |-> Cleaning(p), purge |-> h.purge]]
             ELSE done
  /\ UNCHANGED <<containers, controllers, sweep>>

\* The directory cannot be removed: a report, or an exception.
ForgetFails(p) ==
  /\ handler[p].at = "record" /\ handler[p].purge
  /\ Enter(p, Resting)
  /\ UNCHANGED <<containers, networks, stack, controllers, specs, sweep, done>>

\* A new stack removes what bears the project's label, on Docker.
RemoveLabelled(p) ==
  /\ handler[p].at = "labels"
  /\ \E gone \in SUBSET (IF handler[p].runtime = "docker" THEN Listed(p, "docker", FALSE) ELSE {}) :
       containers' = containers \ gone
  /\ StepTo(p, "ensure")
  /\ UNCHANGED <<networks, stack, controllers, specs, sweep, done>>

\* _ensure_network creates the network or raises.
EnsureNetwork(p) ==
  /\ handler[p].at = "ensure"
  /\ \/ networks' = networks \cup {<<handler[p].runtime, p>>} /\ StepTo(p, "launch")
     \/ <<handler[p].runtime, p>> \notin networks /\ Enter(p, Resting) /\ UNCHANGED networks
  /\ UNCHANGED <<containers, stack, controllers, specs, sweep, done>>

\* stack.json, with the address of the controller (StackProcesses has the details),
RecordStack(p) ==
  /\ handler[p].at = "launch"
  /\ stack' = [stack EXCEPT ![p] = handler[p].runtime]
  /\ StepTo(p, "popen")
  /\ UNCHANGED <<containers, networks, controllers, specs, sweep, done>>

\* then the process,
LaunchController(p) ==
  /\ handler[p].at = "popen"
  /\ controlled' = controlled \cup {p}
  /\ StepTo(p, "pid")
  /\ UNCHANGED <<containers, networks, stack, identified, strays, specs, sweep, done>>

\* and stack.json again, with its id.
RecordController(p) ==
  /\ handler[p].at = "pid"
  /\ identified' = identified \cup ({p} \cap controlled)
  /\ Enter(p, Resting)
  /\ UNCHANGED <<containers, networks, stack, controlled, strays, specs, sweep, done>>

\* An app is applied to the controller.
Apply(a) ==
  /\ handler[OwnerOf[a]].at = "idle" /\ OwnerOf[a] \in controlled
  /\ a \notin specs
  /\ specs' = specs \cup {a}
  /\ UNCHANGED <<containers, networks, stack, controllers, handler, sweep, done>>

\* A controller runs the container of an app it was given, at any time, if the network is there.
Reconcile(a) ==
  LET p == OwnerOf[a] IN
  /\ a \in specs
  /\ \E r \in Runtime :
       /\ (p \in controlled /\ r = stack[p]) \/ <<r, p>> \in strays
       /\ <<r, p>> \in networks
       /\ <<r, a>> \notin containers
       /\ containers' = containers \cup {<<r, a>>}
  /\ UNCHANGED <<networks, stack, controllers, specs, handler, sweep, done>>

ControllerDies(p) ==
  /\ p \in controlled
  /\ controlled' = controlled \ {p} /\ identified' = identified \ {p}
  /\ UNCHANGED <<containers, networks, stack, strays, specs, handler, sweep, done>>

\* What a handler at work is about to report does not count: the stray was there.
StrayDies(p) ==
  /\ \E r \in Runtime : <<r, p>> \in strays /\ strays' = strays \ {<<r, p>>}
  /\ handler' = IF handler[p].at = "idle" THEN handler
                                          ELSE [handler EXCEPT ![p].failed = TRUE]
  /\ UNCHANGED <<containers, networks, stack, controlled, identified, specs, sweep, done>>

\* Its process dies, or an exception ends it.
HandlerDies(p) ==
  /\ handler[p].at # "idle"
  /\ Enter(p, Resting)
  /\ UNCHANGED <<containers, networks, stack, controllers, specs, sweep, done>>

\* `workerbee cleanup --execute`: what bears the label of the state root, in Docker or in
\* the namespace of one project after the other.
SweepContainers ==
  /\ sweep.at = "idle"
  /\ \E r \in Runtime, scope \in {Owner} \cup {{p} : p \in Owner} :
       LET found == {c \in containers : /\ c[1] = r /\ OwnerOf[c[2]] \in scope
                                        /\ c[2] \in LabelledApps}
       IN /\ r = "docker" => scope = Owner
          /\ sweep' = [at |-> IF found = {} THEN "networks" ELSE "remove",
                       runtime |-> r, scope |-> scope, listed |-> found]
  /\ UNCHANGED <<containers, networks, stack, controllers, specs, handler, done>>

SweepRemoves ==
  /\ sweep.at = "remove"
  /\ \E gone \in SUBSET sweep.listed : containers' = containers \ gone
  /\ sweep' = [sweep EXCEPT !.at = "networks", !.listed = {}]
  /\ UNCHANGED <<networks, stack, controllers, specs, handler, done>>

\* The networks of the known projects, those that no container uses.
SweepNetworks ==
  /\ sweep.at = "networks"
  /\ \E gone \in SUBSET {p \in sweep.scope : Unused(sweep.runtime, p)} :
       networks' = networks \ {<<sweep.runtime, p>> : p \in gone}
  /\ sweep' = Asleep
  /\ UNCHANGED <<containers, stack, controllers, specs, handler, done>>

Clean(p) ==
  \/ KillController(p) \/ ListContainers(p) \/ RemoveContainers(p) \/ RemoveNetwork(p)
  \/ ForgetStack(p) \/ ForgetFails(p)

CleanupNext ==
  \/ \E p \in Owner :
       \/ BeginStart(p) \/ BeginStop(p) \/ BeginReset(p) \/ Clean(p)
       \/ RemoveLabelled(p) \/ EnsureNetwork(p)
       \/ RecordStack(p) \/ LaunchController(p) \/ RecordController(p)
       \/ ControllerDies(p) \/ StrayDies(p) \/ HandlerDies(p)
  \/ \E a \in Apps : Apply(a) \/ Reconcile(a)
  \/ SweepContainers \/ SweepRemoves \/ SweepNetworks

CleanupSpec == CleanupInit /\ [][CleanupNext]_cleanupVars

-----------------------------------------------------------------------------

\* A stop whose commands all succeeded leaves no container of the project in the runtime
\* it has cleaned, save those that Docker cannot find by project or namespace
\* (supervisor.py:2353); and a purge leaves no network.  What an earlier stop, start or
\* purge failed to remove, and what the controller started meanwhile, is removed, too.
\* A controller that a start has launched and died before it recorded the process id
\* (supervisor.py:205-207) outlives every stop: while one runs, nothing is claimed.
RuntimeIsClean ==
  \A p \in Owner : done[p].runtime # NoRuntime =>
    /\ \A a \in Apps : OwnerOf[a] = p /\ (done[p].runtime = "docker" => Labelled(p, a, TRUE))
                        => <<done[p].runtime, a>> \notin containers
    /\ done[p].purge => <<done[p].runtime, p>> \notin networks

\* docs/poc-scope.md:36 says that sessions with different projects share a daemon "while
\* keeping k1s state, runtime networks, generated manifests, and app ingress separated by
\* project name": the containers of a project go when its own handler or the clean-up of
\* the state root removes them.
SeparatedByProject ==
  [][\A c \in containers : c \notin containers' =>
       handler[OwnerOf[c[2]]].at \in {"remove", "labels"} \/ sweep.at = "remove"]_cleanupVars
=============================================================================
