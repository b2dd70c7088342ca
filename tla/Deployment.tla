----------------------------- MODULE Deployment ------------------------------
(***************************************************************************)
(* Deployments of one project (daemon.py, manifests.py): a stage is        *)
(* applied to the controller manifest by manifest, on containerd the       *)
(* consumers of a service once more or only when it is ready; then the     *)
(* workloads of the previous deployment that are gone from the stage are   *)
(* reported or, on request, deleted, and the deployment is recorded.       *)
(* Deployments hold the project's lock: there is one at a time, and only a *)
(* failure or a crash ends it early.                                       *)
(***************************************************************************)
EXTENDS Naturals, FiniteSets

CONSTANTS
  App,        \* names of workloads, one manifest each
  Native,     \* those with a k1s manifest; the others have a Kubernetes one
  Publisher,    \* those that publish a port
  Refers,     \* the pairs <<a, b>> where a's manifest names b's host
  Stages,     \* sets of apps that are deployed together
  Namespace,
  Home,       \* the namespace the manifests give
  NoNamespace,
  MaxDeploys  \* bound on the deployments

ASSUME DeploymentAssumption ==
  /\ Native \subseteq App /\ Publisher \subseteq App /\ Refers \subseteq App \X App
  /\ Stages \subseteq SUBSET App /\ IsFiniteSet(App)
  /\ Home \in Namespace /\ NoNamespace \notin Namespace /\ MaxDeploys \in Nat

VARIABLES
  controller, \* the number of the deployment that applied each workload last, 0 if none
  latest,     \* latest.json
  current,    \* the deployment that holds the lock
  deploys     \* how many there have been

deployVars == <<controller, latest, current, deploys>>

Key == Namespace \X App

\* No record, and no deployment.
NoDeployment ==
  [id |-> 0, on |-> "nothing", stage |-> {}, namespace |-> NoNamespace, prune |-> FALSE,
   orphans |-> {}]
Idle ==
  [at |-> "idle", stage |-> {}, namespace |-> NoNamespace, prune |-> FALSE,
   containerd |-> FALSE, previous |-> NoDeployment, todo |-> {}, awaited |-> {},
   orphans |-> {}]

DeployInit ==
  /\ controller = [k \in Key |-> 0] /\ latest = NoDeployment
  /\ current = Idle /\ deploys = 0

Place == {"idle", "apply", "wait", "reapply", "prune", "record"}

DeployTypeOK ==
  /\ controller \in [Key -> 0..deploys] /\ deploys \in 0..MaxDeploys
  /\ latest.id \in 0..deploys /\ latest.stage \in SUBSET App /\ latest.orphans \subseteq Key
  /\ current.at \in Place /\ current.stage \in SUBSET App
  /\ current.todo \subseteq current.stage /\ current.awaited \subseteq current.stage
  /\ current.orphans \subseteq Key

\* A workload is known by the namespace it is forced into, or by that of its manifest.
Normal(ns, a) == <<IF ns = NoNamespace THEN Home ELSE ns, a>>
Normalized(ns, apps) == {Normal(ns, a) : a \in apps}

-----------------------------------------------------------------------------
(* Which manifests wait for which services. *)

References(apps, a) == {b \in apps : <<a, b>> \in Refers}

\* Services of the stage that a native manifest of the stage names.
Referenced(apps) ==
  {b \in apps \cap Publisher \cap Native : \E a \in apps \cap Native : <<a, b>> \in Refers}

DependsOnService(apps, a) ==
  \E b \in apps \cap Publisher \cap Native : b # a /\ <<a, b>> \in Refers

\* Mutant of Providers: a service that names another one is waited for, too.
AllProviders(apps) == Referenced(apps)

\* Those that name no other service, or all if each one does.
Providers(apps) ==
  LET roots == {b \in Referenced(apps) : ~DependsOnService(apps, b)}
  IN IF roots = {} THEN Referenced(apps) ELSE roots

Consumers(apps) ==
  {a \in apps \cap Native : \E b \in Providers(apps) : b # a /\ <<a, b>> \in Refers}

\* Whom the deployment waits for, and what it applies when they are ready.
Awaited(apps) ==
  IF Referenced(apps) # {} THEN Providers(apps) ELSE apps \cap Publisher \cap Native
Reapplied(apps) == IF Referenced(apps) # {} THEN Consumers(apps) ELSE apps \cap Native

-----------------------------------------------------------------------------
(* manifest_deploy_local and deploy_local_stage *)

At(p) == current.at = p
GoTo(p) == current' = [current EXCEPT !.at = p]

\* A failed deployment, or one whose daemon dies, leaves no record.
Abandon == current.at # "idle" /\ current' = Idle /\ UNCHANGED <<controller, latest, deploys>>

BeginDeploy(apps, ns, prune, containerd) ==
  /\ At("idle") /\ deploys < MaxDeploys
  /\ deploys' = deploys + 1
  /\ current' = [Idle EXCEPT !.at = "apply", !.stage = apps, !.namespace = ns,
                             !.prune = prune, !.containerd = containerd, !.previous = latest,
                             !.todo = IF containerd THEN apps \ Consumers(apps) ELSE apps]
  /\ UNCHANGED <<controller, latest>>

ApplyTo(a) == controller' = [controller EXCEPT ![Normal(current.namespace, a)] = deploys]

ApplyManifest(a) ==
  /\ At("apply") \/ At("reapply")
  /\ a \in current.todo
  /\ ApplyTo(a)
  /\ current' = [current EXCEPT !.todo = @ \ {a}]
  /\ UNCHANGED <<latest, deploys>>

\* The alias refresh (_refresh_containerd_service_aliases), on containerd only and if
\* there are services.
RefreshAliases ==
  /\ At("apply") /\ current.todo = {}
  /\ IF current.containerd /\ Awaited(current.stage) # {}
     THEN current' = [current EXCEPT !.at = "wait", !.awaited = Awaited(current.stage)]
     ELSE GoTo("prune")
  /\ UNCHANGED <<controller, latest, deploys>>

\* A service that is ready has been applied, now or by an earlier deployment.
ServicesReady ==
  /\ At("wait")
  /\ \A a \in current.awaited : controller[Normal(current.namespace, a)] # 0
  /\ current' = [current EXCEPT !.at = "reapply", !.awaited = {},
                                !.todo = Reapplied(current.stage)]
  /\ UNCHANGED <<controller, latest, deploys>>

Reapplying ==
  /\ At("reapply") /\ current.todo = {} /\ GoTo("prune")
  /\ UNCHANGED <<controller, latest, deploys>>

\* Mutant of Orphaned: the stage is compared by the namespaces of its manifests.
OrphanedByManifest(previous, apps, ns) ==
  Normalized(previous.namespace, previous.stage) \ Normalized(NoNamespace, apps)

\* The workloads of the previous deployment, whatever its target, that are not in the
\* stage; both are taken to be in the namespace of this deployment.
Orphaned(previous, apps, ns) ==
  LET declared == Normalized(ns, apps)
      renamed == IF ns = NoNamespace THEN previous.namespace ELSE ns
  IN Normalized(renamed, previous.stage) \ declared

\* One by one; `kept` are those the controller does not delete.
Deleted(orphaned, kept) ==
  controller' = [k \in Key |-> IF k \in orphaned \ kept THEN 0 ELSE controller[k]]

\* collect_app_status: orphans are deleted on request, and reported if they are still there.
DeleteOrphans ==
  /\ At("prune")
  /\ LET orphaned == Orphaned(current.previous, current.stage, current.namespace)
     IN \E kept \in SUBSET orphaned :
          /\ ~current.prune => kept = orphaned
          /\ Deleted(orphaned, kept)
          /\ current' = [current EXCEPT !.at = "record", !.orphans = kept]
  /\ UNCHANGED <<latest, deploys>>

\* What _record_deployment writes.
RecordLatest(on, d) ==
  latest' = [id |-> deploys', on |-> on, stage |-> d.stage, namespace |-> d.namespace,
             prune |-> d.prune, orphans |-> d.orphans]

\* The wait for the declared workloads changes only what is reported.
RecordDeployment ==
  /\ At("record")
  /\ current' = Idle
  /\ UNCHANGED <<controller, deploys>>
  /\ RecordLatest("workerbee", current)

\* A deployment to the profile's controller is recorded in the same file.
DeployToProfile(apps, ns) ==
  /\ At("idle") /\ deploys < MaxDeploys
  /\ deploys' = deploys + 1
  /\ RecordLatest("profile", [NoDeployment EXCEPT !.stage = apps, !.namespace = ns])
  /\ UNCHANGED <<controller, current>>

DeployNext ==
  \/ \E apps \in Stages, ns \in Namespace \cup {NoNamespace} :
       \/ \E prune, containerd \in BOOLEAN : BeginDeploy(apps, ns, prune, containerd)
       \/ DeployToProfile(apps, ns)
  \/ \E a \in App : ApplyManifest(a)
  \/ RefreshAliases \/ ServicesReady \/ Reapplying \/ DeleteOrphans \/ RecordDeployment
  \/ Abandon

DeploySpec == DeployInit /\ [][DeployNext]_deployVars

-----------------------------------------------------------------------------
(* What a deployment promises. *)

\* Does a follow the references of a chain that comes back to it?
Reaches(apps) ==
  LET from[i \in 0..Cardinality(App)] ==
        IF i = 0 THEN {p \in Refers : p \in (apps \X apps) /\ p[1] # p[2]}
        ELSE {p \in apps \X apps :
                p \in from[i - 1] \/ \E b \in apps : <<p[1], b>> \in from[i - 1]
                                                  /\ <<b, p[2]>> \in from[0]}
  IN from[Cardinality(App)]
Acyclic(apps) == \A a \in apps : <<a, a>> \notin Reaches(apps)

\* A deployment never waits for a service it is itself holding back, so that its wait is
\* for the service to get ready and not for ever, as long as the manifests do not name
\* each other in a circle (_native_referenced_service_workloads).
AwaitedIsApplied ==
  At("wait") /\ Acyclic(current.stage) =>
    \A a \in current.awaited : controller[Normal(current.namespace, a)] = deploys

\* Once a deployment is recorded, everything its stage declares has been applied by it,
\* what was held back included, and its own prune has not taken anything of it away
\* (deploy_local_stage, _record_deployment).
RecordedIsApplied ==
  [][latest' # latest /\ latest'.on = "workerbee" =>
       \A k \in Normalized(latest'.namespace, latest'.stage) : controller'[k] = latest'.id]_deployVars

\* contract.py:516 answers a deployment that reports orphans with the advice to deploy the
\* same stage with prune=true, "remove workloads from the previous stage that are absent
\* now": what was reported is then deleted, or reported again.
AdvisedPruneRemoves ==
  [][latest' # latest /\ latest'.on = "workerbee" /\ latest'.prune
       /\ latest'.stage = latest.stage /\ latest'.namespace = latest.namespace =>
         \A k \in latest.orphans : controller'[k] = 0 \/ k \in latest'.orphans]_deployVars
=============================================================================
