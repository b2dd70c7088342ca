-------------------------- MODULE MCProjectServices --------------------------
(***************************************************************************)
(* Small instances of the components that serve projects: the registry,    *)
(* once with all writers under the project's lock and once with one that   *)
(* has none, the ingress' sites, profiles and edge links, DNS, staged      *)
(* manifests, deployments, the container runtime, image builds,            *)
(* validations of the AI fabric, and the fabric's own facts and index.     *)
(* They share no state: a behaviour is one of the component that `part`    *)
(* names, and the others never leave their initial state.                  *)
(***************************************************************************)
EXTENDS Registry, IngressSites, ProfileRuntime, DnsService, Deployment,
        RuntimeCleanup, ImageBuild, FabricValidation, AdvisoryFacts, RetrievalIndex,
        StagedManifests

\* A service that depends on another, and what the laboratory sees when it imports facts: the
\* second one is down; a model's lane is, but the first service's workload is ready; a phase
\* is blocked and lacks evidence.
Dependencies == {<<"svc", "db">>}
ObservedFacts ==
  LET Nowhere == [x \in {} |-> "ready"]
      Unseen == [staged |-> {}, health |-> Nowhere, lanes |-> Nowhere, workloads |-> Nowhere,
                 gates |-> Nowhere, missing |-> {}]
  IN {[Unseen EXCEPT !.staged = {"svc", "db"}, !.health = [s \in {"db"} |-> "unavailable"]],
      [Unseen EXCEPT !.lanes = [m \in {"lane"} |-> "unhealthy"],
                     !.workloads = [s \in {"svc"} |-> "ready"]],
      [Unseen EXCEPT !.gates = [p \in Phase |->
                                  [state |-> "unhealthy", status |-> "missing", blockers |-> {}]],
                     !.missing = {"evidence"}]}

AskedOfRouter ==
  {[subject |-> NoFact, query |-> {"svc", "db"}], [subject |-> "phase", query |-> {"db"}],
   [subject |-> "svc", query |-> {}]}

PhaseOfEvidence == [s \in {"evidence"} |-> "phase"]

\* A front end, an interface it refers to, and a database the interface refers to.
Reference == {<<"web", "api">>, <<"api", "db">>}
DeployedTogether == {{"web", "api", "db"}, {"api", "db"}, {"web", "db"}}

\* Site files that compete for a host, and their project.
SiteHome == [s \in Site |-> "p"]
SiteClaims ==
  [s \in Site |-> CASE s = "stack" -> {{"h1", "h2"}}
                    [] s = "pod" -> {{"h1"}}
                    [] s = "work" -> {{"h1", "h3"}}
                    [] s = "hand" -> {{"h2"}}]

\* The containers of a profile and of the two sizes of an edge link.
ContainersOf ==
  [x \in Profile \cup Shape \cup {Nothing} |->
     CASE x = "p" -> <<"c1">> [] x = "q" -> <<"c2">>
       [] x = "s" -> <<"e1">> [] x = "t" -> <<"e1", "e2">>
       [] OTHER -> <<>>]

\* The one project whose apps are cleaned up, and the namespace of one of them.
CleanedOwner == [a \in Apps |-> "p"]
OtherNamespace == [a \in Apps |-> "elsewhere"]

\* Builds of two projects under one tag.
BuildOwner == [b \in Build |-> IF b = "b1" THEN "p" ELSE "q"]
TagOfBuild == [b \in Build |-> "dev"]

\* What a staged manifest may hold, what is prepared, and what an export calls both.
ADocument(api, kind, secret) ==
  [api |-> api, kind |-> kind, secret |-> secret, flawless |-> TRUE]
StagedTexts ==
  {<<ADocument("native", "workload", "none")>>, <<ADocument("native", "workload", "path")>>,
   <<ADocument("kubernetes", "workload", "none"), ADocument("kubernetes", "service", "none")>>,
   <<ADocument("native", "workload", "none"), ADocument("native", "workload", "path")>>}
PreparedTexts ==
  {[f \in File |-> <<ADocument("native", "workload", "none")>>],
   [f \in File |-> IF f = 1 THEN <<ADocument("native", "workload", "path")>> ELSE NoText]}
OneStem == [f \in File |-> "app"]

\* The registry once more, of writers some of whom have no lock.
CONSTANTS Writer, LockedWriter, AskedOfWriters

ASSUME WritersAssumption ==
  /\ LockedWriter \subseteq Writer
  /\ AskedOfWriters \subseteq Mode

VARIABLES file2, tmp2, content2, pc2, about2, wants2, records2, handle2, asked2

sharedVars == <<file2, tmp2, content2, pc2, about2, wants2, records2, handle2, asked2>>

Shared ==
  INSTANCE Registry WITH
    Actor <- Writer, Locked <- LockedWriter, Asked <- AskedOfWriters,
    file <- file2, tmp <- tmp2, content <- content2, pc <- pc2, about <- about2,
    wants <- wants2, records <- records2, handle <- handle2, asked <- asked2

\* No interleaving, torn file or crash gives a project a mode that nobody asked for
\* (NoInventedMode of Registry; daemon.py:2735-2776).
ModesStayAsked == Shared!NoInventedMode

VARIABLE part

componentVars ==
  <<vars, sharedVars, sitesVars, profileVars, dnsVars, deployVars, cleanupVars,
    buildVars, fabricVars, adviceVars, retrievalVars, stagesVars>>

ServicesInit ==
  /\ part \in {"registry", "writers", "sites", "profiles", "dns", "deployment",
              "runtime", "images", "fabric", "advice", "index", "stages"}
  /\ Init /\ Shared!Init /\ SitesInit /\ ProfileInit /\ DnsInit /\ DeployInit
  /\ CleanupInit /\ BuildInit /\ FabricInit /\ AdviceInit /\ RetrievalInit /\ StagesInit
  /\ part # "images" => tools = [buildctl |-> TRUE, builders |-> Builder]
  /\ part # "fabric" => adapter = "absent"
  /\ part # "stages" => sealed = "missing"
  /\ part # "index" => collection = "none"

ServicesNext ==
  \/ /\ part = "registry" /\ Next
     /\ UNCHANGED <<part, sharedVars, sitesVars, profileVars, dnsVars, deployVars,
                    cleanupVars, buildVars, fabricVars, adviceVars, retrievalVars,
                    stagesVars>>
  \/ /\ part = "writers" /\ Shared!Next
     /\ UNCHANGED <<part, vars, sitesVars, profileVars, dnsVars, deployVars,
                    cleanupVars, buildVars, fabricVars, adviceVars, retrievalVars,
                    stagesVars>>
  \/ /\ part = "sites" /\ SitesNext
     /\ UNCHANGED <<part, vars, sharedVars, profileVars, dnsVars, deployVars,
                    cleanupVars, buildVars, fabricVars, adviceVars, retrievalVars,
                    stagesVars>>
  \/ /\ part = "profiles" /\ ProfileNext
     /\ UNCHANGED <<part, vars, sharedVars, sitesVars, dnsVars, deployVars,
                    cleanupVars, buildVars, fabricVars, adviceVars, retrievalVars,
                    stagesVars>>
  \/ /\ part = "dns" /\ DnsNext
     /\ UNCHANGED <<part, vars, sharedVars, sitesVars, profileVars, deployVars,
                    cleanupVars, buildVars, fabricVars, adviceVars, retrievalVars,
                    stagesVars>>
  \/ /\ part = "deployment" /\ DeployNext
     /\ UNCHANGED <<part, vars, sharedVars, sitesVars, profileVars, dnsVars,
                    cleanupVars, buildVars, fabricVars, adviceVars, retrievalVars,
                    stagesVars>>
  \/ /\ part = "runtime" /\ CleanupNext
     /\ UNCHANGED <<part, vars, sharedVars, sitesVars, profileVars, dnsVars,
                    deployVars, buildVars, fabricVars, adviceVars, retrievalVars,
                    stagesVars>>
  \/ /\ part = "images" /\ BuildNext
     /\ UNCHANGED <<part, vars, sharedVars, sitesVars, profileVars, dnsVars,
                    deployVars, cleanupVars, fabricVars, adviceVars, retrievalVars,
                    stagesVars>>
  \/ /\ part = "fabric" /\ FabricNext
     /\ UNCHANGED <<part, vars, sharedVars, sitesVars, profileVars, dnsVars,
                    deployVars, cleanupVars, buildVars, adviceVars, retrievalVars,
                    stagesVars>>
  \/ /\ part = "advice" /\ AdviceNext
     /\ UNCHANGED <<part, vars, sharedVars, sitesVars, profileVars, dnsVars,
                    deployVars, cleanupVars, buildVars, fabricVars, retrievalVars,
                    stagesVars>>
  \/ /\ part = "index" /\ RetrievalNext
     /\ UNCHANGED <<part, vars, sharedVars, sitesVars, profileVars, dnsVars,
                    deployVars, cleanupVars, buildVars, fabricVars, adviceVars,
                    stagesVars>>
  \/ /\ part = "stages" /\ StagesNext
     /\ UNCHANGED <<part, vars, sharedVars, sitesVars, profileVars, dnsVars,
                    deployVars, cleanupVars, buildVars, fabricVars, adviceVars,
                    retrievalVars>>

ServicesSpec == ServicesInit /\ [][ServicesNext]_<<part, componentVars>>
=============================================================================
