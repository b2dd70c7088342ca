--------------------------- MODULE CaddyAuthority ----------------------------
(***************************************************************************)
(* The global Caddy and its certificate authority (ingress.py): the        *)
(* daemon's start, the recovery after a TLS failure and the regeneration   *)
(* an operator confirms, on threads that know nothing of each other.  The  *)
(* users of the ingress have installed the authority, so it must not       *)
(* change without being asked for, and the exported bundle must be the     *)
(* one Caddy signs with.                                                   *)
(***************************************************************************)
EXTENDS Naturals, FiniteSets

CONSTANTS
  Operator,   \* threads and commands that work on the ingress
  Authority,  \* bound: the authorities there can be
  Store,      \* where the certificate is taken to: files, an NSS database, the system's store
  NoAuthority

ASSUME AuthorityAssumption == NoAuthority \notin Authority

VARIABLES
  data,    \* the authority in caddy-data
  signer,  \* the one the running container has loaded, if it runs
  bundle,  \* the exported certificate
  told,    \* ingress.json is there
  used,    \* the authorities there have been
  work,    \* what each operator is at
  stage,   \* and how far it is
  stored, \* the authority each store holds
  upset,   \* history: the data has been lost, changed or purged since it began
  sound,   \* history: a start has verified the bundle, and nothing of that has happened since
  promised \* history: the stores a sound bundle has been taken to, until that happens

storeVars == <<stored, promised>>
caddyVars == <<data, signer, bundle, told, used, work, stage, upset, sound, storeVars>>

Work == {"none", "start", "recover", "recover_start", "regenerate"}
Stage == {"idle", "stop", "purge_bundle", "purge_data", "ensure", "launch", "export", "verify",
          "ok", "failed"}

CaddyInit ==
  /\ data = NoAuthority /\ signer = NoAuthority /\ bundle = NoAuthority
  /\ told = FALSE /\ used = {}
  /\ work = [o \in Operator |-> "none"] /\ stage = [o \in Operator |-> "idle"]
  /\ upset = [o \in Operator |-> FALSE] /\ sound = FALSE
  /\ stored = [s \in Store |-> NoAuthority] /\ promised = {}

CaddyTypeOK ==
  /\ {data, signer, bundle} \subseteq Authority \cup {NoAuthority}
  /\ used \subseteq Authority /\ told \in BOOLEAN
  /\ work \in [Operator -> Work] /\ stage \in [Operator -> Stage]
  /\ upset \in [Operator -> BOOLEAN] /\ sound \in BOOLEAN
  /\ stored \in [Store -> Authority \cup {NoAuthority}] /\ promised \subseteq Store

StageIs(o, s) == stage' = [stage EXCEPT ![o] = s]
Calm == UNCHANGED <<sound, storeVars>>
Upset ==
  /\ upset' = [o \in Operator |-> TRUE] /\ sound' = FALSE
  /\ promised' = {} /\ UNCHANGED stored

\* The health probe of the dashboard, direct or over the loopback: Caddy answers, and its
\* certificate is checked when there is a bundle to check it with.
Serves == signer # NoAuthority /\ bundle \in {NoAuthority, signer}

\* start; recover_caddy_tls_state; regenerate_ca, which takes confirm=true.
Undertake(o, w) ==
  /\ stage[o] = "idle"
  /\ work' = [work EXCEPT ![o] = w]
  /\ StageIs(o, IF w = "start" THEN "ensure" ELSE "stop")
  /\ upset' = [upset EXCEPT ![o] = FALSE]
  /\ Calm
  /\ UNCHANGED <<data, signer, bundle, told, used>>

\* Mutant of StopCaddy: every recovery begins with a clean state.
StopAndPurge(o) ==
  /\ stage[o] = "stop"
  /\ StageIs(o, "purge_bundle")
  /\ signer' = NoAuthority /\ told' = FALSE
  /\ Calm
  /\ UNCHANGED <<data, bundle, used, work, upset>>

\* `rm -f` fails, and so does what was to follow; or Caddy and the record are gone.
StopCaddy(o) ==
  /\ stage[o] = "stop"
  /\ \/ StageIs(o, "failed") /\ UNCHANGED <<signer, told>>
     \/ StageIs(o, IF work[o] = "regenerate" THEN "purge_bundle" ELSE "ensure")
        /\ signer' = NoAuthority /\ told' = FALSE
  /\ Calm
  /\ UNCHANGED <<data, bundle, used, work, upset>>

PurgeBundle(o) ==
  /\ stage[o] = "purge_bundle"
  /\ StageIs(o, "purge_data")
  /\ bundle' = NoAuthority
  /\ Upset
  /\ UNCHANGED <<data, signer, told, used, work>>

\* The tree may be root's, and the helper out of reach.
PurgeData(o) ==
  /\ stage[o] = "purge_data"
  /\ \/ StageIs(o, "ensure") /\ data' = NoAuthority /\ Upset
     \/ StageIs(o, "failed") /\ UNCHANGED <<data, upset>> /\ Calm
  /\ UNCHANGED <<signer, bundle, told, used, work>>

\* _ensure_caddy_container: one that runs is reloaded, and keeps its authority...
EnsureCaddy(o) ==
  /\ stage[o] = "ensure"
  /\ StageIs(o, IF signer # NoAuthority THEN "export" ELSE "launch")
  /\ Calm
  /\ UNCHANGED <<data, signer, bundle, told, used, work, upset>>

\* ...or takes the place of whatever has the name; it makes an authority when the data
\* holds none.
LaunchCaddy(o) ==
  /\ stage[o] = "launch"
  /\ \/ /\ StageIs(o, "export")
        /\ \E a \in (IF data = NoAuthority THEN Authority \ used ELSE {data}) :
             signer' = a /\ data' = a /\ used' = used \cup {a}
     \/ StageIs(o, "failed") /\ signer' = NoAuthority /\ UNCHANGED <<data, used>>
  /\ Calm
  /\ UNCHANGED <<bundle, told, work, upset>>

\* Mutant of ExportBundle: a bundle that is there is kept.
ExportOnce(o) ==
  /\ stage[o] = "export"
  /\ StageIs(o, "verify")
  /\ bundle' = IF bundle = NoAuthority THEN data ELSE bundle
  /\ Calm
  /\ UNCHANGED <<data, signer, told, used, work, upset>>

\* _wait_ready and _export_ca_bundle: the certificate in the data, read through the
\* container; both give up after a while.
ExportBundle(o) ==
  /\ stage[o] = "export"
  /\ \/ signer # NoAuthority /\ data # NoAuthority /\ bundle' = data /\ StageIs(o, "verify")
     \/ StageIs(o, "failed") /\ UNCHANGED bundle
  /\ Calm
  /\ UNCHANGED <<data, signer, told, used, work, upset>>

\* _verified_dashboard_health_probe with the bundle; a start that fails here tries the
\* recovery once, and a recovery that fails asks for a regeneration.
Verify(o) ==
  /\ stage[o] = "verify"
  /\ \/ /\ Serves
        /\ StageIs(o, "ok") /\ told' = TRUE /\ sound' = (sound \/ ~upset[o]) /\ UNCHANGED work
     \/ /\ UNCHANGED <<told, sound>>
        /\ IF work[o] = "start"
             THEN StageIs(o, "stop") /\ work' = [work EXCEPT ![o] = "recover_start"]
             ELSE StageIs(o, "failed") /\ UNCHANGED work
  /\ UNCHANGED <<data, signer, bundle, used, upset, storeVars>>

Dismiss(o) ==
  /\ stage[o] \in {"ok", "failed"}
  /\ StageIs(o, "idle")
  /\ work' = [work EXCEPT ![o] = "none"] /\ upset' = [upset EXCEPT ![o] = FALSE]
  /\ Calm
  /\ UNCHANGED <<data, signer, bundle, told, used>>

\* The end of the daemon takes Caddy down, and so may anything else.
CaddyEnds ==
  /\ signer # NoAuthority
  /\ signer' = NoAuthority
  /\ told' \in {told, FALSE}
  /\ Calm
  /\ UNCHANGED <<data, bundle, used, work, stage, upset>>

\* Someone removes the data or puts an older authority back.
DataReplaced ==
  /\ data # NoAuthority
  /\ data' \in (used \cup {NoAuthority}) \ {data}
  /\ Upset
  /\ UNCHANGED <<signer, bundle, told, used, work, stage>>

-----------------------------------------------------------------------------
(* What users do with the bundle: workerbee ingress ca, trust install and uninstall. *)

caddy == <<data, signer, bundle, told, used, work, stage, upset, sound>>

Holds(s, a, lasts) ==
  /\ stored' = [stored EXCEPT ![s] = a]
  /\ promised' = IF lasts THEN promised \cup {s} ELSE promised \ {s}

\* The bundle is at the path that ingress.json names.
ExportAuthority(s) ==
  /\ told /\ bundle # NoAuthority
  /\ Holds(s, bundle, sound)
  /\ UNCHANGED caddy

\* The certificate of that name is deleted before the new one is added, which may fail.
InstallTrust(s) ==
  \/ ExportAuthority(s)
  \/ /\ told /\ bundle # NoAuthority
     /\ Holds(s, NoAuthority, FALSE)
     /\ UNCHANGED caddy

UninstallTrust(s) ==
  /\ stored[s] # NoAuthority
  /\ Holds(s, NoAuthority, FALSE)
  /\ UNCHANGED caddy

-----------------------------------------------------------------------------

OperatorStep(o) ==
  \/ StopCaddy(o) \/ PurgeBundle(o) \/ PurgeData(o) \/ EnsureCaddy(o) \/ LaunchCaddy(o)
  \/ ExportBundle(o) \/ Verify(o) \/ Dismiss(o)

CaddyNext ==
  \/ \E o \in Operator : OperatorStep(o) \/ \E w \in {"start", "recover", "regenerate"} : Undertake(o, w)
  \/ CaddyEnds \/ DataReplaced
  \/ \E s \in Store : ExportAuthority(s) \/ InstallTrust(s) \/ UninstallTrust(s)

CaddySpec == CaddyInit /\ [][CaddyNext]_caddyVars

-----------------------------------------------------------------------------
(* What it promises. *)

\* WorkerBee gives up an authority only in a regeneration somebody has confirmed; no
\* start and no recovery does, however often it fails and whatever it races with
\* (_recover_caddy_ca_mismatch: "WorkerBee preserves Caddy CA state by default").
AuthorityKept ==
  [][\A o \in Operator : OperatorStep(o) /\ work[o] # "regenerate" =>
       /\ data # NoAuthority => data' = data
       /\ bundle # NoAuthority => bundle' # NoAuthority]_caddyVars

\* A start, a recovery or a regeneration that reports success has left the bundle of the
\* authority in the data, one that has served by then, with others at work on the same
\* container, unless the data was taken away meanwhile.  And what a user has exported or
\* installed from it stays the authority Caddy signs with, through restarts and recoveries
\* (trust_install, _recover_caddy_ca_mismatch), until an uninstall, a confirmed regeneration
\* or a loss of the data.
ReportedIsTrusted ==
  /\ \A o \in Operator : stage[o] = "ok" /\ ~upset[o] =>
       /\ bundle # NoAuthority /\ bundle = data
       /\ signer \in {NoAuthority, bundle}
  /\ \A s \in promised : stored[s] # NoAuthority /\ signer \in {NoAuthority, stored[s]}
=============================================================================
