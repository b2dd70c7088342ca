----------------------------- MODULE StackRoute ------------------------------
(***************************************************************************)
(* The route of a project's stack through the global ingress and those who *)
(* write, remove, load and probe it (supervisor.py, daemon.py): starts and *)
(* stops with the project's lock; the list of projects that the dashboard  *)
(* asks for without it; and ingress_probe, which tries to repair a route   *)
(* or a certificate that fails, and reports.  A security assessment and    *)
(* the validation of a profile probe while they hold the lock.             *)
(***************************************************************************)
EXTENDS Naturals

CONSTANTS
  Prober, \* threads that probe
  Inner   \* those that do it inside an assessment

ASSUME RouteAssumption == Inner \subseteq Prober

VARIABLES
  stackIs,   \* the control plane: down, starting, up
  onRecord,  \* stack.json is there
  site,      \* k1s-stack.caddy is there
  servedAs,  \* the route Caddy has loaded: none, of the ports in the site, or of older ones
  caddyUp,
  trusted,   \* the exported bundle verifies what Caddy presents
  holder,    \* of the project's lock: a thread of the daemon, another process, nobody
  handlerAt, \* where start, stop or an assessment is
  handles,   \* which of them it is
  lister,    \* where the list of projects is
  probe,     \* where each probe is, with what it has found
  witness    \* history: what has not been in order since a probe began

routeVars == <<stackIs, onRecord, site, servedAs, caddyUp, trusted, holder, handlerAt, handles,
               lister, probe, witness>>
stackVars == <<stackIs, onRecord>>
ingressVars == <<servedAs, caddyUp, trusted>>
handlerVars == <<handlerAt, handles>>

AtRest == [at |-> "idle", report |-> "none", files |-> FALSE, refused |-> FALSE, failed |-> FALSE]

\* The places of the handler, of the list and of the probes.
RouteTypeOK ==
  /\ stackIs \in {"down", "starting", "up"} /\ servedAs \in {"none", "current", "stale"}
  /\ {onRecord, site, caddyUp, trusted} \subseteq BOOLEAN
  /\ holder \in {"nobody", "daemon", "outside"}
  /\ handlerAt \in {"idle", "check", "kill", "unroute", "write", "launch", "await", "reload",
                    "assess", "reported"}
  /\ handles \in {"none", "start", "stop", "assess"}
  /\ lister \in {"idle", "remove", "sync"}
  /\ probe \in
       [Prober -> [at : {"idle", "first", "diagnose", "ask", "status", "deny", "deny_sync",
                         "sync", "retry", "tls_sync", "tls_retry", "stop_caddy",
                         "start_caddy", "last_sync", "done"},
                   report : {"none", "answered", "not_running", "failed"},
                   files : BOOLEAN, refused : BOOLEAN, failed : BOOLEAN]]
  /\ witness \in [Prober -> [down : BOOLEAN, upset : BOOLEAN]]

RouteInit ==
  /\ stackIs = "down" /\ onRecord = FALSE /\ site = FALSE
  /\ servedAs = "none" /\ caddyUp = TRUE /\ trusted = TRUE
  /\ holder = "nobody" /\ handlerAt = "idle" /\ handles = "none" /\ lister = "idle"
  /\ probe = [p \in Prober |-> AtRest]
  /\ witness = [p \in Prober |-> [down |-> FALSE, upset |-> FALSE]]

-----------------------------------------------------------------------------
(* Caddy. *)

\* What Caddy loads, from the files there are.
Loaded == IF site THEN "current" ELSE "none"

\* The first answer to a request for the stack's host: no connection, no certificate for
\* the name or a wrong one, a bad gateway, or the stack's own.
Answer ==
  CASE ~caddyUp -> "route"
    [] caddyUp /\ (servedAs = "none" \/ ~trusted) -> "tls"
    [] caddyUp /\ trusted /\ servedAs # "none" ->
         IF servedAs = "current" /\ stackIs = "up" THEN "answered" ELSE "route"

\* Any other handler synchronizes the ingress.
OthersSync ==
  /\ caddyUp /\ servedAs' = Loaded
  /\ UNCHANGED <<stackVars, site, caddyUp, trusted, holder, handlerVars, lister, probe>>

AuthorityChanges ==
  /\ trusted /\ trusted' = FALSE
  /\ UNCHANGED <<stackVars, site, servedAs, caddyUp, holder, handlerVars, lister, probe>>

-----------------------------------------------------------------------------
(* Handlers with the lock. *)

HandlerGoes(at) == handlerAt' = at /\ UNCHANGED <<handles, holder>>

BeginHandler(op) ==
  /\ handlerAt = "idle" /\ holder = "nobody"
  /\ holder' = "daemon" /\ handles' = op
  /\ handlerAt' = CASE op = "start" -> "check" [] op = "stop" -> "kill" [] op = "assess" -> "assess"
  /\ UNCHANGED <<stackVars, site, ingressVars, lister, probe>>

\* It returns or raises.
HandlerEnds ==
  /\ handlerAt \notin {"idle", "assess"}
  /\ handlerAt' = "idle" /\ handles' = "none" /\ holder' = "nobody"
  /\ UNCHANGED <<stackVars, site, ingressVars, lister, probe>>

AssessmentEnds ==
  /\ handlerAt = "assess" /\ \A p \in Inner : probe[p].at = "idle"
  /\ handlerAt' = "idle" /\ handles' = "none" /\ holder' = "nobody"
  /\ UNCHANGED <<stackVars, site, ingressVars, lister, probe>>

\* A stack that is up gets its site again; one whose runtime or URLs have changed, or
\* that is not up, is stopped first.
CheckStack ==
  /\ handlerAt = "check"
  /\ \/ stackIs = "up" /\ site' = TRUE /\ HandlerGoes("reload")
     \/ /\ HandlerGoes(IF onRecord THEN "kill" ELSE "write")
        /\ UNCHANGED site
  /\ UNCHANGED <<stackVars, ingressVars, lister, probe>>

KillStack ==
  /\ handlerAt = "kill"
  /\ stackIs' = IF onRecord THEN "down" ELSE stackIs
  /\ HandlerGoes("unroute")
  /\ UNCHANGED <<onRecord, site, ingressVars, lister, probe>>

\* The runtime has been cleaned up; the site goes, and stack.json.
DropRoute ==
  /\ handlerAt = "unroute"
  /\ site' = (site /\ ~onRecord)
  /\ onRecord' = FALSE
  /\ HandlerGoes(IF handles = "start" THEN "write" ELSE "reported")
  /\ UNCHANGED <<stackIs, ingressVars, lister, probe>>

\* _write_stack_ingress_sites, with other ports: before anything listens to them.
WriteRoute ==
  /\ handlerAt = "write"
  /\ site' = TRUE
  /\ servedAs' = IF servedAs = "none" THEN "none" ELSE "stale"
  /\ HandlerGoes("launch")
  /\ UNCHANGED <<stackVars, caddyUp, trusted, lister, probe>>

LaunchStack ==
  /\ handlerAt = "launch"
  /\ stackIs' = "starting" /\ onRecord' = TRUE
  /\ HandlerGoes("await")
  /\ UNCHANGED <<site, ingressVars, lister, probe>>

StackAnswers ==
  /\ handlerAt = "await" /\ stackIs = "up"
  /\ HandlerGoes("reload")
  /\ UNCHANGED <<stackVars, site, ingressVars, lister, probe>>

\* `caddy reload`, whose failure is not looked at.
ReloadRoute ==
  /\ handlerAt = "reload"
  /\ servedAs' \in {servedAs} \cup (IF caddyUp THEN {Loaded} ELSE {})
  /\ HandlerGoes("reported")
  /\ UNCHANGED <<stackVars, site, caddyUp, trusted, lister, probe>>

StackComesUp ==
  /\ stackIs = "starting" /\ stackIs' = "up"
  /\ UNCHANGED <<onRecord, site, ingressVars, holder, handlerVars, lister, probe>>

StackFails ==
  /\ stackIs # "down" /\ stackIs' = "down"
  /\ UNCHANGED <<onRecord, site, ingressVars, holder, handlerVars, lister, probe>>

\* A command of another process holds the project's flock.
OutsideLocks ==
  /\ holder \in {"nobody", "outside"}
  /\ holder' = IF holder = "nobody" THEN "outside" ELSE "nobody"
  /\ UNCHANGED <<stackVars, site, ingressVars, handlerVars, lister, probe>>

-----------------------------------------------------------------------------
(* projects: the dashboard's list, without the lock. *)

ListerGoes(at) ==
  lister' = at /\ UNCHANGED <<stackVars, caddyUp, trusted, holder, handlerVars, probe>>

ListStack ==
  /\ lister = "idle" /\ stackIs # "up"
  /\ ListerGoes("remove")
  /\ UNCHANGED <<site, servedAs>>

\* The site of a stack that was not running.
ListRemoves ==
  /\ lister = "remove"
  /\ ListerGoes(IF site THEN "sync" ELSE "idle")
  /\ site' = FALSE
  /\ UNCHANGED servedAs

ListSyncs ==
  /\ lister = "sync"
  /\ ListerGoes("idle")
  /\ servedAs' \in {servedAs} \cup (IF caddyUp THEN {Loaded} ELSE {})
  /\ UNCHANGED site

-----------------------------------------------------------------------------
(* ingress_probe. *)

ProbeGoes(p, at) == probe' = [probe EXCEPT ![p].at = at]
Reports(p, r) == probe' = [probe EXCEPT ![p].at = "done", ![p].report = r]
Only == UNCHANGED <<stackVars, site, ingressVars, holder, handlerVars, lister>>

BeginProbe(p) ==
  /\ probe[p].at = "idle" /\ (p \in Inner => handlerAt = "assess")
  /\ ProbeGoes(p, "first")
  /\ Only

\* _ingress_probe_once, for the first time: what fails decides which recovery it is.
FirstProbe(p) ==
  /\ probe[p].at = "first"
  /\ CASE Answer = "answered" -> Reports(p, "answered")
       [] Answer = "route" -> ProbeGoes(p, "diagnose")
       [] Answer = "tls" -> ProbeGoes(p, "tls_sync")
  /\ Only

\* _project_route_diagnostics: the files in the project's directory.
Diagnose(p) ==
  /\ probe[p].at = "diagnose"
  /\ probe' = [probe EXCEPT ![p].at = "ask", ![p].files = site]
  /\ Only

\* project_status takes the lock.  A thread that has it already is refused, for its second
\* flock is on a descriptor of its own, and so is one that finds another process in it;
\* any other thread waits.
AskStatus(p) ==
  /\ probe[p].at = "ask"
  /\ \/ /\ p \notin Inner /\ holder = "nobody"
        /\ holder' = "daemon" /\ ProbeGoes(p, "status")
     \/ /\ p \in Inner \/ holder = "outside"
        /\ probe' = [probe EXCEPT ![p].refused = TRUE,
                                  ![p].at = IF probe[p].files THEN "deny_sync" ELSE "deny"]
        /\ UNCHANGED holder
  /\ UNCHANGED <<stackVars, site, ingressVars, handlerVars, lister>>

\* A stack that is not running loses its site.
ReadStatus(p) ==
  /\ probe[p].at = "status"
  /\ holder' = "nobody"
  /\ IF stackIs = "up" THEN ProbeGoes(p, "sync") /\ UNCHANGED site
     ELSE /\ ProbeGoes(p, IF site \/ probe[p].files THEN "deny_sync" ELSE "deny")
          /\ site' = FALSE
  /\ UNCHANGED <<stackVars, ingressVars, handlerVars, lister>>

\* PROJECT_NOT_RUNNING
DenyRunning(p) ==
  /\ probe[p].at = "deny"
  /\ Reports(p, "not_running")
  /\ Only

AfterSync(s) ==
  CASE s = "deny_sync" -> "deny" [] s = "sync" -> "retry" [] s = "tls_sync" -> "tls_retry"
    [] s = "last_sync" -> "retry"

\* Mutant of SyncRoutes: the routes are not loaded again.
SkipSync(p) ==
  /\ probe[p].at \in {"deny_sync", "sync", "tls_sync", "last_sync"}
  /\ ProbeGoes(p, AfterSync(probe[p].at))
  /\ Only

\* _sync_ingress_projects_result; a failure is noted, and the probe goes on.
SyncRoutes(p) ==
  /\ probe[p].at \in {"deny_sync", "sync", "tls_sync", "last_sync"}
  /\ \/ caddyUp /\ servedAs' = Loaded /\ ProbeGoes(p, AfterSync(probe[p].at))
     \/ /\ probe' = [probe EXCEPT ![p].at = AfterSync(@), ![p].failed = TRUE]
        /\ UNCHANGED servedAs
  /\ UNCHANGED <<stackVars, site, caddyUp, trusted, holder, handlerVars, lister>>

\* The last probe, whatever it brings.
Retry(p) ==
  /\ probe[p].at = "retry"
  /\ Reports(p, IF Answer = "answered" THEN "answered" ELSE "failed")
  /\ Only

\* Only a certificate that still fails makes it restart Caddy.
RetryTls(p) ==
  /\ probe[p].at = "tls_retry"
  /\ CASE Answer = "answered" -> Reports(p, "answered")
       [] Answer = "route" -> Reports(p, "failed")
       [] Answer = "tls" -> ProbeGoes(p, "stop_caddy")
  /\ Only

\* recover_caddy_tls_state stops the ingress of all projects...
StopForRecovery(p) ==
  /\ probe[p].at = "stop_caddy"
  /\ \/ caddyUp' = FALSE /\ ProbeGoes(p, "start_caddy")
     \/ /\ probe' = [probe EXCEPT ![p].at = "done", ![p].report = "failed", ![p].failed = TRUE]
        /\ UNCHANGED caddyUp
  /\ UNCHANGED <<stackVars, site, servedAs, trusted, holder, handlerVars, lister>>

\* ...and starts it again with the same authority, whose certificate it exports.
StartForRecovery(p) ==
  /\ probe[p].at = "start_caddy"
  /\ \/ /\ caddyUp' = TRUE /\ trusted' = TRUE /\ servedAs' = Loaded
        /\ ProbeGoes(p, "last_sync")
     \/ /\ probe' = [probe EXCEPT ![p].at = "done", ![p].report = "failed", ![p].failed = TRUE]
        /\ UNCHANGED ingressVars
  /\ UNCHANGED <<stackVars, site, holder, handlerVars, lister>>

EndProbe(p) ==
  /\ probe[p].at = "done"
  /\ probe' = [probe EXCEPT ![p] = AtRest]
  /\ Only

ProbeStep(p) ==
  \/ BeginProbe(p) \/ FirstProbe(p) \/ Diagnose(p) \/ AskStatus(p) \/ ReadStatus(p)
  \/ DenyRunning(p) \/ SyncRoutes(p) \/ Retry(p) \/ RetryTls(p) \/ StopForRecovery(p)
  \/ StartForRecovery(p) \/ EndProbe(p)

-----------------------------------------------------------------------------

RouteStep ==
  \/ \E op \in {"start", "stop", "assess"} : BeginHandler(op)
  \/ HandlerEnds \/ AssessmentEnds \/ CheckStack \/ KillStack \/ DropRoute \/ WriteRoute
  \/ LaunchStack \/ StackAnswers \/ ReloadRoute \/ StackComesUp \/ StackFails \/ OutsideLocks
  \/ ListStack \/ ListRemoves \/ ListSyncs \/ OthersSync \/ AuthorityChanges
  \/ \E p \in Prober : ProbeStep(p)

\* What each probe could have met since it began: a stack that was not up; a missing site,
\* a Caddy that others had stopped, a certificate that changed meanwhile.
Observe ==
  witness' = [p \in Prober |->
    LET goesOn == probe'[p].at \notin {"idle", "first"} IN
    [down  |-> (goesOn /\ witness[p].down) \/ stackIs' # "up",
     upset |-> \/ goesOn /\ (witness[p].upset \/ (trusted /\ ~trusted'))
               \/ ~site'
               \/ ~caddyUp' /\ probe'[p].at # "start_caddy"]]

RouteNext == RouteStep /\ Observe

RouteSpec == RouteInit /\ [][RouteNext]_routeVars

-----------------------------------------------------------------------------

\* A probe says that the project does not run only if its stack was not up for a moment
\* meanwhile or the status was refused (as it always is inside an assessment); and it
\* fails on the stack's route only if its stack was down, its site missing, Caddy stopped
\* by someone else or one of its own repairs in vain: a stale route, a lost one and a
\* wrong certificate are mended (daemon.py:2220-2443).
ProbeTellsTruth ==
  \A p \in Prober :
    /\ probe[p].report = "not_running" => witness[p].down \/ probe[p].refused
    /\ probe[p].report = "failed" => witness[p].down \/ witness[p].upset \/ probe[p].failed

\* docs/poc-scope.md:49 says that the default app stack returns "browser-ready ingress URLs":
\* when a start has succeeded, the site they lead to is there.
BrowserReady == handlerAt = "reported" /\ handles = "start" => site
=============================================================================
