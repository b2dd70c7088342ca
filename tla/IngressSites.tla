---------------------------- MODULE IngressSites -----------------------------
(***************************************************************************)
(* The routes of the global ingress (ingress.py, daemon.py): the site      *)
(* files that projects and their controllers write, the Caddyfile that     *)
(* imports the directories of the known projects, and what Caddy has       *)
(* loaded.  Handlers of several projects synchronize at the same time,     *)
(* each one for all projects and from a list of its own.                   *)
(***************************************************************************)
EXTENDS Naturals, Sequences, FiniteSets, SequencesExt, SequenceParts

CONSTANTS
  Sync,      \* threads of the daemon in sync_projects
  SiteProject,
  Host,
  Site,      \* the site files of all projects
  HomeOf,    \* the project in whose directory each one is
  Claims,    \* the sets of hosts each one may be written with
  Workload,  \* the profile-workload.caddy files
  ByName,    \* files known as generated from their names
  ByText,    \* files known as generated from what is in them
  MaxChanges \* bound: how often projects and sites change

ASSUME SitesAssumption ==
  /\ HomeOf \in [Site -> SiteProject] /\ Claims \in [Site -> SUBSET SUBSET Host]
  /\ Workload \subseteq ByName /\ ByName \cap ByText = {}
  /\ ByName \cup ByText \subseteq Site /\ MaxChanges \in Nat

VARIABLES
  known,      \* _known_projects
  sites,      \* the site files in the order of their mtimes, the last one newest
  claimed,    \* the hosts in each of them
  caddyfile,  \* the projects it imports
  served,     \* the files Caddy has loaded, with the hosts they had
  at,         \* where each thread is
  list,       \* the projects it has listed
  found,      \* what it has left to settle: files by duplicate host
  visited,    \* the projects it has read
  clean,      \* no unresolved duplicate so far
  changes,    \* how often they have changed
  calm        \* history: no site or project has changed since it listed, and nothing
              \* read before such a change has been applied

sitesVars == <<known, sites, claimed, caddyfile, served, at, list, found, visited, clean, changes, calm>>

Settled == [h \in Host |-> {}]

SitesInit ==
  /\ known = {} /\ sites = <<>> /\ claimed = [f \in Site |-> {}]
  /\ caddyfile = {} /\ served = [f \in Site |-> {}]
  /\ at = [t \in Sync |-> "idle"] /\ list = [t \in Sync |-> {}]
  /\ found = [t \in Sync |-> Settled] /\ visited = [t \in Sync |-> {}]
  /\ clean = [t \in Sync |-> TRUE] /\ calm = [t \in Sync |-> TRUE] /\ changes = 0

SitesTypeOK ==
  /\ known \subseteq SiteProject /\ caddyfile \subseteq SiteProject
  /\ sites \in Seq(Site) /\ IsInjective(sites)
  /\ claimed \in [Site -> SUBSET Host] /\ served \in [Site -> SUBSET Host]
  /\ at \in [Sync -> {"idle", "reconcile", "write", "reload", "ok", "failed"}]
  /\ list \in [Sync -> SUBSET SiteProject] /\ visited \in [Sync -> SUBSET SiteProject]
  /\ found \in [Sync -> [Host -> SUBSET Site]]
  /\ clean \in [Sync -> BOOLEAN] /\ calm \in [Sync -> BOOLEAN] /\ changes \in 0..MaxChanges

Live == ToSet(sites)
HostFiles(h) == {f \in Live : h \in claimed[f]}
InProject(fs, p) == {f \in fs : HomeOf[f] = p}
NewestOf(fs) == CHOOSE f \in fs \cap Live : \A g \in fs \cap Live :
                  \E i, j \in 1..Len(sites) : i <= j /\ sites[i] = g /\ sites[j] = f
Disturb ==
  /\ changes < MaxChanges /\ changes' = changes + 1
  /\ calm' = [t \in Sync |-> FALSE]

\* The files that stay, in their order.
KeepSites(gone) ==
  /\ sites' = Selection(sites, Site \ gone)
  /\ claimed' = [f \in Site |-> IF f \in gone THEN {} ELSE claimed[f]]

-----------------------------------------------------------------------------
(* The handlers of the projects and their controllers. *)

Know(p) ==
  /\ p \notin known
  /\ known' = known \cup {p}
  /\ Disturb
  /\ UNCHANGED <<sites, claimed, caddyfile, served, at, list, found, visited, clean>>

\* Registry record and directory are gone, with the sites in it.
Forget(p) ==
  /\ p \in known
  /\ known' = known \ {p}
  /\ KeepSites(InProject(Site, p))
  /\ Disturb
  /\ UNCHANGED <<caddyfile, served, at, list, found, visited, clean>>

WriteSite(f, hosts) ==
  /\ HomeOf[f] \in known
  /\ sites' = Append(Selection(sites, Site \ {f}), f)
  /\ claimed' = [claimed EXCEPT ![f] = hosts]
  /\ Disturb
  /\ UNCHANGED <<known, caddyfile, served, at, list, found, visited, clean>>

RemoveSite(f) ==
  /\ f \in Live
  /\ KeepSites({f})
  /\ Disturb
  /\ UNCHANGED <<known, caddyfile, served, at, list, found, visited, clean>>

\* A controller, a stack or an operator writes a site whatever the others claim.
WriteOther(f) == f \notin Workload /\ \E hosts \in Claims[f] : WriteSite(f, hosts)

\* _write_profile_workload_ingress_sites: hosts that another site of the project has
\* are left out; without any left the file goes; the same content is not written again.
WriteWorkload(f) ==
  /\ f \in Workload
  /\ \E wanted \in Claims[f] :
       LET taken == UNION {claimed[g] : g \in InProject(Live, HomeOf[f]) \ {f}}
           routes == wanted \ taken
       IN IF routes = {} THEN RemoveSite(f)
          ELSE (f \notin Live \/ claimed[f] # routes) /\ WriteSite(f, routes)

-----------------------------------------------------------------------------
(* sync_projects. *)

BeginSync(t) ==
  /\ at[t] = "idle"
  /\ at' = [at EXCEPT ![t] = "reconcile"]
  /\ list' = [list EXCEPT ![t] = known]
  /\ visited' = [visited EXCEPT ![t] = {}]
  /\ clean' = [clean EXCEPT ![t] = TRUE] /\ calm' = [calm EXCEPT ![t] = TRUE]
  /\ UNCHANGED <<known, sites, claimed, caddyfile, served, found, changes>>

\* _reconcile_duplicate_caddy_hosts reads one directory...
ReadSites(t, p) ==
  /\ at[t] = "reconcile" /\ found[t] = Settled
  /\ p \in list[t] \ visited[t]
  /\ visited' = [visited EXCEPT ![t] = @ \cup {p}]
  /\ found' = [found EXCEPT ![t] = [h \in Host |->
       LET paths == InProject(HostFiles(h), p) IN IF Cardinality(paths) > 1 THEN paths ELSE {}]]
  /\ UNCHANGED <<known, sites, claimed, caddyfile, served, at, list, clean, changes, calm>>

\* Known as generated; the text of a file that has been moved cannot be read.
Generated(f) == f \in ByName \/ (f \in ByText /\ f \in Live)

Unsafe(others) == {f \in others : ~Generated(f)}

\* Mutant of Keep: the first one is kept, wherever it is by now.
KeepFirst(paths) == CHOOSE f \in paths : TRUE

\* _preferred_caddy_site: a file that is gone has no mtime.
Keep(paths) == IF paths \cap Live = {} THEN CHOOSE f \in paths : TRUE ELSE NewestOf(paths)

\* A file was found with a host that it no longer has.
Rewritten(t, h) == \E f \in found[t][h] \cap Live : h \notin claimed[f]

\* ...and settles its duplicate hosts one by one: all but the newest file are moved to
\* the quarantine, unless one of them is not WorkerBee's own.  What is no longer there
\* cannot be moved.
Settle(t, h) ==
  /\ at[t] = "reconcile" /\ found[t][h] # {}
  /\ LET others == found[t][h] \ {Keep(found[t][h])}
         taken == IF Unsafe(others) = {} THEN others \cap Live ELSE {}
     IN /\ KeepSites(taken)
        /\ clean' = [clean EXCEPT ![t] = @ /\ taken = others]
  /\ found' = [found EXCEPT ![t][h] = {}]
  /\ calm' = IF Rewritten(t, h) THEN [u \in Sync |-> FALSE] ELSE calm
  /\ UNCHANGED <<known, caddyfile, served, at, list, visited, changes>>

EndReconcile(t) ==
  /\ at[t] = "reconcile" /\ found[t] = Settled /\ visited[t] = list[t]
  /\ at' = [at EXCEPT ![t] = "write"]
  /\ UNCHANGED <<known, sites, claimed, caddyfile, served, list, found, visited, clean, changes, calm>>

\* _write_caddyfile: whatever was listed by another thread meanwhile is overwritten.
WriteCaddyfile(t) ==
  /\ at[t] = "write"
  /\ at' = [at EXCEPT ![t] = "reload"]
  /\ caddyfile' = list[t]
  /\ calm' = IF list[t] = known THEN calm ELSE [u \in Sync |-> FALSE]
  /\ UNCHANGED <<known, sites, claimed, served, list, found, visited, clean, changes>>

Imported == {f \in Live : HomeOf[f] \in caddyfile}
Ambiguous == \E f, g \in Imported : f # g /\ claimed[f] \cap claimed[g] # {}

\* Mutant of Reload: the return code is not looked at.
ReloadUnchecked(t) ==
  /\ at[t] = "reload"
  /\ IF Ambiguous THEN UNCHANGED served
     ELSE served' = [f \in Site |-> IF f \in Imported THEN claimed[f] ELSE {}]
  /\ at' = [at EXCEPT ![t] = "ok"]
  /\ UNCHANGED <<known, sites, claimed, caddyfile, list, found, visited, clean, changes, calm>>

\* `caddy reload` is refused an ambiguous configuration and keeps the old one; it may
\* fail or time out, too, whether or not it has loaded the new one.
Reload(t) ==
  /\ at[t] = "reload"
  /\ \/ /\ ~Ambiguous
        /\ served' = [f \in Site |-> IF f \in Imported THEN claimed[f] ELSE {}]
        /\ \E r \in {"ok", "failed"} : at' = [at EXCEPT ![t] = r]
     \/ at' = [at EXCEPT ![t] = "failed"] /\ UNCHANGED served
  /\ UNCHANGED <<known, sites, claimed, caddyfile, list, found, visited, clean, changes, calm>>

EndSync(t) ==
  /\ at[t] \in {"ok", "failed"}
  /\ at' = [at EXCEPT ![t] = "idle"]
  /\ list' = [list EXCEPT ![t] = {}] /\ visited' = [visited EXCEPT ![t] = {}]
  /\ clean' = [clean EXCEPT ![t] = TRUE] /\ calm' = [calm EXCEPT ![t] = TRUE]
  /\ UNCHANGED <<known, sites, claimed, caddyfile, served, found, changes>>

SyncStep(t) ==
  \/ BeginSync(t) \/ EndReconcile(t) \/ WriteCaddyfile(t) \/ Reload(t) \/ EndSync(t)
  \/ \E p \in SiteProject : ReadSites(t, p)
  \/ \E h \in Host : Settle(t, h)

SitesNext ==
  \/ \E p \in SiteProject : Know(p) \/ Forget(p)
  \/ \E f \in Site : WriteOther(f) \/ WriteWorkload(f) \/ RemoveSite(f)
  \/ \E t \in Sync : SyncStep(t)

SitesSpec == SitesInit /\ [][SitesNext]_sitesVars

-----------------------------------------------------------------------------
(* What it promises. *)

\* Reconciliation takes nothing that WorkerBee did not write, and a host's last site
\* only in a file that claims other hosts too, whatever has been moved or removed since
\* the directory was read.  Only a file rewritten without the host meanwhile may be
\* kept in the place of one that still has it (_preferred_caddy_site goes by the
\* mtimes of the moment, the hosts are those read before).
SiteKept ==
  [][\A t \in Sync, d \in Host : Settle(t, d) =>
       LET taken == Live \ ToSet(sites') IN
       /\ taken \subseteq ByName \cup ByText
       /\ ~Rewritten(t, d) =>
            \A h \in Host : HostFiles(h) # {} /\ HostFiles(h) \subseteq taken =>
              \E f \in HostFiles(h) : claimed[f] # {h}]_sitesVars

CleanIsClear ==
  \A t \in Sync : at[t] = "write" /\ clean[t] /\ calm[t] =>
    \A f, g \in Live : f # g /\ HomeOf[f] = HomeOf[g] => claimed[f] \cap claimed[g] = {}

SyncedIsServed ==
  \A t \in Sync : at[t] = "ok" /\ calm[t] =>
    served = [f \in Site |-> IF f \in Live THEN claimed[f] ELSE {}]

\* A reconciliation that reports no problem leaves no host with two sites in the
\* directories it has been through, unless one was written meanwhile, even when other
\* threads move the same files (ingress.py:775-865, route_reconciliation).  And when a
\* synchronization reports success, Caddy serves every site of every known project and
\* nothing else, with other synchronizations under way or not, unless a site or a project
\* has changed meanwhile, or another thread has applied a list or a finding from before
\* such a change (sync_projects, "synced").
SyncTellsTruth == CleanIsClear /\ SyncedIsServed
=============================================================================
