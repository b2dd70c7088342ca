------------------------------ MODULE McpDaemon ------------------------------
(***************************************************************************)
(* The background MCP daemon (mcp_daemon.py) of one state root and port:   *)
(* `workerbee mcp start`, `stop` and `restart`, run by CLI processes that  *)
(* do not exclude each other and may be interrupted, and the daemons they  *)
(* spawn (serve_mcp of mcp_server.py).  The daemon is found through the    *)
(* process id in global/mcp-daemon.json or, when there is no such file, by *)
(* its command line in the process table.                                  *)
(*                                                                         *)
(* The runtime is not containerd: the privilege helper takes no part.      *)
(***************************************************************************)
EXTENDS FiniteSets

CONSTANTS
  Cli,      \* processes that run one mcp command at a time
  Pid,      \* process ids for daemons; the system reuses them
  Stranger, \* ids a process that is not WorkerBee's may get
  Nobody      \* no metadata, no process, no parent

ASSUME McpAssumption == Stranger \subseteq Pid /\ Nobody \notin Cli \cup Pid

VARIABLES
  meta,      \* the pid in mcp-daemon.json
  proc,      \* what runs under each process id
  parent,    \* the CLI that spawned it, while that CLI lives
  lock,      \* who holds global/daemon.lock
  port,      \* who is bound to the MCP port
  ingress,   \* whether the global Caddy container runs
  cliAt,        \* where each CLI is
  op,        \* the command it runs
  after,     \* where it goes on when stop_mcp_daemon or a round of kills is over
  child,     \* the daemon it has spawned
  targets,   \* the processes it has still to terminate, and the one it is at
  victim,
  resisted,  \* those it had to SIGKILL
  tried,     \* restart has looked for orphans on the port
  alone,     \* history: no other command has run since it began
  mistaken   \* history: a stranger has had the process id the metadata names

kernel == <<proc, parent, lock, port>>
killing == <<targets, victim, resisted>>
local == <<op, after, child, killing, tried>>
history == <<alone, mistaken>>
mcpVars == <<meta, ingress, kernel, cliAt, local, history>>

\* "zombie": dead, and its parent has not waited for it.
State == {"free", "booting", "locked", "ready", "serving", "leaving", "killed",
          "zombie", "stranger"}

Running == {"settings", "restart", "status", "stop", "kill", "wait", "ingress", "check", "ingress_then_unlink",
            "unlink", "orphans", "bindable", "spawn", "write", "poll", "record",
            "forget", "release"}
\* What the command reports before its process exits.
Report == {"running", "started", "stopped", "failed"}
CliPlace == Running \cup Report \cup {"idle"}

\* Types; a command waits for one process at a time (_terminate_process_group).
McpTypeOK ==
  /\ meta \in Pid \cup {Nobody}
  /\ proc \in [Pid -> State]
  /\ parent \in [Pid -> Cli \cup {Nobody}]
  /\ lock \in Pid \cup {Nobody} /\ port \in Pid \cup {Nobody}
  /\ ingress \in BOOLEAN
  /\ cliAt \in [Cli -> CliPlace]
  /\ op \in [Cli -> {"start", "stop", "restart", Nobody}]
  /\ after \in [Cli -> [stop : CliPlace, kill : CliPlace]]
  /\ child \in [Cli -> Pid \cup {Nobody}]
  /\ targets \in [Cli -> SUBSET Pid] /\ resisted \in [Cli -> SUBSET Pid]
  /\ victim \in [Cli -> Pid \cup {Nobody}]
  /\ \A c \in Cli : cliAt[c] = "wait" <=> victim[c] # Nobody
  /\ tried \in [Cli -> BOOLEAN] /\ alone \in [Cli -> BOOLEAN] /\ mistaken \in BOOLEAN

McpInit ==
  /\ meta = Nobody /\ lock = Nobody /\ port = Nobody /\ ingress = FALSE
  /\ proc = [p \in Pid |-> "free"]
  /\ parent = [p \in Pid |-> Nobody]
  /\ cliAt = [c \in Cli |-> "idle"]
  /\ op = [c \in Cli |-> Nobody]
  /\ after = [c \in Cli |-> [stop |-> "idle", kill |-> "idle"]]
  /\ child = [c \in Cli |-> Nobody]
  /\ targets = [c \in Cli |-> {}] /\ resisted = [c \in Cli |-> {}]
  /\ victim = [c \in Cli |-> Nobody]
  /\ tried = [c \in Cli |-> FALSE]
  /\ alone = [c \in Cli |-> FALSE] /\ mistaken = FALSE

-----------------------------------------------------------------------------
(* The settings of a command, as its options, the environment and the host give them. *)

Settings ==
  [loopback : BOOLEAN, remote : BOOLEAN,
   exposure : {"loopback", "lan", "other"}, domain : {"none", "localhost", "other"},
   bind : BOOLEAN, port : BOOLEAN,
   dns : {"off", "forwarding", "other"}, dns_port : BOOLEAN,
   answer : {"none", "address", "other"}, upstream : BOOLEAN]

\* require_mcp_loopback_or_opt_in.
HostAllowed(s) == s.loopback \/ s.remote

\* resolve_dns_settings: forwarding needs addresses and a resolver, and a LAN to serve.
DnsAccepted(s) ==
  \/ s.dns = "off"
  \/ /\ s.dns = "forwarding" /\ s.exposure = "lan"
     /\ s.dns_port /\ s.answer = "address" /\ s.upstream

\* resolve_ingress_settings: names under .localhost mean another host's loopback on a LAN.
IngressAccepted(s) ==
  /\ s.exposure \in {"loopback", "lan"} /\ s.bind /\ s.port
  /\ ~(s.exposure = "lan" /\ s.domain = "localhost")
  /\ DnsAccepted(s)

\* Whether they are accepted, and whether a port for DNS is asked for.
Resolved == {[ok |-> HostAllowed(s) /\ IngressAccepted(s), dns |-> s.dns # "off"] : s \in Settings}

-----------------------------------------------------------------------------
(* The process table. *)

\* os.kill(pid, 0) finds zombies as well.
Alive(p) == proc[p] # "free"

Daemon(p) == proc[p] \in {"booting", "locked", "ready", "serving", "leaving", "killed"}

\* A daemon that serves or may come to.
Lives(p) == Daemon(p) /\ proc[p] # "killed"

\* Mutant of Matches: any live process is the daemon.
MatchesAnyone(p) == Alive(p)

\* The command line is a daemon's, or cannot be read, as a zombie's.
Matches(p) == Daemon(p) \/ proc[p] = "zombie"

\* Mutant of Orphans: only processes that have got as far as the port.
ListeningOrphans == {p \in Pid : proc[p] = "serving"}

\* Daemons of this state root and port in the process table, metadata or not.
Orphans == {p \in Pid : Daemon(p)}

Released(x, p) == IF x = p THEN Nobody ELSE x

\* The process is gone; its id stays taken until a living parent has waited.
Exit(p) ==
  /\ proc' = [proc EXCEPT ![p] = IF parent[p] = Nobody THEN "free" ELSE "zombie"]
  /\ lock' = Released(lock, p)
  /\ port' = Released(port, p)
  /\ UNCHANGED parent

\* serve_mcp resolves its settings once more, and ends with an error if it may not go on.
Configure(p) ==
  /\ proc[p] = "booting"
  /\ \E r \in Resolved : ~r.ok
  /\ Exit(p)
  /\ UNCHANGED <<meta, ingress, cliAt, local, history>>

\* WorkerBeeDaemon.start: the state root's lock first.
TakeLock(p) ==
  /\ proc[p] = "booting"
  /\ IF lock = Nobody
       THEN /\ lock' = p
            /\ proc' = [proc EXCEPT ![p] = "locked"]
            /\ UNCHANGED <<parent, port>>
       ELSE Exit(p)
  /\ UNCHANGED <<meta, ingress, cliAt, local, history>>

IngressUp(p) ==
  /\ proc[p] = "locked"
  /\ \/ /\ proc' = [proc EXCEPT ![p] = "ready"]
        /\ ingress' = TRUE
        /\ UNCHANGED <<parent, lock, port>>
     \/ Exit(p) /\ ingress' \in {ingress, TRUE}
  /\ UNCHANGED <<meta, cliAt, local, history>>

\* mcp.run: a port in use ends it like any other return.
Bind(p) ==
  /\ proc[p] = "ready"
  /\ IF port = Nobody
       THEN port' = p /\ proc' = [proc EXCEPT ![p] = "serving"]
       ELSE port' = port /\ proc' = [proc EXCEPT ![p] = "leaving"]
  /\ UNCHANGED <<meta, ingress, parent, lock, cliAt, local, history>>

\* The dashboard's shutdown action: SIGINT to itself.
Shutdown(p) ==
  /\ proc[p] = "serving"
  /\ proc' = [proc EXCEPT ![p] = "leaving"]
  /\ port' = Nobody
  /\ UNCHANGED <<meta, ingress, parent, lock, cliAt, local, history>>

\* The dashboard's reboot action: exec keeps the pid and closes lock and port.
Reboot(p) ==
  /\ proc[p] = "serving"
  /\ proc' = [proc EXCEPT ![p] = "booting"]
  /\ lock' = Nobody /\ port' = Nobody
  /\ UNCHANGED <<meta, ingress, parent, cliAt, local, history>>

\* _release_foreground_privilege, which may fail to stop the ingress; then the process ends.
Leave(p) ==
  /\ proc[p] = "leaving"
  /\ ingress' \in {ingress, FALSE}
  /\ Exit(p)
  /\ UNCHANGED <<meta, cliAt, local, history>>

\* It dies by a signal or by itself, without its finally clause.
Die(p) ==
  /\ Daemon(p)
  /\ Exit(p)
  /\ UNCHANGED <<meta, ingress, cliAt, local, history>>

\* Someone else's process gets the id, or ends.  Ids are allocated in a cycle:
\* none comes back within the seconds a command spends on terminating it.
Reuse(p) ==
  /\ p \in Stranger
  /\ \A c \in Cli : p \notin targets[c] \cup resisted[c]
  /\ \/ proc[p] = "free" /\ proc' = [proc EXCEPT ![p] = "stranger"]
     \/ proc[p] = "stranger" /\ proc' = [proc EXCEPT ![p] = "free"]
  /\ mistaken' = (mistaken \/ meta = p)
  /\ UNCHANGED <<meta, ingress, parent, lock, port, cliAt, local, alone>>

\* The default action kills a daemon that is not yet serving.
Sigterm(p) ==
  /\ proc' = [proc EXCEPT ![p] =
        CASE @ = "serving" -> "leaving"
          [] @ \in {"booting", "locked", "ready", "stranger"} -> "killed"
          [] OTHER -> @]
  /\ port' = Released(port, p)

-----------------------------------------------------------------------------
(* The commands. *)

Goto(c, l) == cliAt' = [cliAt EXCEPT ![c] = l]

Call(c, o) ==
  /\ cliAt[c] = "idle"
  /\ op' = [op EXCEPT ![c] = o]
  /\ Goto(c, CASE o = "start" -> "settings" [] o = "restart" -> "restart" [] o = "stop" -> "stop")
  /\ after' = [after EXCEPT ![c].stop = IF o = "restart" THEN "release" ELSE "stopped"]
  /\ alone' = [d \in Cli |-> IF d = c THEN \A e \in Cli \ {c} : cliAt[e] = "idle" ELSE FALSE]
  /\ UNCHANGED <<meta, ingress, kernel, child, killing, tried, mistaken>>

\* The CLI process exits: init adopts its children and waits for the dead ones.
Leaves(c) ==
  /\ Goto(c, "idle")
  /\ op' = [op EXCEPT ![c] = Nobody]
  /\ after' = [after EXCEPT ![c] = [stop |-> "idle", kill |-> "idle"]]
  /\ child' = [child EXCEPT ![c] = Nobody]
  /\ targets' = [targets EXCEPT ![c] = {}]
  /\ victim' = [victim EXCEPT ![c] = Nobody]
  /\ resisted' = [resisted EXCEPT ![c] = {}]
  /\ tried' = [tried EXCEPT ![c] = FALSE]
  /\ alone' = [alone EXCEPT ![c] = FALSE]
  /\ proc' = [p \in Pid |-> IF parent[p] = c /\ proc[p] = "zombie" THEN "free" ELSE proc[p]]
  /\ parent' = [p \in Pid |-> Released(parent[p], c)]
  /\ UNCHANGED <<meta, ingress, lock, port, mistaken>>

Exits(c) == cliAt[c] \in Report /\ Leaves(c)

\* Ctrl-C: KeyboardInterrupt passes every handler.
Interrupt(c) == cliAt[c] \in Running /\ Leaves(c)

\* Go on terminating the processes S, and then at l.
Kill(c, S, l) ==
  /\ Goto(c, "kill")
  /\ targets' = [targets EXCEPT ![c] = S]
  /\ resisted' = [resisted EXCEPT ![c] = {}]
  /\ after' = [after EXCEPT ![c].kill = l]

\* Settings that are refused end a start, and a restart before it stops anything.
Settle(c) ==
  /\ cliAt[c] \in {"settings", "restart"}
  /\ \E r \in Resolved :
       Goto(c, CASE ~r.ok -> "failed"
                 [] r.ok /\ cliAt[c] = "settings" -> "status"
                 [] OTHER -> "stop")
  /\ UNCHANGED <<meta, ingress, kernel, local, history>>

\* mcp_daemon_status.
DaemonStatus ==
  LET running == IF meta = Nobody THEN Orphans # {} ELSE Matches(meta)
  IN [running |-> running, stale |-> meta # Nobody /\ ~running]

\* The beginning of start_mcp_daemon.
Status(c) ==
  /\ cliAt[c] = "status"
  /\ Goto(c, CASE DaemonStatus.running -> "running"
               [] DaemonStatus.stale -> "stop"
               [] OTHER -> "orphans")
  /\ after' = [after EXCEPT ![c].stop = "orphans"]
  /\ UNCHANGED <<meta, ingress, kernel, op, child, killing, tried, history>>

\* Mutant of KillOrphans: they are left for the port check to find.
KillNoOrphans(c) ==
  /\ cliAt[c] = "orphans"
  /\ Kill(c, {}, "bindable")
  /\ UNCHANGED <<meta, ingress, kernel, op, child, victim, tried, history>>

KillOrphans(c) ==
  /\ cliAt[c] = "orphans"
  /\ Kill(c, Orphans, "bindable")
  /\ UNCHANGED <<meta, ingress, kernel, op, child, victim, tried, history>>

\* _mcp_port_available.
PortAvailable == port = Nobody

\* dns_port_available: UDP and TCP, unless another program has the one or the other.
DnsPortAvailable(r, taken) == r.dns => ~taken

Bindable(c) ==
  /\ cliAt[c] = "bindable"
  /\ \E r \in {r \in Resolved : r.ok}, taken \in BOOLEAN :
       Goto(c, IF PortAvailable /\ DnsPortAvailable(r, taken) THEN "spawn" ELSE "failed")
  /\ UNCHANGED <<meta, ingress, kernel, local, history>>

\* Popen, which may fail (MCP_SPAWN_FAILED) and does when no process id is free.
Spawn(c) ==
  /\ cliAt[c] = "spawn"
  /\ \/ \E p \in Pid :
          /\ proc[p] = "free"
          /\ proc' = [proc EXCEPT ![p] = "booting"]
          /\ parent' = [parent EXCEPT ![p] = c]
          /\ child' = [child EXCEPT ![c] = p]
          /\ Goto(c, "write")
     \/ Goto(c, "failed") /\ UNCHANGED <<proc, parent, child>>
  /\ UNCHANGED <<meta, ingress, lock, port, op, after, killing, tried, history>>

\* The metadata is written after Popen, and again with the URLs of a ready daemon.
WriteMetadata(c) ==
  /\ cliAt[c] \in {"write", "record"}
  /\ meta' = child[c]
  /\ Goto(c, IF cliAt[c] = "write" THEN "poll" ELSE "started")
  /\ UNCHANGED <<ingress, kernel, local, history>>

\* _dashboard_healthy: by its name, or over the loopback.
DashboardHealthy == ingress

\* _wait_ready: whatever process the metadata names by now, the port answers and
\* so does the dashboard behind the ingress.
Ready(c) ==
  /\ cliAt[c] = "poll"
  /\ meta # Nobody /\ Matches(meta)
  /\ ~PortAvailable /\ DashboardHealthy
  /\ Goto(c, "record")
  /\ UNCHANGED <<meta, ingress, kernel, local, history>>

\* Mutant of NotReady: no deadline.
NotReadyIfDead(c) ==
  /\ cliAt[c] = "poll"
  /\ meta # Nobody /\ ~Alive(meta)
  /\ Goto(c, "stop")
  /\ after' = [after EXCEPT ![c].stop = "forget"]
  /\ UNCHANGED <<meta, ingress, kernel, op, child, killing, tried, history>>

\* _raise_if_dead or the deadline, then _cleanup_failed_start.
NotReady(c) ==
  /\ cliAt[c] = "poll"
  /\ Goto(c, "stop")
  /\ after' = [after EXCEPT ![c].stop = "forget"]
  /\ UNCHANGED <<meta, ingress, kernel, op, child, killing, tried, history>>

Forget(c) ==
  /\ cliAt[c] = "forget"
  /\ meta' = Nobody
  /\ Goto(c, "failed")
  /\ UNCHANGED <<ingress, kernel, local, history>>

\* stop_mcp_daemon: what the metadata leads to.
Stop(c) ==
  /\ cliAt[c] = "stop"
  /\ \/ meta = Nobody /\ Kill(c, Orphans, "ingress")
     \/ meta # Nobody /\ Matches(meta) /\ Kill(c, {meta}, "check")
     \/ /\ meta # Nobody /\ ~Alive(meta)
        /\ Goto(c, "ingress_then_unlink")
        /\ UNCHANGED <<targets, resisted, after>>
     \/ /\ meta # Nobody /\ Alive(meta) /\ ~Matches(meta)
        /\ Goto(c, IF after[c].stop = "stopped" THEN "failed" ELSE after[c].stop)
        /\ UNCHANGED <<targets, resisted, after>>
  /\ UNCHANGED <<meta, ingress, kernel, op, child, victim, tried, history>>

\* _terminate_process_group on one process after the other.
Terminate(c) ==
  /\ cliAt[c] = "kill"
  /\ \E p \in targets[c] :
       /\ victim' = [victim EXCEPT ![c] = p]
       /\ Sigterm(p)
  /\ Goto(c, "wait")
  /\ UNCHANGED <<meta, ingress, parent, lock, op, after, child, targets, resisted, tried, history>>

\* On to the next process.
Next1(c) ==
  /\ Goto(c, "kill")
  /\ targets' = [targets EXCEPT ![c] = @ \ {victim[c]}]
  /\ victim' = [victim EXCEPT ![c] = Nobody]

Gone(c) ==
  /\ cliAt[c] = "wait"
  /\ ~Alive(victim[c])
  /\ Next1(c)
  /\ UNCHANGED <<meta, ingress, kernel, op, after, child, resisted, tried, history>>

Sigkill(c) ==
  /\ cliAt[c] = "wait"
  /\ Alive(victim[c])
  /\ resisted' = [resisted EXCEPT ![c] = @ \cup {victim[c]}]
  /\ proc' = [proc EXCEPT ![victim[c]] = IF @ \in {"zombie", "free"} THEN @ ELSE "killed"]
  /\ Next1(c)
  /\ UNCHANGED <<meta, ingress, parent, lock, port, op, after, child, tried, history>>

Killed(c) ==
  /\ cliAt[c] = "kill" /\ targets[c] = {}
  /\ Goto(c, after[c].kill)
  /\ UNCHANGED <<meta, ingress, kernel, local, history>>

Survives(c) == \E p \in resisted[c] : Alive(p)

\* stop_mcp_daemon returns; it reports a process that has survived.
Return(c) == IF after[c].stop = "stopped" /\ Survives(c) THEN "running" ELSE after[c].stop

\* The process of the metadata has not gone: everything is left as it is.
Check(c) ==
  /\ cliAt[c] = "check"
  /\ Goto(c, IF Survives(c) THEN Return(c) ELSE "ingress_then_unlink")
  /\ UNCHANGED <<meta, ingress, kernel, local, history>>

\* _stop_global_ingress: a failure is part of the result and changes nothing else in it.
StopIngress(c) ==
  /\ cliAt[c] \in {"ingress", "ingress_then_unlink"}
  /\ ingress' \in {ingress, FALSE}
  /\ Goto(c, IF cliAt[c] = "ingress" THEN Return(c) ELSE "unlink")
  /\ UNCHANGED <<meta, kernel, local, history>>

Unlink(c) ==
  /\ cliAt[c] = "unlink"
  /\ meta' = Nobody
  /\ Goto(c, Return(c))
  /\ UNCHANGED <<ingress, kernel, local, history>>

\* restart_mcp_daemon waits for the port, terminating orphans once, and starts a daemon.
AwaitPort(c) ==
  /\ cliAt[c] = "release"
  /\ \/ /\ PortAvailable
        /\ Goto(c, "settings")
        /\ UNCHANGED <<after, targets, resisted, tried>>
     \/ /\ ~PortAvailable /\ ~tried[c]
        /\ tried' = [tried EXCEPT ![c] = TRUE]
        /\ Kill(c, Orphans, "release")
     \/ /\ ~PortAvailable /\ tried[c]
        /\ Goto(c, "failed")
        /\ UNCHANGED <<after, targets, resisted, tried>>
  /\ UNCHANGED <<meta, ingress, kernel, op, child, victim, history>>

CliStep(c) ==
  \/ Settle(c) \/ Status(c) \/ KillOrphans(c) \/ Bindable(c) \/ Spawn(c) \/ WriteMetadata(c)
  \/ Ready(c) \/ NotReady(c) \/ Forget(c)
  \/ Stop(c) \/ Terminate(c) \/ Gone(c) \/ Sigkill(c) \/ Killed(c) \/ Check(c)
  \/ StopIngress(c) \/ Unlink(c) \/ AwaitPort(c)
  \/ Exits(c)

DaemonAct(p) ==
  \/ Configure(p) \/ TakeLock(p) \/ IngressUp(p) \/ Bind(p)
  \/ Shutdown(p) \/ Reboot(p) \/ Leave(p) \/ Die(p) \/ Reuse(p)

-----------------------------------------------------------------------------
(* What the commands promise. *)

\* When `mcp stop`, with no other command running, reports that no daemon runs,
\* none does and none is coming up, whatever interrupted commands, crashes and
\* reboots came before (stop_mcp_daemon; docs/poc-scope.md:39).  It says nothing
\* of the global ingress, which may have failed to stop.
StopStops ==
  \A c \in Cli : cliAt[c] = "stopped" /\ alone[c] /\ ~mistaken => \A p \in Pid : ~Lives(p)

\* When `mcp start` reports that it has started a daemon, the metadata names that
\* daemon and no other serves in its place (start_mcp_daemon, _wait_ready).
StartedIsMine ==
  \A c \in Cli : cliAt[c] = "started" => /\ meta = child[c]
                                     /\ \A p \in Pid \ {child[c]} : ~Lives(p)

\* No command signals a process that is not WorkerBee's, whoever has the id in
\* old metadata by now (_pid_matches_metadata).
SparesStrangers ==
  [][\A p \in Pid : proc[p] = "stranger" => proc'[p] \in {"stranger", "free"}]_mcpVars

McpNext ==
  \/ \E c \in Cli : CliStep(c) \/ Interrupt(c) \/ \E o \in {"start", "stop", "restart"} : Call(c, o)
  \/ \E p \in Pid : DaemonAct(p)

McpFairness == \A c \in Cli : WF_mcpVars(CliStep(c))

McpSpec == McpInit /\ [][McpNext]_mcpVars /\ McpFairness

\* Every command comes to an end, whatever happens to the daemon and its metadata
\* (the deadlines of _wait_ready, _terminate_process_group, _wait_for_port_release).
CommandEnds == \A c \in Cli : cliAt[c] # "idle" ~> cliAt[c] = "idle"
=============================================================================
