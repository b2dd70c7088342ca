--------------------------- MODULE Background_proofs ---------------------------
(***************************************************************************)
(* The background components of the daemon, for every number of handlers,  *)
(* processes, updates and jobs: the project's runbook, the mcp daemon, the *)
(* privilege helper and the dashboard's jobs keep what they promise.       *)
(***************************************************************************)
EXTENDS Runbook, McpDaemon, ContainerdHelper, DashboardJobs, SequenceParts_proofs

-----------------------------------------------------------------------------
(* The runbook. *)

(* A text can be read in a snapshot, or a status has written over it; or   *)
(* it can be read in the runbook itself.                                   *)
Saved(t) == \E s \in snapshots \cup overrun : t \subseteq s
Readable(t) == Saved(t) \/ (runbook # NoText /\ t \subseteq runbook)

(* Before the runbook is emptied everything in it is in a snapshot.  While *)
(* it is written, what has been accepted is in the snapshots; until the    *)
(* metadata are written, the new text is where it has been put.            *)
RunbookInv ==
  /\ RunbookTypeOK
  /\ \A t \in accepted : Readable(t)
  /\ holder.at \in {"ensure", "ensured"} => holder.command \in {"append", "export", "ensure"}
  /\ holder.at \in {"ensure", "ensured"} /\ holder.command = "append" =>
       runbook \in {NoText, {}}
  /\ holder.at = "open" => runbook \in snapshots \cup {NoText, {}}
  /\ holder.at \in {"ensure", "ensured"} => (holder.command = "append" <=> holder.text # NoText)
  /\ holder.at \in {"snapshot", "open", "write"} => holder.text # NoText
  /\ holder.at = "export" => holder.text = NoText
  /\ holder.at = "write" => runbook = {}
  /\ holder.at = "describe" /\ holder.text # NoText => Readable(holder.text)

LEMMA RunbookInitInv == RunbookInit => RunbookInv
<1> SUFFICES ASSUME RunbookInit PROVE RunbookInv
  OBVIOUS
<1>1. RunbookTypeOK
  BY DEF RunbookInit, RunbookTypeOK, Text, Idle
<1> QED
  BY <1>1 DEF RunbookInit, RunbookInv, Idle

LEMMA RunbookStepInv == RunbookInv /\ [RunbookNext]_runbookVars => RunbookInv'
<1> SUFFICES ASSUME RunbookInv, [RunbookNext]_runbookVars PROVE RunbookInv'
  OBVIOUS
<1> USE RunbookAssumption
    DEF RunbookInv, RunbookTypeOK, Text, Readable, Saved, files, past, HolderAt
<1>1. CASE BeginRunbook
  BY <1>1 DEF BeginRunbook, Idle, Acceptable
<1>2. CASE Snapshot
  BY <1>2 DEF Snapshot
<1>3. CASE EnsureRunbook
  BY <1>3 DEF EnsureRunbook
<1>4. CASE EnsureMetadata
  BY <1>4 DEF EnsureMetadata
<1>5. CASE OpenRunbook
  <2>1. /\ runbook' = {} /\ snapshots' = snapshots /\ overrun' = overrun
        /\ accepted' = accepted
    BY <1>5 DEF OpenRunbook
  <2>2. RunbookTypeOK'
    BY <1>5 DEF OpenRunbook
  <2>3. holder'.at = "write" /\ holder'.text # NoText
    BY <1>5 DEF OpenRunbook
  <2>4. ASSUME NEW t \in accepted PROVE Readable(t)'
    <3>1. CASE runbook # NoText /\ t \subseteq runbook
      BY <1>5, <2>1, <3>1 DEF OpenRunbook
    <3> QED
      BY <2>1, <3>1
  <2> QED
    BY <2>1, <2>2, <2>3, <2>4
<1>6. CASE WriteRunbook
  BY <1>6 DEF WriteRunbook
<1>7. CASE DescribeRunbook
  BY <1>7 DEF DescribeRunbook
<1>8. CASE ExportRunbook
  BY <1>8 DEF ExportRunbook
<1>9. CASE PurgeRunbook
  BY <1>9 DEF PurgeRunbook
<1>10. CASE EndRunbook
  BY <1>10 DEF EndRunbook, Idle
<1>11. CASE ReadStatus
  BY <1>11 DEF ReadStatus, ReaderAt
<1>12. CASE CreateRunbook
  BY <1>12 DEF CreateRunbook, ReaderAt
<1>13. CASE CreateMetadata
  BY <1>13 DEF CreateMetadata, ReaderAt
<1>14. CASE RepoEdited
  BY <1>14 DEF RepoEdited
<1>15. CASE RunbookDies
  BY <1>15 DEF RunbookDies, Idle
<1>16. CASE UNCHANGED runbookVars
  BY <1>16 DEF runbookVars
<1> QED
  BY <1>1, <1>2, <1>3, <1>4, <1>5, <1>6, <1>7, <1>8, <1>9, <1>10, <1>11, <1>12, <1>13,
     <1>14, <1>15, <1>16 DEF RunbookNext

(* The invariant holds in every behaviour. *)
THEOREM RunbookInvariant == RunbookSpec => []RunbookInv
BY RunbookInitInv, RunbookStepInv, PTL DEF RunbookSpec

(* The runbook's files, the handlers' places and the history keep their    *)
(* types (runbooks.py:199-347).                                            *)
THEOREM RunbookTypeCorrect == RunbookSpec => []RunbookTypeOK
<1>1. RunbookInv => RunbookTypeOK
  BY DEF RunbookInv
<1> QED
  BY <1>1, RunbookInvariant, PTL

(* What an update or an import has reported as written can still be read,  *)
(* in the runbook or in a snapshot, whatever handler died in the middle,   *)
(* unless a status without the lock wrote over it (runbooks.py:199-347).   *)
THEOREM UpdatesAreKept == RunbookSpec => []UpdatesKept
<1>1. RunbookInv => UpdatesKept
  BY DEF RunbookInv, UpdatesKept, Readable, Saved
<1> QED
  BY <1>1, RunbookInvariant, PTL

-----------------------------------------------------------------------------
(* The background MCP daemon. *)

(* Only processes that were daemons, or their zombies, are on the list of  *)
(* a command that terminates them, and it is at one of those.              *)
Spared(c) ==
  /\ \A p \in targets[c] : proc[p] # "stranger"
  /\ victim[c] # Nobody => victim[c] \in targets[c]

(* Where a command goes on.                                                *)
Ahead(c) ==
  /\ after[c].kill \in {"idle", "bindable", "ingress", "check", "release"}
  /\ after[c].stop \in {"idle", "stopped", "release", "orphans", "forget"}

SignalInv == McpTypeOK /\ \A c \in Cli : Spared(c) /\ Ahead(c)

(* No process outside S serves or may come to.                             *)
LiveIn(S) == \A p \in Pid : Lives(p) => p \in S

(* What a command has left alive where it is.                              *)
Starting(c) ==
  /\ cliAt[c] \in {"kill", "wait"} /\ after[c].kill \in {"bindable", "ingress"} => LiveIn(targets[c])
  /\ cliAt[c] \in {"bindable", "spawn", "ingress"} => LiveIn({})
  /\ cliAt[c] \in {"write", "poll", "record", "started"} => child[c] \in Pid /\ LiveIn({child[c]})
  /\ cliAt[c] \in {"poll", "record", "started"} => meta = child[c]
  /\ cliAt[c] \in {"write", "poll", "record"} =>
       parent[child[c]] = c /\ proc[child[c]] \notin {"free", "stranger"}

Outdated(c) ==
  /\ cliAt[c] = "restart" => after[c].stop = "release"
  /\ cliAt[c] = "stop" /\ after[c].stop = "orphans" => meta # Nobody /\ ~Matches(meta)
  /\ \/ cliAt[c] \in {"kill", "wait"} /\ after[c].kill \in {"check", "ingress"}
     \/ cliAt[c] \in {"check", "ingress"}
     => after[c].stop # "orphans"

(* As long as no stranger has had its process id, the metadata names the   *)
(* only daemon there may be.                                               *)
Stopping(c) ==
  /\ \/ cliAt[c] \in {"orphans", "bindable", "spawn"}
     \/ cliAt[c] \in {"kill", "wait"} /\ after[c].kill = "bindable"
     => meta = Nobody
  /\ cliAt[c] \in {"kill", "wait"} /\ after[c].kill = "check" => LiveIn(targets[c])
  /\ cliAt[c] \in {"check", "ingress_then_unlink", "unlink", "stopped"} => LiveIn({})

Named ==
  /\ meta # Nobody => LiveIn({meta})
  /\ meta # Nobody => proc[meta] # "stranger"

CommandInv ==
  /\ SignalInv
  /\ \A c \in Cli : Starting(c) /\ Outdated(c)
  /\ ~mistaken => Named /\ \A c \in Cli : Stopping(c)

LEMMA SignalInitInv == McpInit => SignalInv
<1> SUFFICES ASSUME McpInit PROVE SignalInv
  OBVIOUS
<1>1. McpTypeOK
  BY McpAssumption DEF McpInit, McpTypeOK, State, CliPlace
<1> QED
  BY <1>1, McpAssumption DEF McpInit, SignalInv, Spared, Ahead

LEMMA SignalStepInv == SignalInv /\ [McpNext]_mcpVars => SignalInv'
<1> SUFFICES ASSUME SignalInv, [McpNext]_mcpVars PROVE SignalInv'
  OBVIOUS
<1> USE McpAssumption
    DEF SignalInv, McpTypeOK, Spared, Ahead, State, CliPlace, Running, Report, kernel, killing, local,
        history, Goto
<1>1. ASSUME NEW c \in Cli, NEW o \in {"start", "stop", "restart"}, Call(c, o) PROVE SignalInv'
  BY <1>1 DEF Call
<1>2. ASSUME NEW c \in Cli, Leaves(c) PROVE SignalInv'
  BY <1>2 DEF Leaves, Released
<1>3. ASSUME NEW c \in Cli, Settle(c) PROVE SignalInv'
  BY <1>3 DEF Settle
<1>4. ASSUME NEW c \in Cli, Status(c) PROVE SignalInv'
  BY <1>4 DEF Status
<1>5. ASSUME NEW c \in Cli, KillOrphans(c) PROVE SignalInv'
  BY <1>5 DEF KillOrphans, Kill, Orphans, Daemon
<1>6. ASSUME NEW c \in Cli, Bindable(c) PROVE SignalInv'
  BY <1>6 DEF Bindable
<1>7. ASSUME NEW c \in Cli, Spawn(c) PROVE SignalInv'
  <2>1. /\ UNCHANGED <<meta, ingress, lock, port, op, after, killing, tried, history>>
        /\ cliAt[c] = "spawn"
    BY <1>7 DEF Spawn
  <2>2. CASE Goto(c, "failed") /\ UNCHANGED <<proc, parent, child>>
    BY <2>1, <2>2
  <2>3. ASSUME NEW p \in Pid, proc' = [proc EXCEPT ![p] = "booting"],
               parent' = [parent EXCEPT ![p] = c], child' = [child EXCEPT ![c] = p],
               Goto(c, "write")
        PROVE SignalInv'
    <3>1. McpTypeOK'
      BY <2>1, <2>3
    <3>2. \A d \in Cli : Spared(d)' /\ Ahead(d)'
      BY <2>1, <2>3
    <3> QED
      BY <3>1, <3>2
  <2> QED
    BY <1>7, <2>2, <2>3 DEF Spawn
<1>8. ASSUME NEW c \in Cli, WriteMetadata(c) PROVE SignalInv'
  BY <1>8 DEF WriteMetadata
<1>9. ASSUME NEW c \in Cli, Ready(c) PROVE SignalInv'
  BY <1>9 DEF Ready
<1>10. ASSUME NEW c \in Cli, NotReady(c) PROVE SignalInv'
  BY <1>10 DEF NotReady
<1>11. ASSUME NEW c \in Cli, Forget(c) PROVE SignalInv'
  BY <1>11 DEF Forget
<1>12. ASSUME NEW c \in Cli, Stop(c) PROVE SignalInv'
  <2>1. CASE UNCHANGED <<targets, resisted, after>>
    BY <1>12, <2>1 DEF Stop, Kill
  <2>2. ASSUME NEW S \in SUBSET Pid, NEW l \in {"ingress", "check"}, Kill(c, S, l),
               \A p \in S : proc[p] # "stranger"
        PROVE SignalInv'
    BY <1>12, <2>2 DEF Stop, Kill
  <2>3. /\ Orphans \subseteq Pid /\ \A p \in Orphans : proc[p] # "stranger"
        /\ \A p \in Pid : Matches(p) => proc[p] # "stranger"
        /\ meta # Nobody => meta \in Pid
    BY DEF Orphans, Daemon, Matches
  <2>4. CASE Kill(c, Orphans, "ingress")
    BY <2>2, <2>3, <2>4
  <2>5. CASE meta # Nobody /\ Matches(meta) /\ Kill(c, {meta}, "check")
    BY <2>2, <2>3, <2>5
  <2> QED
    BY <1>12, <2>1, <2>4, <2>5 DEF Stop
<1>13. ASSUME NEW c \in Cli, Terminate(c) PROVE SignalInv'
  BY <1>13 DEF Terminate, Sigterm, Released
<1>14. ASSUME NEW c \in Cli, Gone(c) PROVE SignalInv'
  BY <1>14 DEF Gone, Next1
<1>15. ASSUME NEW c \in Cli, Sigkill(c) PROVE SignalInv'
  BY <1>15 DEF Sigkill, Next1
<1>16. ASSUME NEW c \in Cli, Killed(c) PROVE SignalInv'
  BY <1>16 DEF Killed
<1>17. ASSUME NEW c \in Cli, Check(c) PROVE SignalInv'
  BY <1>17 DEF Check, Return
<1>18. ASSUME NEW c \in Cli, StopIngress(c) PROVE SignalInv'
  BY <1>18 DEF StopIngress, Return
<1>19. ASSUME NEW c \in Cli, Unlink(c) PROVE SignalInv'
  BY <1>19 DEF Unlink, Return
<1>20. ASSUME NEW c \in Cli, AwaitPort(c) PROVE SignalInv'
  <2>1. Orphans \subseteq Pid /\ \A p \in Orphans : proc[p] # "stranger"
    BY DEF Orphans, Daemon
  <2>2. CASE Kill(c, Orphans, "release")
    <3>1. /\ cliAt[c] = "release" /\ cliAt' = [cliAt EXCEPT ![c] = "kill"]
          /\ targets' = [targets EXCEPT ![c] = Orphans] /\ resisted' = [resisted EXCEPT ![c] = {}]
          /\ after' = [after EXCEPT ![c].kill = "release"] /\ tried' \in [Cli -> BOOLEAN]
          /\ UNCHANGED <<meta, ingress, kernel, op, child, victim, history>>
      BY <1>20, <2>2 DEF AwaitPort, Kill
    <3> QED
      BY <2>1, <3>1
  <2>3. CASE UNCHANGED <<after, targets, resisted, tried>>
    BY <1>20, <2>3 DEF AwaitPort
  <2> QED
    BY <1>20, <2>2, <2>3 DEF AwaitPort
<1>21. ASSUME NEW p \in Pid, DaemonAct(p) PROVE SignalInv'
  <2>1. CASE Reuse(p)
    BY <2>1 DEF Reuse
  <2>2. CASE Exit(p) /\ Daemon(p) /\ UNCHANGED <<meta, cliAt, local, history>> /\ ingress' \in BOOLEAN
    BY <2>2 DEF Exit, Released, Daemon
  <2>3. ASSUME NEW s \in {"booting", "locked", "ready", "serving", "leaving"},
               proc' = [proc EXCEPT ![p] = s], ingress' \in BOOLEAN,
               lock' \in {lock, p, Nobody}, port' \in {port, p, Nobody},
               UNCHANGED <<meta, parent, cliAt, local, history>>
        PROVE SignalInv'
    BY <2>3
  <2>4. CASE TakeLock(p) /\ ~Exit(p)
    BY <2>3, <2>4 DEF TakeLock
  <2>5. CASE IngressUp(p) /\ ~Exit(p)
    BY <2>3, <2>5 DEF IngressUp
  <2>6. CASE Bind(p)
    BY <2>3, <2>6 DEF Bind
  <2>7. CASE Shutdown(p)
    BY <2>3, <2>7 DEF Shutdown
  <2>8. CASE Reboot(p)
    BY <2>3, <2>8 DEF Reboot
  <2>9. Configure(p) \/ Leave(p) \/ Die(p) \/ (TakeLock(p) /\ Exit(p)) \/ (IngressUp(p) /\ Exit(p))
          => Exit(p) /\ Daemon(p) /\ UNCHANGED <<meta, cliAt, local, history>> /\ ingress' \in BOOLEAN
    BY DEF Configure, Leave, Die, TakeLock, IngressUp, Daemon
  <2> QED
    BY <1>21, <2>1, <2>2, <2>4, <2>5, <2>6, <2>7, <2>8, <2>9 DEF DaemonAct
<1>22. CASE UNCHANGED mcpVars
  BY <1>22 DEF mcpVars
<1> QED
  BY <1>1, <1>2, <1>3, <1>4, <1>5, <1>6, <1>7, <1>8, <1>9, <1>10, <1>11, <1>12, <1>13, <1>14,
     <1>15, <1>16, <1>17, <1>18, <1>19, <1>20, <1>21, <1>22, SMTT(30)
  DEF McpNext, CliStep, Exits, Interrupt

(* No command signals a process that is not WorkerBee's, whoever has the   *)
(* id in old metadata by now, with any number of commands at once          *)
(* (_pid_matches_metadata, mcp_daemon.py:836).                                                *)
THEOREM StrangersAreSpared == McpSpec => SparesStrangers
<1>1. SignalInv /\ [McpNext]_mcpVars =>
        [\A p \in Pid : proc[p] = "stranger" => proc'[p] \in {"stranger", "free"}]_mcpVars
  <2> SUFFICES ASSUME SignalInv, McpNext, NEW p \in Pid, proc[p] = "stranger"
               PROVE proc'[p] \in {"stranger", "free"}
    BY DEF mcpVars
  <2> USE McpAssumption DEF SignalInv, McpTypeOK, Spared, Released
  <2>1. ASSUME NEW c \in Cli, CliStep(c) \/ Interrupt(c) \/ \E o \in {"start", "stop", "restart"} : Call(c, o)
        PROVE proc'[p] \in {"stranger", "free"}
    <3>1. CASE Terminate(c)
      BY <3>1 DEF Terminate, Sigterm
    <3>2. CASE Sigkill(c)
      BY <3>2 DEF Sigkill
    <3>3. CASE Leaves(c)
      BY <3>3 DEF Leaves
    <3>4. CASE Spawn(c)
      BY <3>4 DEF Spawn
    <3>5. CASE proc' = proc
      BY <3>5
    <3> QED
      BY <2>1, <3>1, <3>2, <3>3, <3>4, <3>5
      DEF CliStep, Interrupt, Exits, Call, Settle, Status, KillOrphans, Bindable, WriteMetadata,
          Ready, NotReady, Forget, Stop, Gone, Killed, Check, StopIngress, Unlink, AwaitPort, kernel
  <2>2. ASSUME NEW q \in Pid, DaemonAct(q) PROVE proc'[p] \in {"stranger", "free"}
    BY <2>2 DEF DaemonAct, Configure, TakeLock, IngressUp, Bind, Shutdown, Reboot, Leave, Die,
                Reuse, Exit, Daemon
  <2> QED
    BY <2>1, <2>2 DEF McpNext
<1> QED
  BY <1>1, SignalInitInv, SignalStepInv, PTL DEF McpSpec, SparesStrangers

(* Type correctness of the daemon's processes, files and commands          *)
(* (mcp_daemon.py:170-460).                                                 *)
THEOREM McpTypeCorrect == McpSpec => []McpTypeOK
<1>1. SignalInv => McpTypeOK
  BY DEF SignalInv
<1> QED
  BY <1>1, SignalInitInv, SignalStepInv, PTL DEF McpSpec

(* What the other components - daemons that start, serve and die - can do  *)
(* to a command: less and less is alive.                                   *)
LEMMA DaemonFacts ==
  ASSUME McpTypeOK, NEW p \in Pid, DaemonAct(p), ~Reuse(p)
  PROVE  /\ \A q \in Pid : Lives(q)' => Lives(q)
         /\ \A q \in Pid : Matches(q)' => Matches(q)
         /\ \A q \in Pid : proc'[q] = "stranger" => proc[q] = "stranger"
         /\ \A q \in Pid : proc'[q] = "free" => proc[q] = "free" \/ parent[q] = Nobody
         /\ UNCHANGED <<meta, parent, cliAt, local, history>>
<1> USE DEF McpTypeOK, Lives, Matches, Daemon
<1>1. CASE Exit(p) /\ Daemon(p) /\ UNCHANGED <<meta, cliAt, local, history>>
  <2>1. /\ \A q \in Pid \ {p} : proc'[q] = proc[q]
        /\ proc'[p] = IF parent[p] = Nobody THEN "free" ELSE "zombie"
        /\ parent' = parent
    BY <1>1 DEF Exit
  <2> QED
    BY <1>1, <2>1
<1>2. CASE Configure(p) \/ Leave(p) \/ Die(p)
  BY <1>1, <1>2 DEF Configure, Leave, Die
<1>3. CASE TakeLock(p)
  BY <1>1, <1>3 DEF TakeLock
<1>4. CASE IngressUp(p)
  <2>1. CASE Exit(p)
    BY <1>1, <1>4, <2>1 DEF IngressUp
  <2>2. CASE proc' = [proc EXCEPT ![p] = "ready"] /\ UNCHANGED parent
    BY <1>4, <2>2 DEF IngressUp
  <2> QED
    BY <1>4, <2>1, <2>2 DEF IngressUp
<1>5. CASE Bind(p)
  BY <1>5 DEF Bind
<1>6. CASE Shutdown(p)
  BY <1>6 DEF Shutdown
<1>7. CASE Reboot(p)
  BY <1>7 DEF Reboot
<1> QED
  BY <1>2, <1>3, <1>4, <1>5, <1>6, <1>7 DEF DaemonAct

LEMMA CommandInitInv == McpInit => CommandInv
BY SignalInitInv DEF McpInit, CommandInv, Starting, Outdated, Stopping, Named

(* One command at a time: with two, one can spawn a daemon next to the     *)
(* other's.                                                                *)
OneCommand == \A c, d \in Cli : c = d

LEMMA CommandStepInv ==
  ASSUME OneCommand PROVE CommandInv /\ [McpNext]_mcpVars => CommandInv'
<1> SUFFICES ASSUME CommandInv, [McpNext]_mcpVars PROVE CommandInv'
  OBVIOUS
<1>0. SignalInv'
  BY SignalStepInv DEF CommandInv
<1> USE McpAssumption, <1>0
    DEF CommandInv, SignalInv, Spared, Ahead, McpTypeOK, OneCommand, kernel, killing, local,
        history, Goto, Starting, Outdated, Stopping, Named, LiveIn, Lives, Daemon, Matches, Alive
<1>1. ASSUME NEW c \in Cli, NEW o \in {"start", "stop", "restart"}, Call(c, o) PROVE CommandInv'
  BY <1>1 DEF Call
<1>2. ASSUME NEW c \in Cli, Leaves(c) PROVE CommandInv'
  BY <1>2 DEF Leaves, Released
<1>3. ASSUME NEW c \in Cli, Settle(c) PROVE CommandInv'
  BY <1>3 DEF Settle
<1>4. ASSUME NEW c \in Cli, Status(c) PROVE CommandInv'
  <2>1. /\ cliAt[c] = "status" /\ after' = [after EXCEPT ![c].stop = "orphans"]
        /\ UNCHANGED <<meta, ingress, kernel, op, child, killing, tried, history>>
    BY <1>4 DEF Status
  <2>2. /\ DaemonStatus.running <=> IF meta = Nobody THEN Orphans # {} ELSE Matches(meta)
        /\ DaemonStatus.stale <=> meta # Nobody /\ ~DaemonStatus.running
    <3> HIDE DEF Matches
    <3> QED
      BY Zenon DEF DaemonStatus
  <2>3. \/ Goto(c, "running")
        \/ Goto(c, "stop") /\ meta # Nobody /\ ~Matches(meta)
        \/ Goto(c, "orphans") /\ meta = Nobody
    <3> HIDE DEF Matches, Goto
    <3> QED
      BY <1>4, <2>2 DEF Status
  <2> HIDE DEF Matches
  <2>4. Starting(c)' /\ Outdated(c)'
    BY <2>1, <2>3 DEF Matches
  <2>5. ~mistaken' => Named' /\ Stopping(c)'
    BY <2>1, <2>3
  <2> QED
    BY <2>4, <2>5
<1>5. ASSUME NEW c \in Cli, KillOrphans(c) PROVE CommandInv'
  BY <1>5 DEF KillOrphans, Kill, Orphans
<1>6. ASSUME NEW c \in Cli, Bindable(c) PROVE CommandInv'
  BY <1>6 DEF Bindable
<1>7. ASSUME NEW c \in Cli, Spawn(c) PROVE CommandInv'
  BY <1>7 DEF Spawn
<1>8. ASSUME NEW c \in Cli, WriteMetadata(c) PROVE CommandInv'
  BY <1>8 DEF WriteMetadata
<1>9. ASSUME NEW c \in Cli, Ready(c) PROVE CommandInv'
  BY <1>9 DEF Ready
<1>10. ASSUME NEW c \in Cli, NotReady(c) PROVE CommandInv'
  BY <1>10 DEF NotReady
<1>11. ASSUME NEW c \in Cli, Forget(c) PROVE CommandInv'
  BY <1>11 DEF Forget
<1>12. ASSUME NEW c \in Cli, Stop(c) PROVE CommandInv'
  <2>1. cliAt[c] = "stop" /\ UNCHANGED <<meta, ingress, kernel, op, child, victim, tried, history>>
    BY <1>12 DEF Stop
  <2>2. CASE meta = Nobody /\ Kill(c, Orphans, "ingress")
    BY <2>1, <2>2 DEF Kill, Orphans
  <2>3. CASE meta # Nobody /\ Matches(meta) /\ Kill(c, {meta}, "check")
    BY <2>1, <2>3 DEF Kill
  <2>4. CASE /\ meta # Nobody /\ ~Alive(meta)
             /\ Goto(c, "ingress_then_unlink") /\ UNCHANGED <<targets, resisted, after>>
    BY <2>1, <2>4
  <2>5. CASE /\ meta # Nobody /\ Alive(meta) /\ ~Matches(meta)
             /\ Goto(c, IF after[c].stop = "stopped" THEN "failed" ELSE after[c].stop)
             /\ UNCHANGED <<targets, resisted, after>>
    BY <2>1, <2>5 DEF State
  <2> QED
    <3> HIDE DEF Goto, Alive, Matches
    <3> QED
      BY <1>12, <2>2, <2>3, <2>4, <2>5 DEF Stop
<1>13. ASSUME NEW c \in Cli, Terminate(c) PROVE CommandInv'
  BY <1>13 DEF Terminate, Sigterm
<1>14. ASSUME NEW c \in Cli, Gone(c) PROVE CommandInv'
  BY <1>14 DEF Gone, Next1
<1>15. ASSUME NEW c \in Cli, Sigkill(c) PROVE CommandInv'
  BY <1>15 DEF Sigkill, Next1
<1>16. ASSUME NEW c \in Cli, Killed(c) PROVE CommandInv'
  BY <1>16 DEF Killed
<1>17. ASSUME NEW c \in Cli, Check(c) PROVE CommandInv'
  BY <1>17 DEF Check, Return
<1>18. ASSUME NEW c \in Cli, StopIngress(c) PROVE CommandInv'
  BY <1>18 DEF StopIngress, Return
<1>19. ASSUME NEW c \in Cli, Unlink(c) PROVE CommandInv'
  BY <1>19 DEF Unlink, Return
<1>20. ASSUME NEW c \in Cli, AwaitPort(c) PROVE CommandInv'
  BY <1>20 DEF AwaitPort, Kill, Orphans
<1>21. ASSUME NEW p \in Pid, DaemonAct(p), ~Reuse(p) PROVE CommandInv'
  BY <1>21, DaemonFacts
<1>22. ASSUME NEW p \in Pid, Reuse(p) PROVE CommandInv'
  <2>1. /\ UNCHANGED <<meta, ingress, parent, lock, port, cliAt, local, alone>>
        /\ \A q \in Pid : Lives(q)' <=> Lives(q)
        /\ \A q \in Pid \ {p} : proc'[q] = proc[q]
        /\ proc[p] \in {"free", "stranger"} /\ proc'[p] \in {"free", "stranger"}
    BY <1>22 DEF Reuse
  <2>4. mistaken \/ meta = p => mistaken'
    BY <1>22 DEF Reuse
  <2>2. \A c \in Cli : Starting(c)' /\ Outdated(c)'
    BY <2>1
  <2>3. ~mistaken' => Named' /\ \A c \in Cli : Stopping(c)'
    BY <2>1, <2>4
  <2> QED
    BY <2>2, <2>3
<1>23. CASE UNCHANGED mcpVars
  BY <1>23 DEF mcpVars
<1>24. ASSUME NEW c \in Cli, CliStep(c) \/ Interrupt(c) \/ \E o \in {"start", "stop", "restart"} : Call(c, o)
       PROVE CommandInv'
  <2> HIDE DEF CommandInv
  <2> QED
    BY <1>24, <1>1, <1>2, <1>3, <1>4, <1>5, <1>6, <1>7, <1>8, <1>9, <1>10, <1>11, <1>12, <1>13,
       <1>14, <1>15, <1>16, <1>17, <1>18, <1>19, <1>20
    DEF CliStep, Exits, Interrupt
<1> QED
  BY <1>21, <1>22, <1>23, <1>24 DEF McpNext

LEMMA CommandInvariant == ASSUME OneCommand PROVE McpSpec => []CommandInv
<1>1. CommandInv /\ [McpNext]_mcpVars => CommandInv'
  BY CommandStepInv
<1> QED
  BY <1>1, CommandInitInv, PTL DEF McpSpec

(* When `mcp stop` reports that no daemon runs, none does and none is      *)
(* coming up, with any number of process ids, whatever was interrupted and *)
(* died before - where commands do not run at the same time                *)
(* (stop_mcp_daemon, mcp_daemon.py:360-426).                               *)
THEOREM StopIsReal == ASSUME OneCommand PROVE McpSpec => []StopStops
<1>1. CommandInv => StopStops
  BY DEF CommandInv, Stopping, LiveIn, StopStops
<1> QED
  BY <1>1, CommandInvariant, PTL

(* When `mcp start` reports success the metadata names the daemon it has   *)
(* spawned, and no other is alive (start_mcp_daemon, _wait_ready), under   *)
(* the same condition.                                                     *)
THEOREM StartIsOwn == ASSUME OneCommand PROVE McpSpec => []StartedIsMine
<1>1. CommandInv => StartedIsMine
  BY DEF CommandInv, Starting, LiveIn, StartedIsMine
<1> QED
  BY <1>1, CommandInvariant, PTL

-----------------------------------------------------------------------------
(* The privilege helper. *)

Waits == {"wait", "await"}
Alone == {"launch", "drop_metadata", "drop_socket", "stopped"}

(* Without overlap there is one caller and one helper, which has the path  *)
(* as soon as it listens and the metadata once it serves.  A helper that   *)
(* comes up or ends has a caller that waits for it; where a caller goes on *)
(* as if there were none, there is none.                                   *)
Orderly ==
  /\ \A a, b \in Caller : doing[a] # "idle" /\ doing[b] # "idle" => a = b
  /\ \A g, h \in Helper : HelperAlive(g) /\ HelperAlive(h) => g = h
  /\ \A h \in Helper : Listens(h) => socket = h
  /\ \A h \in Helper : phase[h] = "serving" => metadata = h
  /\ \A h \in Helper : HelperAlive(h) /\ phase[h] # "serving" =>
       \E a \in Caller : doing[a] \in Waits

Waited(a) ==
  /\ doing[a] = "wait" =>
       \A h \in Helper : phase[h] \in {"none", "launched", "clear", "bound", "serving"}
  /\ doing[a] \in {"shutdown", "await"} => \A h \in Helper : HelperAlive(h) => h = pid[a]
  /\ doing[a] \in Alone => \A h \in Helper : ~HelperAlive(h)

HelperInv ==
  /\ HelperTypeOK
  /\ ~overlap => Orderly /\ \A a \in Caller : Waited(a)

LEMMA PrivilegeLeadsTo ==
  ASSUME NEW answered \in BOOLEAN
  PROVE  /\ PrivilegeOutcomes[answered] \subseteq {"ready", "failed", "status"}
         /\ AutoOutcomes[answered] \subseteq {"access", "ready"}
BY DEF PrivilegeOutcomes, AutoOutcomes, Privilege

LEMMA AnswersType == {Answers, MayAnswer} \subseteq BOOLEAN
BY Zenon DEF Answers, MayAnswer

LEMMA HelperInitInv == HelperInit => HelperInv
<1> SUFFICES ASSUME HelperInit PROVE HelperInv
  OBVIOUS
<1>1. HelperTypeOK
  BY HelperAssumption DEF HelperInit, HelperTypeOK, Phase, Place, Outcome
<1>2. Orderly /\ \A a \in Caller : Waited(a)
  BY DEF HelperInit, Orderly, Waited, Waits, Alone, HelperAlive, Listens
<1> QED
  BY <1>1, <1>2 DEF HelperInv

LEMMA HelperStepInv == HelperInv /\ [HelperNext]_helperVars => HelperInv'
<1> SUFFICES ASSUME HelperInv, [HelperNext]_helperVars PROVE HelperInv'
  OBVIOUS
<1> USE HelperAssumption
    DEF HelperInv, HelperTypeOK, Orderly, Waited, Waits, Alone, HelperAlive, Listens, Phase, Place,
        Outcome, calls, requests, Become, At
<1>1. ASSUME NEW h \in Helper, ClearPath(h) PROVE HelperInv'
  BY <1>1 DEF ClearPath
<1>2. ASSUME NEW h \in Helper, BindSocket(h) PROVE HelperInv'
  BY <1>2 DEF BindSocket
<1>3. ASSUME NEW h \in Helper, WriteHelperMetadata(h) PROVE HelperInv'
  BY <1>3 DEF WriteHelperMetadata
<1>4. ASSUME NEW h \in Helper, Signalled(h) PROVE HelperInv'
  BY <1>4 DEF Signalled
<1>5. ASSUME NEW h \in Helper, CloseServer(h) PROVE HelperInv'
  BY <1>5 DEF CloseServer
<1>6. ASSUME NEW h \in Helper, UnlinkSocket(h) PROVE HelperInv'
  BY <1>6 DEF UnlinkSocket
<1>7. ASSUME NEW h \in Helper, UnlinkMetadata(h) PROVE HelperInv'
  BY <1>7 DEF UnlinkMetadata, HangUp
<1>8. ASSUME NEW h \in Helper, HelperDies(h) PROVE HelperInv'
  BY <1>8 DEF HelperDies, HangUp
<1>9. ASSUME NEW a \in Caller, NEW what \in {"auto", "access", "stop"}, Ask(a, what) PROVE HelperInv'
  <2>1. /\ overlap' \in BOOLEAN
        /\ ~overlap' => ~overlap /\ \A b \in Caller : doing[b] = "idle"
    BY <1>9 DEF Ask
  <2>2. /\ doing[a] = "idle" /\ doing' = [doing EXCEPT ![a] = what]
        /\ then' \in [Caller -> Outcome]
        /\ UNCHANGED <<socket, metadata, phase, pid, requests>>
    BY <1>9 DEF Ask
  <2>3. HelperTypeOK'
    BY <2>1, <2>2
  <2>4. ~overlap' => Orderly' /\ \A b \in Caller : Waited(b)'
    BY <2>1, <2>2
  <2> QED
    BY <2>3, <2>4
<1>10. ASSUME NEW a \in Caller, Prefer(a) \/ Access(a) PROVE HelperInv'
  BY <1>10, PrivilegeLeadsTo, AnswersType DEF Prefer, Access
<1>11. ASSUME NEW a \in Caller, CheckStatus(a) PROVE HelperInv'
  BY <1>11 DEF CheckStatus, MayAnswer, Answers
<1>12. ASSUME NEW a \in Caller, Launch(a) PROVE HelperInv'
  BY <1>12 DEF Launch
<1>13. ASSUME NEW a \in Caller, WaitForHelper(a) PROVE HelperInv'
  <2>1. CASE MayAnswer /\ At(a, "probe_started") /\ UNCHANGED overlap
    BY <1>13, <2>1 DEF WaitForHelper, MayAnswer, Answers
  <2>2. CASE At(a, "failed") /\ overlap' = (overlap \/ \E h \in Helper : phase[h] \notin {"none", "serving"})
    <3>1. /\ overlap' \in BOOLEAN
          /\ ~overlap' => ~overlap /\ \A h \in Helper : phase[h] \in {"none", "serving"}
      BY <2>2
    <3>2. HelperTypeOK'
      BY <1>13, <2>2, <3>1 DEF WaitForHelper
    <3>3. ~overlap' => Orderly' /\ \A b \in Caller : Waited(b)'
      BY <1>13, <2>2, <3>1 DEF WaitForHelper
    <3> QED
      BY <3>2, <3>3
  <2> QED
    BY <1>13, <2>1, <2>2 DEF WaitForHelper
<1>14. ASSUME NEW a \in Caller, Probe(a) PROVE HelperInv'
  BY <1>14 DEF Probe
<1>15. ASSUME NEW a \in Caller, StopStatus(a) PROVE HelperInv'
  BY <1>15 DEF StopStatus, MayAnswer, Answers
<1>16. ASSUME NEW a \in Caller, RequestShutdown(a) PROVE HelperInv'
  BY <1>16 DEF RequestShutdown, MayAnswer, Answers
<1>17. ASSUME NEW a \in Caller, AwaitExit(a) PROVE HelperInv'
  <2>1. /\ overlap' \in BOOLEAN
        /\ ~overlap' => ~overlap /\ ~HelperAlive(pid[a])
    BY <1>17 DEF AwaitExit
  <2>2. HelperTypeOK'
    BY <1>17, <2>1 DEF AwaitExit
  <2>3. ~overlap' => Orderly' /\ \A b \in Caller : Waited(b)'
    BY <1>17, <2>1 DEF AwaitExit
  <2> QED
    BY <2>2, <2>3
<1>18. ASSUME NEW a \in Caller, DropMetadata(a) PROVE HelperInv'
  BY <1>18 DEF DropMetadata
<1>19. ASSUME NEW a \in Caller, DropSocket(a) PROVE HelperInv'
  BY <1>19 DEF DropSocket
<1>20. ASSUME NEW a \in Caller, ReportOutcome(a) PROVE HelperInv'
  BY <1>20 DEF ReportOutcome
<1>21. ASSUME NEW w \in Client, ClientStep(w) PROVE HelperInv'
  BY <1>21
  DEF ClientStep, Connect, HandleCommand, RemoveTree, FinishRun, FinishStream, ClientExits, Served,
      MayAnswer, Answers
<1>22. CASE UNCHANGED helperVars
  BY <1>22 DEF helperVars
<1> QED
  BY <1>1, <1>2, <1>3, <1>4, <1>5, <1>6, <1>7, <1>8, <1>9, <1>10, <1>11, <1>12, <1>13, <1>14,
     <1>15, <1>16, <1>17, <1>18, <1>19, <1>20, <1>21, <1>22
  DEF HelperNext, Serve, CallerStep

LEMMA HelperInvariant == HelperSpec => []HelperInv
BY HelperInitInv, HelperStepInv, PTL DEF HelperSpec

(* Type correctness of helpers, callers and clients                        *)
(* (containerd_helper.py:104-707).                                         *)
THEOREM HelperTypeCorrect == HelperSpec => []HelperTypeOK
<1>1. HelperInv => HelperTypeOK
  BY DEF HelperInv
<1> QED
  BY <1>1, HelperInvariant, PTL

(* While calls come one after the other and none gives up on a helper that *)
(* is coming up or ending, the one that runs has the path, and none is     *)
(* left where a stop has reported success, whatever was killed before and  *)
(* however many callers, clients and helpers there are                     *)
(* (serve_helper, stop_containerd_helper).                                 *)
THEOREM HelperInReach == HelperSpec => []NoHelperOutOfReach
<1>1. HelperInv => NoHelperOutOfReach
  BY DEF HelperInv, Orderly, Waited, Alone, NoHelperOutOfReach
<1> QED
  BY <1>1, HelperInvariant, PTL

-----------------------------------------------------------------------------
(* The dashboard's jobs. *)

(* A job is queued from the request to its thread's start and running from *)
(* there to the end of the action; in both states it is in the list, which *)
(* is what the pruning goes by.                                            *)
JobsInv ==
  /\ JobsTypeOK
  /\ \A j \in Job : Unfinished(status[j]) => j \in Elements(order)
  /\ \A j \in Job : thread[j] = "none" => status[j] = "none"
  /\ NoneLost

(* Pruning takes nothing from the table but finished jobs, and leaves the  *)
(* list with the unfinished ones.                                          *)
LEMMA PruneKeeps ==
  ASSUME NEW o \in Seq(Job), NEW s \in [Job -> JobStatus \cup {"none"}], NEW c,
         Prune(o, s, c), \A j \in Job : Unfinished(s[j]) => j \in Elements(o)
  PROVE  /\ order' \in Seq(Job)
         /\ status' \in [Job -> JobStatus \cup {"none"}]
         /\ \A j \in Job : Unfinished(s[j]) => status'[j] = s[j] /\ j \in Elements(order')
         /\ \A j \in Job : status'[j] \in {s[j], "none"}
<1> DEFINE recent == Recent(s, c)
           kept == recent \ Excess(o, s, recent)
<1>1. \A j \in Job : Unfinished(s[j]) => j \in recent
  BY DEF Recent, Unfinished
<1> HIDE DEF recent
<1>2. \A j \in Excess(o, s, recent) : ~Unfinished(s[j])
  BY DEF Excess, Places
<1>3. \A j \in Job : Unfinished(s[j]) => j \in kept
  BY <1>1, <1>2
<1>4. order' = Selection(o, kept) /\ status' = [j \in Job |-> IF j \in kept THEN s[j] ELSE "none"]
  BY DEF Prune, recent
<1> HIDE DEF kept
<1>5. order' \in Seq(Job) /\ Elements(order') = Elements(o) \cap kept
  BY <1>4, SelectionElements
<1> QED
  BY <1>3, <1>4, <1>5

LEMMA JobsInitInv == JobsInit => JobsInv
BY JobsAssumption DEF JobsInit, JobsInv, JobsTypeOK, JobStatus, Unfinished, NoneLost

LEMMA JobsStepInv == JobsInv /\ [JobsNext]_jobsVars => JobsInv'
<1> SUFFICES ASSUME JobsInv, [JobsNext]_jobsVars PROVE JobsInv'
  OBVIOUS
<1> USE JobsAssumption DEF JobsInv, JobsTypeOK, JobStatus, Unfinished, NoneLost
<1>1. ASSUME NEW j \in Job, Enqueue(j) PROVE JobsInv'
  <2> DEFINE s == [status EXCEPT ![j] = "queued"]
             o == Append(order, j)
  <2>1. Prune(o, s, createdAt') /\ thread' = [thread EXCEPT ![j] = "scheduled"]
        /\ thread[j] = "none" /\ createdAt' = [createdAt EXCEPT ![j] = now] /\ now' = now
    BY <1>1 DEF Enqueue
  <2>2. o \in Seq(Job) /\ s \in [Job -> JobStatus \cup {"none"}]
    OBVIOUS
  <2>3. \A k \in Job : Unfinished(s[k]) => k \in Elements(o)
    <3>1. /\ Len(o) = Len(order) + 1 /\ o[Len(order) + 1] = j
          /\ \A i \in 1..Len(order) : o[i] = order[i]
      OBVIOUS
    <3>2. Elements(order) \cup {j} \subseteq Elements(o)
      BY <3>1 DEF Elements
    <3> QED
      BY <3>2
  <2> HIDE DEF o, Elements
  <2>4. /\ order' \in Seq(Job)
        /\ status' \in [Job -> JobStatus \cup {"none"}]
        /\ \A k \in Job : Unfinished(s[k]) => status'[k] = s[k] /\ k \in Elements(order')
        /\ \A k \in Job : status'[k] \in {s[k], "none"}
    BY <2>1, <2>2, <2>3, PruneKeeps
  <2> QED
    BY <2>1, <2>4
<1>2. ASSUME NEW j \in Job, RunJob(j) PROVE JobsInv'
  BY <1>2 DEF RunJob
<1>3. ASSUME NEW j \in Job, FinishJob(j) PROVE JobsInv'
  <2>1. CASE UNCHANGED <<status, order>>
    BY <1>3, <2>1 DEF FinishJob
  <2>2. ASSUME NEW r \in {"succeeded", "failed"}, Prune(order, [status EXCEPT ![j] = r], createdAt)
        PROVE  JobsInv'
    <3> DEFINE s == [status EXCEPT ![j] = r]
    <3>1. s \in [Job -> JobStatus \cup {"none"}] /\ \A k \in Job : Unfinished(s[k]) => k \in Elements(order)
      BY <2>2
    <3>2. /\ order' \in Seq(Job)
          /\ status' \in [Job -> JobStatus \cup {"none"}]
          /\ \A k \in Job : Unfinished(s[k]) => status'[k] = s[k] /\ k \in Elements(order')
          /\ \A k \in Job : status'[k] \in {s[k], "none"}
      BY <2>2, <3>1, PruneKeeps
    <3>3. thread[j] = "executing" /\ thread' = [thread EXCEPT ![j] = "done"] /\ UNCHANGED <<now, createdAt>>
      BY <1>3 DEF FinishJob
    <3> QED
      BY <3>2, <3>3
  <2> QED
    BY <1>3, <2>1, <2>2 DEF FinishJob
<1>4. CASE JobClock
  BY <1>4 DEF JobClock
<1>5. CASE UNCHANGED jobsVars
  BY <1>5 DEF jobsVars
<1> QED
  BY <1>1, <1>2, <1>3, <1>4, <1>5 DEF JobsNext

(* A job that is waiting or at work is never pruned, however old it is and *)
(* however many jobs there are: its thread finds it where it left it       *)
(* (daemon.py:1914-1990).                                                  *)
THEOREM NoJobIsLost == JobsSpec => [](JobsTypeOK /\ NoneLost)
<1>1. JobsInv => JobsTypeOK /\ NoneLost
  BY DEF JobsInv
<1> QED
  BY <1>1, JobsInitInv, JobsStepInv, PTL DEF JobsSpec

=============================================================================
