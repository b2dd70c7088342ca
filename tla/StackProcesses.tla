---------------------------- MODULE StackProcesses ----------------------------
(***************************************************************************)
(* How WorkerBeeSupervisor (supervisor.py) starts and stops the processes  *)
(* of a project's k1s stack: an API shim and a controller, each launched   *)
(* with Popen on a port that was probed and not reserved, and recorded in  *)
(* <project>/stack.json, which is rewritten after every step.  Handlers of *)
(* one project are serialised by its lock; projects share host ports and   *)
(* process ids.                                                            *)
(*                                                                         *)
(* ProjectLifecycle sees all this as one stack that is down, starting or   *)
(* healthy.                                                                *)
(***************************************************************************)
EXTENDS Naturals, FiniteSets

CONSTANTS
  Project,
  Pid,      \* process ids; the system reuses them
  MaxPort,  \* ports in the range a service may take
  Crasher,  \* the projects whose handler may die in the middle
  None      \* no stack.json, no process id, no process

ASSUME StackAssumption ==
  /\ MaxPort \in Nat
  /\ Crasher \subseteq Project
  /\ None \notin Pid

Service == {"apishim", "controller"}
Port == 1..MaxPort  \* the ranges of two services are disjoint

Process == [project : Project, service : Service, port : Port, listening : BOOLEAN]
Stack == [port : [Service -> Port], pid : [Service -> Pid \cup {None}]]

ASSUME NoneAssumption == None \notin Process \cup Stack

VARIABLES
  proc,     \* the process behind each process id
  file,     \* stack.json of each project
  info,     \* the stack a handler has in memory
  pc,       \* where the handler of each project is
  restart,  \* whether it starts the stack again after stopping it
  orphaned, \* history: processes launched by a handler that ended before it wrote their id
  raced     \* history: projects that chose ports while a sibling had chosen and not recorded

vars == <<proc, file, info, pc, restart, orphaned, raced>>

PC == {"idle", "stop", "unlink", "ports", "record", "apishim", "apishim_pid",
       "controller", "controller_pid", "wait_controller", "wait_apishim"}

TypeOK ==
  /\ proc \in [Pid -> Process \cup {None}]
  /\ file \in [Project -> Stack \cup {None}]
  /\ info \in [Project -> Stack \cup {None}]
  /\ pc \in [Project -> PC]
  /\ restart \in [Project -> BOOLEAN]
  /\ orphaned \in SUBSET Pid
  /\ raced \in SUBSET Project

Init ==
  /\ proc = [i \in Pid |-> None]
  /\ file = [p \in Project |-> None]
  /\ info = [p \in Project |-> None]
  /\ pc = [p \in Project |-> "idle"]
  /\ restart = [p \in Project |-> FALSE]
  /\ orphaned = {}
  /\ raced = {}

-----------------------------------------------------------------------------

Alive(i) == proc[i] # None

Listens(i, s, n) ==
  Alive(i) /\ proc[i].listening /\ proc[i].service = s /\ proc[i].port = n

\* /health with the project's token: the listener on the port is the project's own.
Healthy(p, stack, s) ==
  \E i \in Pid : Listens(i, s, stack.port[s]) /\ proc[i].project = p

Goto(p, l) == pc' = [pc EXCEPT ![p] = l]

\* The handler returns or raises.
Leave(p) ==
  /\ Goto(p, "idle")
  /\ info' = [info EXCEPT ![p] = None]
  /\ restart' = [restart EXCEPT ![p] = FALSE]

\* Mutant of Start: what is recorded is not stopped.
StartOver(p) ==
  /\ pc[p] = "idle"
  /\ Goto(p, "ports")
  /\ restart' = [restart EXCEPT ![p] = TRUE]
  /\ UNCHANGED <<proc, file, info, orphaned, raced>>

\* start(): a healthy stack is left alone unless its runtime or ingress has
\* changed; any other recorded stack is stopped first.
Start(p) ==
  /\ pc[p] = "idle"
  /\ Goto(p, IF file[p] = None THEN "ports" ELSE "stop")
  /\ restart' = [restart EXCEPT ![p] = TRUE]
  /\ UNCHANGED <<proc, file, info, orphaned, raced>>

Stop(p) ==
  /\ pc[p] = "idle"
  /\ file[p] # None
  /\ Goto(p, "stop")
  /\ UNCHANGED <<proc, file, info, restart, orphaned, raced>>

\* Mutant of Terminate: the API shim is forgotten.
TerminateController(p) ==
  /\ pc[p] = "stop"
  /\ proc' = [i \in Pid |-> IF i = file[p].pid["controller"] THEN None ELSE proc[i]]
  /\ orphaned' = orphaned \ {file[p].pid["controller"]}
  /\ Goto(p, "unlink")
  /\ UNCHANGED <<file, info, restart, raced>>

\* The recorded processes that are alive are terminated, whoever they are by now.
Terminate(p) ==
  LET recorded == {file[p].pid[s] : s \in Service} IN
  /\ pc[p] = "stop"
  /\ proc' = [i \in Pid |-> IF i \in recorded THEN None ELSE proc[i]]
  /\ orphaned' = orphaned \ recorded
  /\ Goto(p, "unlink")
  /\ UNCHANGED <<file, info, restart, raced>>

\* Once the runtime is cleaned up, stack.json goes.
Unlink(p) ==
  /\ pc[p] = "unlink"
  /\ file' = [file EXCEPT ![p] = None]
  /\ IF restart[p]
     THEN Goto(p, "ports") /\ UNCHANGED <<info, restart>>
     ELSE Leave(p)
  /\ UNCHANGED <<proc, orphaned, raced>>

\* _recorded_stack_host_ports: the ports in the stack.json of the siblings.
Recorded(p, s) == {file[q].port[s] : q \in {r \in Project \ {p} : file[r] # None}}

\* Mutant of Free: the siblings' records are not read.
FreeOfListeners(p, s) == {n \in Port : ~\E i \in Pid : Listens(i, s, n)}

\* choose_port: neither recorded by a sibling nor listened to.
Free(p, s) == {n \in Port \ Recorded(p, s) : ~\E i \in Pid : Listens(i, s, n)}

\* The first free port of each range; stack.json is not written yet.
ChoosePorts(p) ==
  /\ pc[p] = "ports"
  /\ \E port \in [Service -> Port] :
       /\ \A s \in Service :
            port[s] \in Free(p, s) /\ \A n \in Free(p, s) : port[s] <= n
       /\ info' = [info EXCEPT ![p] = [port |-> port, pid |-> [s \in Service |-> None]]]
  /\ raced' = IF \E q \in Project \ {p} : pc[q] = "record"
              THEN raced \cup {p} ELSE raced \ {p}
  /\ Goto(p, "record")
  /\ UNCHANGED <<proc, file, restart, orphaned>>

\* The process a handler has launched and not written down yet.
Unrecorded(p) ==
  {i \in Pid : \/ pc[p] = "apishim_pid" /\ i = info[p].pid["apishim"]
               \/ pc[p] = "controller_pid" /\ i = info[p].pid["controller"]}

\* The runtime cannot be cleaned up, no network, no free port, no TLS material,
\* no interpreter, stack.json cannot be written: nothing more is launched, and
\* stack.json stays as it is.
Fails(p) ==
  /\ pc[p] \in {"unlink", "ports", "record", "apishim", "apishim_pid",
                "controller", "controller_pid"}
  /\ Leave(p)
  /\ orphaned' = orphaned \cup Unrecorded(p)
  /\ UNCHANGED <<proc, file, raced>>

\* _write_stack, atomically: first the ports, then each process id.
Write(p, at, next) ==
  /\ pc[p] = at
  /\ file' = [file EXCEPT ![p] = info[p]]
  /\ Goto(p, next)
  /\ UNCHANGED <<proc, info, restart, orphaned, raced>>

\* Mutant of WriteStack: the ids are written when both are known.
WriteStackOnce(p) ==
  \/ Write(p, "record", "apishim")
  \/ pc[p] = "apishim_pid" /\ Goto(p, "controller")
       /\ UNCHANGED <<proc, file, info, restart, orphaned, raced>>
  \/ Write(p, "controller_pid", "wait_controller")

WriteStack(p) ==
  \/ Write(p, "record", "apishim")
  \/ Write(p, "apishim_pid", "controller")
  \/ Write(p, "controller_pid", "wait_controller")

\* Popen, and the id of the process in memory.
Launch(p, s) ==
  /\ pc[p] = s
  /\ \E i \in Pid :
       /\ ~Alive(i)
       /\ proc' = [proc EXCEPT ![i] = [project |-> p, service |-> s,
                                       port |-> info[p].port[s], listening |-> FALSE]]
       /\ info' = [info EXCEPT ![p].pid[s] = i]
  /\ Goto(p, IF s = "apishim" THEN "apishim_pid" ELSE "controller_pid")
  /\ UNCHANGED <<file, restart, orphaned, raced>>

\* wait_for_http: the controller first, then the API shim.
Ready(p) ==
  \/ /\ pc[p] = "wait_controller"
     /\ Healthy(p, info[p], "controller")
     /\ Goto(p, "wait_apishim")
     /\ UNCHANGED <<proc, file, info, restart, orphaned, raced>>
  \/ /\ pc[p] = "wait_apishim"
     /\ Healthy(p, info[p], "apishim")
     /\ Leave(p)
     /\ UNCHANGED <<proc, file, orphaned, raced>>

\* TimeoutError: what was launched keeps running.
TimesOut(p) ==
  /\ \/ pc[p] = "wait_controller" /\ ~Healthy(p, info[p], "controller")
     \/ pc[p] = "wait_apishim" /\ ~Healthy(p, info[p], "apishim")
  /\ Leave(p)
  /\ UNCHANGED <<proc, file, orphaned, raced>>

\* The process of the handler dies; the stack's processes have a session of
\* their own and survive.
Crash(p) ==
  /\ pc[p] # "idle"
  /\ Leave(p)
  /\ orphaned' = orphaned \cup Unrecorded(p)
  /\ UNCHANGED <<proc, file, raced>>

\* A launched process binds its port, or finds it taken and exits.
Bind(i) ==
  /\ Alive(i) /\ ~proc[i].listening
  /\ IF \E j \in Pid : Listens(j, proc[i].service, proc[i].port)
     THEN proc' = [proc EXCEPT ![i] = None] /\ orphaned' = orphaned \ {i}
     ELSE proc' = [proc EXCEPT ![i].listening = TRUE] /\ UNCHANGED orphaned
  /\ UNCHANGED <<file, info, pc, restart, raced>>

Die(i) ==
  /\ Alive(i) /\ proc[i].listening
  /\ proc' = [proc EXCEPT ![i] = None]
  /\ orphaned' = orphaned \ {i}
  /\ UNCHANGED <<file, info, pc, restart, raced>>

Advance(p) ==
  \/ Terminate(p) \/ Unlink(p) \/ ChoosePorts(p) \/ Fails(p) \/ WriteStack(p)
  \/ (\E s \in Service : Launch(p, s)) \/ Ready(p) \/ TimesOut(p)

Next ==
  \/ \E p \in Project : Start(p) \/ Stop(p) \/ Advance(p)
  \/ \E p \in Crasher : Crash(p)
  \/ \E i \in Pid : Bind(i) \/ Die(i)

Spec == Init /\ [][Next]_vars

-----------------------------------------------------------------------------

InHand(p) == IF info[p] = None THEN {} ELSE {info[p].pid[s] : s \in Service}
OnFile(p) == IF file[p] = None THEN {} ELSE {file[p].pid[s] : s \in Service}

\* No process of a stack is forgotten: whatever failed, timed out or died, a
\* live process is named by its project's stack.json, or by the handler that
\* launched it and is about to write it down (supervisor.py:202-207), unless
\* that handler died in between, or could not write it.
Tracked ==
  \A i \in Pid : Alive(i) =>
    i \in OnFile(proc[i].project) \cup InHand(proc[i].project) \cup orphaned

\* A project runs each service once: a start that finds an unhealthy stack
\* stops it first (supervisor.py:140-141).
OneOfEach ==
  \A i, j \in Pid \ orphaned :
    Alive(i) /\ Alive(j) /\ proc[i].project = proc[j].project
             /\ proc[i].service = proc[j].service => i = j

\* A stopped stack leaves no process behind (docs/poc-scope.md:81), whatever
\* start failed or timed out before: only what a handler had launched, and had
\* not written down when it died or failed, survives.
StopLeavesNothing ==
  \A p \in Project, i \in Pid :
    pc[p] = "idle" /\ file[p] = None /\ Alive(i) /\ proc[i].project = p => i \in orphaned

\* A stack does not take the ports of a sibling, dead or alive
\* (tests/test_supervisor.py:461), unless it looked for them after the sibling
\* had chosen its own and before it wrote them down (supervisor.py:153-204).
DistinctPorts ==
  \A p, q \in Project, s \in Service :
    p # q /\ file[p] # None /\ file[q] # None /\ file[p].port[s] = file[q].port[s]
      => p \in raced \/ q \in raced
=============================================================================
