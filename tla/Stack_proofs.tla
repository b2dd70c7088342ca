----------------------------- MODULE Stack_proofs -----------------------------
(***************************************************************************)
(* A project's stack and what leads to it, for every number of projects,   *)
(* ports and process ids (which are reused), of operators, stores, probes, *)
(* cores and tunnels: no process is forgotten and none runs twice; the     *)
(* authority of the global ingress, the route to the stack, and the edge   *)
(* link keep what they promise.                                            *)
(***************************************************************************)
EXTENDS StackProcesses, CaddyAuthority, StackRoute, EdgeLink, SequenceParts_proofs

-----------------------------------------------------------------------------
(* The processes of the stacks. *)

(* What the handler of p has in memory and what stack.json says, at each   *)
(* step: the file lags behind by at most the process launched last.        *)
NoInfo(p) ==
  pc[p] \in {"idle", "stop", "unlink", "ports"} <=> info[p] = None
NoFile(p) ==
  /\ pc[p] \in {"ports", "record"} => file[p] = None
  /\ pc[p] \in {"stop", "unlink"} => file[p] # None
NoPidYet(p) ==
  /\ pc[p] \in {"record", "apishim"} => info[p].pid["apishim"] = None
  /\ pc[p] \in {"record", "apishim", "apishim_pid", "controller"} =>
       info[p].pid["controller"] = None
InSync(p) ==
  /\ pc[p] \in {"apishim", "controller", "wait_controller", "wait_apishim"} =>
       file[p] = info[p]
  /\ pc[p] \in {"apishim_pid", "controller_pid"} =>
       file[p] # None /\ file[p].pid["controller"] = None
  /\ pc[p] \in {"apishim_pid", "controller_pid"} => file[p].port = info[p].port
  /\ pc[p] = "apishim_pid" => file[p].pid["apishim"] = None
  /\ pc[p] = "controller_pid" =>
       file[p].pid["apishim"] = info[p].pid["apishim"]

(* The ports of p, from the moment they are chosen.                        *)
Chosen(p) == IF pc[p] = "record" THEN info[p] ELSE file[p]
Apart(p, q) ==
  \A s \in Service :
    Chosen(p) # None /\ Chosen(q) # None /\ Chosen(p).port[s] = Chosen(q).port[s]
      => p \in raced \/ q \in raced

(* After the recorded processes are terminated, only orphans are left.     *)
Terminated(p) ==
  pc[p] = "unlink" =>
    \A i \in Pid : Alive(i) /\ proc[i].project = p => i \in orphaned

Lagging == \A p \in Project : NoInfo(p) /\ NoFile(p) /\ NoPidYet(p) /\ InSync(p)

IInv == TypeOK /\ Lagging /\ (\A p \in Project : Terminated(p)) /\ Tracked

LEMMA ListeningType == \A r \in Process : [r EXCEPT !.listening = TRUE] \in Process
BY DEF Process

(* A handler that fails leaves what a handler that dies there leaves.      *)
LEMMA FailsAsCrash == ASSUME NEW p \in Project, Fails(p) PROVE Crash(p)
BY DEF Fails, Crash

LEMMA InitInv == Init => IInv
BY NoneAssumption
DEF Init, IInv, TypeOK, Lagging, NoInfo, NoFile, NoPidYet, InSync, Terminated, Tracked,
    Alive, PC

LEMMA StepInv == IInv /\ [Next]_vars => IInv'
<1> SUFFICES ASSUME IInv, [Next]_vars PROVE IInv'
  OBVIOUS
<1> USE StackAssumption, NoneAssumption
    DEF IInv, TypeOK, Lagging, NoInfo, NoFile, NoPidYet, InSync, Terminated, Tracked,
        Alive, PC, Goto, Leave, InHand, OnFile, Service, Stack, Process
<1>1. ASSUME NEW p \in Project, Start(p) PROVE IInv'
  BY <1>1 DEF Start
<1>2. ASSUME NEW p \in Project, Stop(p) PROVE IInv'
  BY <1>2 DEF Stop
<1>3. ASSUME NEW p \in Project, Terminate(p) PROVE IInv'
  BY <1>3 DEF Terminate
<1>4. ASSUME NEW p \in Project, Unlink(p) PROVE IInv'
  <2>1. TypeOK'
    BY <1>4, ZenonT(60) DEF Unlink
  <2>2. Lagging'
    BY <1>4 DEF Unlink
  <2>3. \A q \in Project : Terminated(q)'
    BY <1>4 DEF Unlink
  <2>4. Tracked'
    BY <1>4 DEF Unlink
  <2> QED
    BY <2>1, <2>2, <2>3, <2>4
<1>5. ASSUME NEW p \in Project, ChoosePorts(p) PROVE IInv'
  <2>1. TypeOK'
    BY <1>5 DEF ChoosePorts
  <2>2. Lagging'
    BY <1>5 DEF ChoosePorts
  <2>3. \A q \in Project : Terminated(q)'
    BY <1>5 DEF ChoosePorts
  <2>4. Tracked'
    BY <1>5 DEF ChoosePorts
  <2> QED
    BY <2>1, <2>2, <2>3, <2>4
<1>6. ASSUME NEW p \in Project, WriteStack(p) PROVE IInv'
  <2>1. /\ info[p] \in Stack
        /\ file' = [file EXCEPT ![p] = info[p]]
        /\ UNCHANGED <<proc, info, restart, orphaned, raced>>
        /\ pc[p] \in {"record", "apishim_pid", "controller_pid"}
    BY <1>6 DEF WriteStack, Write
  <2>2. TypeOK'
    BY <1>6, <2>1 DEF WriteStack, Write
  <2>3. Lagging'
    BY <1>6 DEF WriteStack, Write
  <2>4. \A q \in Project : Terminated(q)'
    BY <1>6 DEF WriteStack, Write
  <2>5. Tracked'
    <3>1. OnFile(p)' = InHand(p)
      BY <2>1
    <3>2. \A q \in Project : InHand(q)' = InHand(q)
      BY <2>1
    <3>3. \A q \in Project \ {p} : OnFile(q)' = OnFile(q)
      BY <2>1
    <3>4. \A i \in OnFile(p) : i \in Pid => i \in InHand(p)
      BY <2>1
    <3> QED
      BY <2>1, <3>1, <3>2, <3>3, <3>4
  <2> QED
    BY <2>2, <2>3, <2>4, <2>5
<1>7. ASSUME NEW p \in Project, NEW s \in Service, Launch(p, s) PROVE IInv'
  BY <1>7 DEF Launch
<1>8. ASSUME NEW p \in Project, Ready(p) PROVE IInv'
  <2>1. TypeOK'
    BY <1>8 DEF Ready
  <2>2. Lagging'
    BY <1>8 DEF Ready
  <2>3. \A q \in Project : Terminated(q)'
    BY <1>8 DEF Ready
  <2>4. Tracked'
    BY <1>8 DEF Ready
  <2> QED
    BY <2>1, <2>2, <2>3, <2>4
<1>9. ASSUME NEW p \in Project, TimesOut(p) PROVE IInv'
  BY <1>9 DEF TimesOut
<1>10. ASSUME NEW p \in Project, Crash(p) PROVE IInv'
  <2>1. TypeOK'
    BY <1>10 DEF Crash, Unrecorded
  <2>2. Lagging'
    BY <1>10 DEF Crash, Unrecorded
  <2>3. \A q \in Project : Terminated(q)'
    BY <1>10 DEF Crash, Unrecorded
  <2>4. Tracked'
    <3>1. /\ UNCHANGED <<proc, file>> /\ orphaned \subseteq orphaned'
          /\ \A q \in Project \ {p} : info'[q] = info[q]
      BY <1>10 DEF Crash, Unrecorded
    <3>2. ASSUME NEW i \in InHand(p), i \in Pid PROVE i \in OnFile(p) \cup orphaned'
      <4>1. /\ info[p] \in Stack /\ pc[p] \notin {"idle", "stop", "unlink", "ports"}
            /\ i \in {info[p].pid["apishim"], info[p].pid["controller"]}
        BY <3>2
      <4>2. CASE pc[p] \in {"record", "apishim", "controller", "wait_controller", "wait_apishim"}
        BY <3>2, <4>1, <4>2
      <4>3. CASE pc[p] = "apishim_pid"
        <5>1. i = info[p].pid["apishim"]
          BY <3>2, <4>1, <4>3
        <5>2. \A j \in Pid : j = info[p].pid["apishim"] => j \in orphaned'
          BY <1>10, <4>3 DEF Crash, Unrecorded
        <5> QED
          BY <3>2, <5>1, <5>2
      <4>4. CASE pc[p] = "controller_pid"
        <5>1. i = info[p].pid["controller"] => i \in orphaned'
          BY <1>10, <3>2, <4>4 DEF Crash, Unrecorded
        <5>2. i = info[p].pid["apishim"] => i \in OnFile(p)
          BY <4>4
        <5> QED
          BY <4>1, <5>1, <5>2
      <4> QED
        BY <4>1, <4>2, <4>3, <4>4
    <3>3. ASSUME NEW q \in Project \ {p} PROVE InHand(q)' = InHand(q)
      <4> HIDE DEF Stack, Process, Service, TypeOK, Lagging, Tracked
      <4> QED
        BY <3>1
    <3>4. \A q \in Project : OnFile(q)' = OnFile(q)
      BY <3>1
    <3> QED
      BY <3>1, <3>2, <3>3, <3>4
  <2> QED
    BY <2>1, <2>2, <2>3, <2>4
<1>11. ASSUME NEW i \in Pid, Bind(i) PROVE IInv'
  <2>1. TypeOK'
    <3>1. [proc[i] EXCEPT !.listening = TRUE] \in Process
      BY <1>11, ListeningType DEF Bind
    <3>2. proc' \in [Pid -> Process \cup {None}]
      BY <1>11, <3>1, ZenonT(60) DEF Bind
    <3> QED
      BY <1>11, <3>2 DEF Bind
  <2>2. Lagging'
    BY <1>11 DEF Bind
  <2>3. /\ \A j \in Pid : Alive(j)' => j \in orphaned' <=> j \in orphaned
        /\ \A j \in Pid : Alive(j)' => Alive(j)
    <3>1. CASE proc' = [proc EXCEPT ![i] = None] /\ orphaned' = orphaned \ {i}
      BY <3>1
    <3>2. CASE proc' = [proc EXCEPT ![i].listening = TRUE] /\ UNCHANGED orphaned
      BY <3>2, <1>11 DEF Bind
    <3> QED
      BY <3>1, <3>2, <1>11 DEF Bind
  <2>4. \A j \in Pid : Alive(j)' => proc'[j].project = proc[j].project
    BY <1>11 DEF Bind
  <2>5. pc' = pc /\ \A q \in Project : InHand(q)' = InHand(q) /\ OnFile(q)' = OnFile(q)
    BY <1>11 DEF Bind
  <2>6. \A j \in Pid : Alive(j) => proc[j].project \in Project
    OBVIOUS
  <2>7. (\A q \in Project : Terminated(q)') /\ Tracked'
    <3> HIDE DEF TypeOK, Lagging, InHand, OnFile, Alive
    <3> QED
      BY <2>3, <2>4, <2>5, <2>6
  <2> QED
    BY <2>1, <2>2, <2>7
<1>12. ASSUME NEW i \in Pid, Die(i) PROVE IInv'
  BY <1>12 DEF Die
<1>13. CASE UNCHANGED vars
  BY <1>13 DEF vars
<1> HIDE DEF IInv, TypeOK, Lagging, NoInfo, NoFile, NoPidYet, InSync, Terminated, Tracked,
             Alive, PC, Goto, Leave, InHand, OnFile, Stack, Process
<1> QED
  BY <1>1, <1>2, <1>3, <1>4, <1>5, <1>6, <1>7, <1>8, <1>9, <1>10, <1>11, <1>12, <1>13,
     FailsAsCrash DEF Next, Advance

(* The invariant holds in every behaviour. *)
THEOREM Invariant == Spec => []IInv
<1>1. Init => IInv
  BY InitInv
<1>2. IInv /\ [Next]_vars => IInv'
  BY StepInv
<1> QED
  BY <1>1, <1>2, PTL DEF Spec

(* Type correctness of the stack's processes and files                     *)
(* (supervisor.py:131-252).                                                *)
THEOREM TypeCorrect == Spec => []TypeOK
<1>1. IInv => TypeOK
  BY DEF IInv
<1> QED
  BY <1>1, Invariant, PTL

(* The window between Popen and the write of stack.json is the only one in *)
(* which a process can be forgotten (supervisor.py:205-210).               *)
THEOREM NoneForgotten == Spec => []Tracked
<1>1. IInv => Tracked
  BY DEF IInv
<1> QED
  BY <1>1, Invariant, PTL

(* A stopped stack leaves no process behind, whatever failed before, but   *)
(* what a dead handler had launched and not recorded                       *)
(* (docs/poc-scope.md:81, supervisor.py:205-210).                          *)
THEOREM StopIsComplete == Spec => []StopLeavesNothing
<1>1. IInv => StopLeavesNothing
  BY NoneAssumption
  DEF IInv, Tracked, Lagging, NoInfo, TypeOK, StopLeavesNothing, InHand, OnFile, Alive, Process
<1> QED
  BY <1>1, Invariant, PTL

-----------------------------------------------------------------------------

AllApart == \A p, q \in Project : p # q => Apart(p, q)

LEMMA InitApart == Init => AllApart
BY DEF Init, AllApart, Apart, Chosen

LEMMA StepApart == IInv /\ AllApart /\ [Next]_vars => AllApart'
<1> SUFFICES ASSUME IInv, AllApart, [Next]_vars PROVE AllApart'
  OBVIOUS
<1> USE StackAssumption, NoneAssumption DEF AllApart, Apart, Chosen
<1>1. ASSUME NEW p \in Project, ChoosePorts(p) PROVE AllApart'
  <2>1. file[p] = None /\ file' = file /\ pc' = [pc EXCEPT ![p] = "record"]
    BY <1>1 DEF ChoosePorts, Goto, IInv, Lagging, NoFile
  <2>2. PICK port \in [Service -> Port] :
          /\ \A s \in Service : port[s] \in Free(p, s)
          /\ info' = [info EXCEPT ![p] = [port |-> port, pid |-> [s \in Service |-> None]]]
    BY <1>1 DEF ChoosePorts
  <2>3. ASSUME NEW q \in Project \ {p}, pc[q] # "record" PROVE Apart(p, q)' /\ Apart(q, p)'
    <3>1. file[q] # None => \A s \in Service : port[s] # file[q].port[s]
      BY <2>2 DEF Free, Recorded
    <3>2. Chosen(p)'.port = port /\ Chosen(q)' = file[q]
      BY <2>1, <2>2, <2>3 DEF IInv, TypeOK
    <3> QED
      BY <3>1, <3>2
  <2>4. ASSUME NEW q \in Project \ {p}, pc[q] = "record" PROVE p \in raced'
    BY <1>1, <2>4 DEF ChoosePorts
  <2>5. ASSUME NEW q \in Project \ {p} PROVE Chosen(q)' = Chosen(q)
    BY <2>1, <2>2 DEF IInv, TypeOK
  <2>6. \A q \in Project \ {p} : q \in raced' <=> q \in raced
    BY <1>1 DEF ChoosePorts
  <2> QED
    BY <2>3, <2>4, <2>5, <2>6
<1>2. ASSUME raced' = raced,
             \A p \in Project : \/ Chosen(p)' = None
                                \/ Chosen(p) # None /\ Chosen(p)'.port = Chosen(p).port
      PROVE AllApart'
  <2> SUFFICES ASSUME NEW p \in Project, NEW q \in Project, p # q PROVE Apart(p, q)'
    OBVIOUS
  <2> HIDE DEF Chosen
  <2> QED
    BY <1>2
<1>3. ASSUME NEW p \in Project, WriteStack(p) PROVE AllApart'
  BY <1>2, <1>3 DEF WriteStack, Write, Goto, IInv, Lagging, NoFile, NoInfo, InSync, TypeOK
<1>4. ASSUME NEW p \in Project, NEW s \in Service, Launch(p, s) PROVE AllApart'
  <2>1. /\ file' = file /\ raced' = raced
        /\ pc' = [pc EXCEPT ![p] = IF s = "apishim" THEN "apishim_pid" ELSE "controller_pid"]
        /\ \A q \in Project : pc[q] = "record" => info'[q] = info[q]
    BY <1>4 DEF Launch, Goto, IInv, TypeOK, Service
  <2>2. \A q \in Project : Chosen(q)' = Chosen(q)
    BY <2>1, <1>4 DEF Launch, IInv, TypeOK, Service
  <2> HIDE DEF Chosen
  <2> QED
    BY <2>1, <2>2, <1>2
<1>5. ASSUME NEW p \in Project, Start(p) \/ Stop(p) \/ Terminate(p) \/ Unlink(p)
                                \/ Ready(p) \/ TimesOut(p)
      PROVE AllApart'
  BY <1>2, <1>5 DEF Start, Stop, Terminate, Unlink, Ready, TimesOut, Goto, Leave,
                    IInv, TypeOK, Lagging, NoFile
<1>6. ASSUME NEW p \in Project, Crash(p) PROVE AllApart'
  BY <1>2, <1>6 DEF Crash, Goto, Leave, IInv, TypeOK, Lagging, NoFile
<1>7. ASSUME NEW i \in Pid, Bind(i) \/ Die(i) PROVE AllApart'
  BY <1>7 DEF Bind, Die
<1>8. CASE UNCHANGED vars
  BY <1>8 DEF vars
<1> QED
  BY <1>1, <1>3, <1>4, <1>5, <1>6, <1>7, <1>8, FailsAsCrash, StackAssumption DEF Next, Advance

(* Two recorded stacks share a port only if one of them looked for ports   *)
(* while the other had not yet written down its own                        *)
(* (supervisor.py:153-204).                                                *)
THEOREM PortsApart == Spec => []DistinctPorts
<1>1. IInv /\ AllApart => DistinctPorts
  BY NoneAssumption
  DEF IInv, Lagging, NoFile, AllApart, Apart, Chosen, DistinctPorts
<1> QED
  BY <1>1, InitApart, StepApart, Invariant, PTL DEF Spec

-----------------------------------------------------------------------------

(* What stack.json and the handler's memory have for a service.            *)
OnFileAs(p, s) == IF file[p] = None THEN {} ELSE {file[p].pid[s]}
InHandAs(p, s) == IF info[p] = None THEN {} ELSE {info[p].pid[s]}

(* A live process is recorded under its own service: Tracked would be true *)
(* of a controller that stack.json takes for the API shim.                 *)
TrackedAs ==
  \A i \in Pid \ orphaned : Alive(i) =>
    i \in OnFileAs(proc[i].project, proc[i].service) \cup InHandAs(proc[i].project, proc[i].service)

(* The file never names another process than the memory does.              *)
LEMMA OneName ==
  ASSUME IInv, NEW p \in Project, NEW s \in Service,
         NEW i \in Pid, NEW j \in Pid,
         {i, j} \subseteq OnFileAs(p, s) \cup InHandAs(p, s)
  PROVE  i = j
BY NoneAssumption, StackAssumption
DEF IInv, TypeOK, Lagging, NoInfo, NoFile, NoPidYet, InSync, OnFileAs, InHandAs, Service, PC, Stack

LEMMA InitTrackedAs == Init => TrackedAs
BY DEF Init, TrackedAs, Alive

(* Steps that start no process, adopt no record and forget no name.        *)
LEMMA KeepTrackedAs ==
  ASSUME IInv, TrackedAs,
         \A i \in Pid : Alive(i)' =>
           /\ Alive(i) /\ proc'[i].project = proc[i].project /\ proc'[i].service = proc[i].service
           /\ i \in orphaned => i \in orphaned',
         \A p \in Project, s \in Service, i \in Pid \ orphaned' :
           i \in OnFileAs(p, s) \cup InHandAs(p, s) =>
             i \in OnFileAs(p, s)' \cup InHandAs(p, s)'
  PROVE  TrackedAs'
<1> SUFFICES ASSUME NEW i \in Pid \ orphaned', Alive(i)'
             PROVE  (i \in OnFileAs(proc[i].project, proc[i].service)
                            \cup InHandAs(proc[i].project, proc[i].service))'
  BY DEF TrackedAs
<1>1. /\ Alive(i) /\ i \in Pid \ orphaned
      /\ proc'[i].project = proc[i].project /\ proc'[i].service = proc[i].service
  OBVIOUS
<1>2. PICK p \in Project, s \in Service : proc[i].project = p /\ proc[i].service = s
  BY <1>1 DEF IInv, TypeOK, Alive, Process
<1>3. i \in OnFileAs(p, s) \cup InHandAs(p, s)
  BY <1>1, <1>2 DEF TrackedAs
<1>4. i \in OnFileAs(p, s)' \cup InHandAs(p, s)'
  BY <1>3
<1>5. proc'[i].project = p /\ proc'[i].service = s
  BY <1>1, <1>2
<1> QED
  BY <1>4, <1>5 DEF OnFileAs, InHandAs

LEMMA StepTrackedAs == IInv /\ TrackedAs /\ [Next]_vars => TrackedAs'
<1> SUFFICES ASSUME IInv, TrackedAs, [Next]_vars PROVE TrackedAs'
  OBVIOUS
<1> USE StackAssumption, NoneAssumption
<1>1. ASSUME NEW p \in Project, Start(p) \/ Stop(p) PROVE TrackedAs'
  BY <1>1 DEF Start, Stop, TrackedAs, Alive, OnFileAs, InHandAs
<1>2. ASSUME NEW p \in Project, Terminate(p) PROVE TrackedAs'
  BY <1>2, KeepTrackedAs DEF Terminate, Alive, OnFileAs, InHandAs
<1>3. ASSUME NEW p \in Project, Unlink(p) PROVE TrackedAs'
  <2>1. /\ proc' = proc /\ orphaned' = orphaned /\ pc[p] = "unlink" /\ info[p] = None
        /\ \A q \in Project \ {p} : info'[q] = info[q] /\ file'[q] = file[q]
    BY <1>3 DEF Unlink, Leave, IInv, TypeOK, Lagging, NoInfo
  <2>2. \A i \in Pid \ orphaned : Alive(i) => proc[i].project # p
    BY <2>1 DEF IInv, Terminated
  <2>3. \A i \in Pid : Alive(i) => proc[i].project \in Project
    BY DEF IInv, TypeOK, Alive, Process
  <2> QED
    BY <2>1, <2>2, <2>3 DEF TrackedAs, Alive, OnFileAs, InHandAs
<1>4. ASSUME NEW p \in Project, ChoosePorts(p) PROVE TrackedAs'
  <2>1. file[p] = None /\ info[p] = None /\ file' = file /\ proc' = proc /\ orphaned' = orphaned
    BY <1>4 DEF ChoosePorts, IInv, Lagging, NoFile, NoInfo
  <2>2. \A q \in Project \ {p} : info'[q] = info[q]
    BY <1>4 DEF ChoosePorts, IInv, TypeOK
  <2> QED
    BY <2>1, <2>2, KeepTrackedAs DEF Alive, OnFileAs, InHandAs
<1>5. ASSUME NEW p \in Project, WriteStack(p) PROVE TrackedAs'
  <2>1. /\ proc' = proc /\ orphaned' = orphaned /\ info' = info
        /\ file'[p] = info[p] /\ \A q \in Project \ {p} : file'[q] = file[q]
    BY <1>5 DEF WriteStack, Write, IInv, TypeOK
  <2>2. \A s \in Service, i \in Pid : i \in OnFileAs(p, s) => i \in InHandAs(p, s)
    BY <1>5 DEF WriteStack, Write, IInv, TypeOK, Lagging, NoInfo, NoFile, NoPidYet, InSync,
                OnFileAs, InHandAs, Service
  <2> QED
    BY <2>1, <2>2, KeepTrackedAs DEF Alive, OnFileAs, InHandAs
<1>6. ASSUME NEW p \in Project, NEW s \in Service, Launch(p, s) PROVE TrackedAs'
  <2>1. PICK i \in Pid :
          /\ ~Alive(i)
          /\ proc' = [proc EXCEPT ![i] = [project |-> p, service |-> s,
                                         port |-> info[p].port[s], listening |-> FALSE]]
          /\ info' = [info EXCEPT ![p].pid[s] = i]
    BY <1>6 DEF Launch
  <2>2. file' = file /\ orphaned' = orphaned
    BY <1>6 DEF Launch
  <2>3. info[p] \in Stack /\ info[p].pid[s] = None
    BY <1>6 DEF Launch, IInv, TypeOK, Lagging, NoInfo, NoPidYet, Service
  <2>4. /\ info'[p] # None /\ info'[p].pid[s] = i
        /\ \A t \in Service \ {s} : info'[p].pid[t] = info[p].pid[t]
        /\ \A q \in Project \ {p} : info'[q] = info[q]
    <3> DEFINE named == [info[p] EXCEPT !.pid = [info[p].pid EXCEPT ![s] = i]]
    <3>1. info' = [info EXCEPT ![p] = named]
      BY <2>1
    <3>2. /\ named.pid[s] = i
          /\ \A t \in Service \ {s} : named.pid[t] = info[p].pid[t]
          /\ named \in Stack
      BY <2>3 DEF Stack
    <3> HIDE DEF named
    <3>3. info'[p] = named /\ \A q \in Project \ {p} : info'[q] = info[q]
      BY <3>1 DEF IInv, TypeOK
    <3> QED
      BY <3>2, <3>3, NoneAssumption
  <2>5. proc'[i].project = p /\ proc'[i].service = s /\ \A j \in Pid \ {i} : proc'[j] = proc[j]
    BY <2>1 DEF IInv, TypeOK
  <2>6. \A j \in Pid \ {i} : Alive(j) => proc[j].project \in Project /\ proc[j].service \in Service
    BY DEF IInv, TypeOK, Alive, Process
  <2>7. \A q \in Project, t \in Service, j \in Pid :
          j \in OnFileAs(q, t) \cup InHandAs(q, t) => j \in OnFileAs(q, t)' \cup InHandAs(q, t)'
    BY <2>2, <2>3, <2>4 DEF OnFileAs, InHandAs
  <2>8. i \in InHandAs(p, s)'
    BY <2>4 DEF InHandAs
  <2> HIDE DEF OnFileAs, InHandAs
  <2> QED
    BY <2>2, <2>5, <2>6, <2>7, <2>8 DEF TrackedAs, Alive
<1>7. ASSUME NEW p \in Project, Ready(p) \/ TimesOut(p) PROVE TrackedAs'
  <2>1. /\ proc' = proc /\ orphaned' = orphaned /\ file' = file
        /\ \A q \in Project \ {p} : info'[q] = info[q]
    BY <1>7 DEF Ready, TimesOut, Leave, IInv, TypeOK
  <2>2. file[p] = info[p]
    BY <1>7 DEF Ready, TimesOut, IInv, Lagging, InSync
  <2> QED
    BY <2>1, <2>2, KeepTrackedAs DEF Alive, OnFileAs, InHandAs
<1>8. ASSUME NEW p \in Project, Crash(p) PROVE TrackedAs'
  <2>1. /\ proc' = proc /\ orphaned \subseteq orphaned' /\ file' = file /\ p \in Project
        /\ \A q \in Project \ {p} : info'[q] = info[q]
    BY <1>8 DEF Crash, Leave, IInv, TypeOK
  <2>2. \A s \in Service, i \in Pid : i \in InHandAs(p, s) => i \in OnFileAs(p, s) \cup orphaned'
    <3> SUFFICES ASSUME NEW s \in Service, NEW i \in Pid, info[p] # None, i = info[p].pid[s]
                 PROVE  i \in OnFileAs(p, s) \cup orphaned'
      BY DEF InHandAs
    <3> USE <2>1 DEF IInv, TypeOK, Lagging, NoInfo, NoFile, NoPidYet, InSync, OnFileAs, Service, PC
    <3>1. CASE pc[p] \in {"record", "apishim", "controller", "wait_controller", "wait_apishim"}
      BY <3>1
    <3>2. CASE \/ pc[p] = "apishim_pid" /\ s = "apishim"
               \/ pc[p] = "controller_pid" /\ s = "controller"
      BY <3>2, <1>8 DEF Crash, Unrecorded
    <3>3. CASE \/ pc[p] = "apishim_pid" /\ s = "controller"
               \/ pc[p] = "controller_pid" /\ s = "apishim"
      BY <3>3
    <3>4. /\ pc[p] \in {"record", "apishim", "controller", "wait_controller", "wait_apishim",
                        "apishim_pid", "controller_pid"}
          /\ s \in {"apishim", "controller"}
      OBVIOUS
    <3> QED
      BY <3>1, <3>2, <3>3, <3>4
  <2> QED
    BY <2>1, <2>2, KeepTrackedAs DEF Alive, OnFileAs, InHandAs
<1>9. ASSUME NEW i \in Pid, Bind(i) \/ Die(i) PROVE TrackedAs'
  <2>1. file' = file /\ info' = info
    BY <1>9 DEF Bind, Die
  <2>2. \A j \in Pid : Alive(j)' =>
           /\ Alive(j) /\ proc'[j].project = proc[j].project /\ proc'[j].service = proc[j].service
           /\ j \in orphaned => j \in orphaned'
    BY <1>9 DEF Bind, Die, Alive, IInv, TypeOK, Process
  <2> QED
    BY <2>1, <2>2, KeepTrackedAs DEF OnFileAs, InHandAs
<1>10. CASE UNCHANGED vars
  BY <1>10 DEF vars, TrackedAs, Alive, OnFileAs, InHandAs
<1> QED
  BY <1>1, <1>2, <1>3, <1>4, <1>5, <1>6, <1>7, <1>8, <1>9, <1>10, FailsAsCrash,
     StackAssumption DEF Next, Advance

(* A project runs each service once, whatever its handlers met before: a   *)
(* start stops what is recorded first, and what it stops is all there is   *)
(* but what a dead handler had not recorded (supervisor.py:131-252).       *)
THEOREM EachRunsOnce == Spec => []OneOfEach
<1>1. IInv /\ TrackedAs => OneOfEach
  <2> SUFFICES ASSUME IInv, TrackedAs, NEW i \in Pid \ orphaned, NEW j \in Pid \ orphaned,
                      Alive(i), Alive(j), proc[i].project = proc[j].project,
                      proc[i].service = proc[j].service
               PROVE  i = j
    BY DEF OneOfEach
  <2>1. proc[i].project \in Project /\ proc[i].service \in Service
    BY DEF IInv, TypeOK, Alive, Process
  <2> QED
    BY <2>1, OneName DEF TrackedAs
<1> QED
  BY <1>1, InitTrackedAs, StepTrackedAs, Invariant, PTL DEF Spec

-----------------------------------------------------------------------------
(* The authority. *)

(* The bundle is that of the data, and Caddy signs with nothing else.      *)
Trustworthy == bundle # NoAuthority /\ bundle = data /\ signer \in {NoAuthority, bundle}

(* Only a regeneration purges.  Unless something upset it, the bundle that *)
(* an operator has exported stays that of the data; with the probe that    *)
(* verifies it, Caddy signs with it too, and so do its later starts.  What *)
(* has been taken to a store since a sound start is that bundle.           *)
CaddyInv ==
  /\ CaddyTypeOK
  /\ \A o \in Operator :
       /\ stage[o] \in {"purge_bundle", "purge_data"} => work[o] = "regenerate"
       /\ stage[o] \in {"verify", "ok"} /\ ~upset[o] => bundle # NoAuthority /\ bundle = data
       /\ stage[o] = "ok" /\ ~upset[o] => Trustworthy
  /\ sound => Trustworthy
  /\ \A s \in promised : sound /\ stored[s] = bundle

LEMMA CaddyInitInv == CaddyInit => CaddyInv
BY AuthorityAssumption DEF CaddyInit, CaddyInv, CaddyTypeOK, Work, Stage

LEMMA CaddyStepInv == CaddyInv /\ [CaddyNext]_caddyVars => CaddyInv'
<1> SUFFICES ASSUME CaddyInv, [CaddyNext]_caddyVars PROVE CaddyInv'
  OBVIOUS
<1> USE AuthorityAssumption
    DEF CaddyInv, CaddyTypeOK, Work, Stage, Trustworthy, StageIs, Calm, storeVars, Upset
<1>1. ASSUME NEW o \in Operator, NEW w \in {"start", "recover", "regenerate"}, Undertake(o, w)
      PROVE CaddyInv'
  BY <1>1 DEF Undertake
<1>2. ASSUME NEW o \in Operator, StopCaddy(o) PROVE CaddyInv'
  BY <1>2 DEF StopCaddy
<1>3. ASSUME NEW o \in Operator, PurgeBundle(o) PROVE CaddyInv'
  BY <1>3 DEF PurgeBundle
<1>4. ASSUME NEW o \in Operator, PurgeData(o) PROVE CaddyInv'
  <2>1. CASE stage[o] = "purge_data" /\ StageIs(o, "ensure") /\ data' = NoAuthority /\ Upset
    BY <1>4, <2>1 DEF PurgeData
  <2>2. CASE stage[o] = "purge_data" /\ StageIs(o, "failed") /\ UNCHANGED <<data, upset>> /\ Calm
    BY <1>4, <2>2 DEF PurgeData
  <2> QED
    BY <1>4, <2>1, <2>2 DEF PurgeData
<1>5. ASSUME NEW o \in Operator, EnsureCaddy(o) PROVE CaddyInv'
  BY <1>5 DEF EnsureCaddy
<1>6. ASSUME NEW o \in Operator, LaunchCaddy(o) PROVE CaddyInv'
  BY <1>6 DEF LaunchCaddy
<1>7. ASSUME NEW o \in Operator, ExportBundle(o) PROVE CaddyInv'
  BY <1>7 DEF ExportBundle
<1>8. ASSUME NEW o \in Operator, Verify(o) PROVE CaddyInv'
  <2>1. stage[o] = "verify" /\ UNCHANGED <<data, signer, bundle, used, upset, stored, promised>>
    BY <1>8 DEF Verify
  <2>2. CASE Serves /\ StageIs(o, "ok") /\ told' = TRUE /\ sound' = (sound \/ ~upset[o])
             /\ UNCHANGED work
    <3>1. sound' \in BOOLEAN /\ (sound' => sound \/ ~upset[o]) /\ (sound => sound')
      BY <2>2
    <3>2. stage' = [stage EXCEPT ![o] = "ok"] /\ told' \in BOOLEAN /\ work' = work /\ Serves
      BY <2>2
    <3>3. Trustworthy' <=> Trustworthy
      BY <2>1
    <3>4. ~upset[o] => Trustworthy
      BY <2>1, <3>2 DEF Serves
    <3>5. sound' => Trustworthy
      BY <3>1, <3>4
    <3> HIDE DEF Trustworthy
    <3>6. CaddyTypeOK'
      BY <2>1, <3>1, <3>2
    <3>7. /\ \A n \in Operator :
               /\ stage'[n] \in {"purge_bundle", "purge_data"} => work'[n] = "regenerate"
               /\ stage'[n] \in {"verify", "ok"} /\ ~upset'[n] =>
                    bundle' # NoAuthority /\ bundle' = data'
               /\ stage'[n] = "ok" /\ ~upset'[n] => Trustworthy'
      BY <2>1, <3>2, <3>3, <3>4
    <3>8. \A s \in promised' : sound' /\ stored'[s] = bundle'
      BY <2>1, <3>1
    <3> QED
      BY <3>3, <3>5, <3>6, <3>7, <3>8
  <2>3. CASE /\ UNCHANGED <<told, sound>>
             /\ IF work[o] = "start"
                  THEN StageIs(o, "stop") /\ work' = [work EXCEPT ![o] = "recover_start"]
                  ELSE StageIs(o, "failed") /\ UNCHANGED work
    BY <2>1, <2>3
  <2> QED
    BY <1>8, <2>2, <2>3 DEF Verify
<1>9. ASSUME NEW o \in Operator, Dismiss(o) PROVE CaddyInv'
  BY <1>9 DEF Dismiss
<1>10. CASE CaddyEnds
  BY <1>10 DEF CaddyEnds
<1>11. CASE DataReplaced
  BY <1>11 DEF DataReplaced
<1>12. ASSUME NEW s \in Store, ExportAuthority(s) \/ InstallTrust(s) \/ UninstallTrust(s)
       PROVE CaddyInv'
  BY <1>12 DEF ExportAuthority, InstallTrust, UninstallTrust, Holds, caddy
<1>13. CASE UNCHANGED caddyVars
  BY <1>13 DEF caddyVars
<1> QED
  BY <1>1, <1>2, <1>3, <1>4, <1>5, <1>6, <1>7, <1>8, <1>9, <1>10, <1>11, <1>12, <1>13
  DEF CaddyNext, OperatorStep

LEMMA CaddyInvariant == CaddySpec => []CaddyInv
BY CaddyInitInv, CaddyStepInv, PTL DEF CaddySpec

(* Type correctness of the authority and of those who work on it           *)
(* (ingress.py:286-560, 1250-1330).                                        *)
THEOREM CaddyTypeCorrect == CaddySpec => []CaddyTypeOK
<1>1. CaddyInv => CaddyTypeOK
  BY DEF CaddyInv
<1> QED
  BY <1>1, CaddyInvariant, PTL

(* A start, a recovery or a regeneration that reports success has left the *)
(* bundle Caddy signs with, unless the data was taken away meanwhile, and  *)
(* what users have installed since stays valid, with any number of         *)
(* operators on the same container (_verified_dashboard_health_probe,      *)
(* trust_install).                                                         *)
THEOREM TrustIsKept == CaddySpec => []ReportedIsTrusted
<1>1. CaddyInv => ReportedIsTrusted
  BY DEF CaddyInv, Trustworthy, ReportedIsTrusted
<1> QED
  BY <1>1, CaddyInvariant, PTL

(* No start and no recovery gives up the authority or the exported bundle, *)
(* whatever it races with: only a confirmed regeneration does              *)
(* (_recover_caddy_ca_mismatch, regenerate_ca).                            *)
THEOREM OnlyRegenerationPurges == CaddySpec => AuthorityKept
<1>1. CaddyInv /\ [CaddyNext]_caddyVars =>
        [\A o \in Operator : OperatorStep(o) /\ work[o] # "regenerate" =>
           /\ data # NoAuthority => data' = data
           /\ bundle # NoAuthority => bundle' # NoAuthority]_caddyVars
  <2> SUFFICES ASSUME CaddyInv, NEW o \in Operator, OperatorStep(o), work[o] # "regenerate"
               PROVE  /\ data # NoAuthority => data' = data
                      /\ bundle # NoAuthority => bundle' # NoAuthority
    OBVIOUS
  <2> QED
    BY DEF CaddyInv, CaddyTypeOK, OperatorStep, StopCaddy, PurgeBundle, PurgeData, EnsureCaddy,
           LaunchCaddy, ExportBundle, Verify, Dismiss
<1> QED
  BY <1>1, CaddyInvariant, PTL DEF CaddySpec, AuthorityKept

-----------------------------------------------------------------------------
(* The route of a stack. *)

(* A stack that is not down is on record, so that one that is stopped is,  *)
(* and new ports are written only while nothing listens to any.            *)
StackOnRecord ==
  /\ stackIs # "down" => onRecord
  /\ handlerAt \in {"unroute", "write", "launch"} => stackIs = "down"

(* A probe cannot miss what has been out of order since it began, and what *)
(* it has mended stays so unless something was: the certificate, once the  *)
(* failure was the route's or Caddy has been started again, and the route, *)
(* once it is synchronized.                                                *)
ProbeInOrder(p) ==
  /\ probe[p].at # "idle" =>
       /\ stackIs # "up" => witness[p].down
       /\ ~site => witness[p].upset
       /\ ~caddyUp /\ probe[p].at # "start_caddy" => witness[p].upset
  /\ probe[p].at \in {"deny", "deny_sync"} => witness[p].down \/ probe[p].refused
  /\ probe[p].at \in {"diagnose", "ask", "status", "sync", "retry", "last_sync"} =>
       witness[p].upset \/ trusted
  /\ probe[p].at \in {"retry", "tls_retry"} =>
       witness[p].down \/ witness[p].upset \/ probe[p].failed \/ servedAs = "current"
  /\ probe[p].report # "none" => probe[p].at = "done"
  /\ probe[p].report = "not_running" => witness[p].down \/ probe[p].refused
  /\ probe[p].report = "failed" => witness[p].down \/ witness[p].upset \/ probe[p].failed

RouteInv == RouteTypeOK /\ StackOnRecord /\ \A p \in Prober : ProbeInOrder(p)

(* The places of a probe, and what it has found.                           *)
ProbeAt == {"idle", "first", "diagnose", "ask", "status", "deny", "deny_sync", "sync", "retry",
            "tls_sync", "tls_retry", "stop_caddy", "start_caddy", "last_sync", "done"}

ProbeState ==
  [at : ProbeAt, report : {"none", "answered", "not_running", "failed"},
   files : BOOLEAN, refused : BOOLEAN, failed : BOOLEAN]

LEMMA ProbeStates == RouteTypeOK => probe \in [Prober -> ProbeState]
BY Zenon DEF RouteTypeOK, ProbeState, ProbeAt

(* A step of a probe leaves it in one of its states.                       *)
LEMMA ProbeUpdates ==
  ASSUME NEW s \in ProbeState, NEW x \in BOOLEAN
  PROVE  /\ \A next \in ProbeAt : [s EXCEPT !.at = next] \in ProbeState
         /\ [s EXCEPT !.report = "failed"] \in ProbeState
         /\ [s EXCEPT !.files = x] \in ProbeState
         /\ [s EXCEPT !.refused = x] \in ProbeState
         /\ [s EXCEPT !.failed = x] \in ProbeState
BY DEF ProbeState

(* What Observe means for the probes that go on.                           *)
Witnessed ==
  /\ witness' \in [Prober -> [down : BOOLEAN, upset : BOOLEAN]]
  /\ \A p \in Prober :
       /\ stackIs' # "up" => witness'[p].down
       /\ ~site' => witness'[p].upset
       /\ ~caddyUp' /\ probe'[p].at # "start_caddy" => witness'[p].upset
       /\ probe'[p].at \notin {"idle", "first"} =>
            /\ witness[p].down => witness'[p].down
            /\ witness[p].upset \/ (trusted /\ ~trusted') => witness'[p].upset

(* The types after a step of a probe that changes them in other ways than  *)
(* its place.                                                              *)
LEMMA ProbeStepTypes ==
  ASSUME RouteTypeOK, Witnessed, NEW p \in Prober, NEW r \in ProbeState,
         probe' = [probe EXCEPT ![p] = r], UNCHANGED <<stackVars, handlerVars, lister>>,
         holder' \in {"nobody", "daemon", "outside"}, servedAs' \in {"none", "current", "stale"},
         site' \in BOOLEAN, caddyUp' \in BOOLEAN, trusted' \in BOOLEAN
  PROVE  RouteTypeOK'
<1>1. probe' \in [Prober -> ProbeState]
  BY ProbeStates
<1>2. probe' \in [Prober -> [at : {"idle", "first", "diagnose", "ask", "status", "deny",
                                  "deny_sync", "sync", "retry", "tls_sync", "tls_retry",
                                  "stop_caddy", "start_caddy", "last_sync", "done"},
                            report : {"none", "answered", "not_running", "failed"},
                            files : BOOLEAN, refused : BOOLEAN, failed : BOOLEAN]]
  BY <1>1, Zenon DEF ProbeState, ProbeAt
<1> QED
  BY <1>2 DEF RouteTypeOK, Witnessed, stackVars, handlerVars

LEMMA ObserveWitnesses == Observe => Witnessed
<1> SUFFICES ASSUME Observe PROVE Witnessed
  OBVIOUS
<1> DEFINE goesOn(p) == probe'[p].at \notin {"idle", "first"}
           down(p) == (goesOn(p) /\ witness[p].down) \/ stackIs' # "up"
           blocked(p) == \/ goesOn(p) /\ (witness[p].upset \/ (trusted /\ ~trusted'))
                         \/ ~site'
                         \/ ~caddyUp' /\ probe'[p].at # "start_caddy"
<1>1. witness' = [p \in Prober |-> [down |-> down(p), upset |-> blocked(p)]]
  BY Zenon DEF Observe
<1>2. \A p \in Prober : down(p) \in BOOLEAN /\ blocked(p) \in BOOLEAN
  BY Zenon
<1>3. \A p \in Prober : witness'[p].down = down(p) /\ witness'[p].upset = blocked(p)
  <2> HIDE DEF down, blocked
  <2> QED
    BY <1>1
<1>4. witness' \in [Prober -> [down : BOOLEAN, upset : BOOLEAN]]
  <2> HIDE DEF down, blocked
  <2> QED
    BY <1>1, <1>2
<1>5. \A p \in Prober : (witness'[p].down <=> down(p)) /\ (witness'[p].upset <=> blocked(p))
  BY <1>3, Zenon
<1> QED
  BY <1>4, <1>5 DEF Witnessed

(* What the first answer tells.                                            *)
LEMMA AnswerTells ==
  ASSUME RouteTypeOK
  PROVE  /\ Answer \in {"answered", "route", "tls"}
         /\ Answer = "route" => ~caddyUp \/ trusted
         /\ caddyUp /\ trusted /\ servedAs = "current" /\ stackIs = "up" => Answer = "answered"
<1> USE DEF RouteTypeOK, Answer
<1>1. CASE ~caddyUp
  BY <1>1
<1>2. CASE caddyUp /\ (servedAs = "none" \/ ~trusted)
  BY <1>2
<1>3. CASE caddyUp /\ trusted /\ servedAs # "none"
  BY <1>3
<1> QED
  BY <1>1, <1>2, <1>3

LEMMA RouteInitInv == RouteInit => RouteInv
<1> SUFFICES ASSUME RouteInit PROVE RouteInv
  OBVIOUS
<1>1. RouteTypeOK
  BY DEF RouteInit, RouteTypeOK, AtRest
<1>2. StackOnRecord
  BY DEF RouteInit, StackOnRecord
<1>3. \A p \in Prober : probe[p].at = "idle" /\ probe[p].report = "none"
  BY DEF RouteInit, AtRest
<1> QED
  BY <1>1, <1>2, <1>3 DEF RouteInv, ProbeInOrder

LEMMA RouteStepInv == RouteInv /\ [RouteNext]_routeVars => RouteInv'
<1> SUFFICES ASSUME RouteInv, [RouteNext]_routeVars PROVE RouteInv'
  OBVIOUS
<1>1. CASE UNCHANGED routeVars
  BY <1>1 DEF RouteInv, RouteTypeOK, StackOnRecord, ProbeInOrder, routeVars, stackVars,
              ingressVars, handlerVars
<1>2. CASE RouteNext
  <2>1. RouteStep /\ Witnessed
    BY <1>2, ObserveWitnesses DEF RouteNext
  <2> USE <2>1 DEF RouteInv, RouteTypeOK, StackOnRecord, ProbeInOrder, Witnessed, stackVars,
               ingressVars, handlerVars, HandlerGoes, ListerGoes, ProbeGoes, Reports, Only
  <2>2. ASSUME NEW op \in {"start", "stop", "assess"}, BeginHandler(op) PROVE RouteInv'
    BY <2>2 DEF BeginHandler
  <2>3. CASE HandlerEnds
    BY <2>3 DEF HandlerEnds
  <2>4. CASE AssessmentEnds
    BY <2>4 DEF AssessmentEnds
  <2>5. CASE CheckStack
    BY <2>5, ZenonT(60) DEF CheckStack
  <2>6. CASE KillStack
    BY <2>6 DEF KillStack
  <2>7. CASE DropRoute
    BY <2>7 DEF DropRoute
  <2>8. CASE WriteRoute
    BY <2>8 DEF WriteRoute
  <2>9. CASE LaunchStack
    BY <2>9 DEF LaunchStack
  <2>10. CASE StackAnswers
    BY <2>10 DEF StackAnswers
  <2>11. CASE ReloadRoute
    BY <2>11 DEF ReloadRoute, Loaded
  <2>12. CASE StackComesUp
    BY <2>12 DEF StackComesUp
  <2>13. CASE StackFails
    BY <2>13 DEF StackFails
  <2>14. CASE OutsideLocks
    BY <2>14 DEF OutsideLocks
  <2>15. CASE ListStack
    BY <2>15 DEF ListStack
  <2>16. CASE ListRemoves
    BY <2>16, ZenonT(60) DEF ListRemoves
  <2>17. CASE ListSyncs
    BY <2>17 DEF ListSyncs, Loaded
  <2>18. CASE OthersSync
    BY <2>18 DEF OthersSync, Loaded
  <2>19. CASE AuthorityChanges
    <3>1. RouteTypeOK' /\ StackOnRecord'
      BY <2>19, ZenonT(60) DEF AuthorityChanges
    <3>2. \A p \in Prober : ProbeInOrder(p)'
      BY <2>19 DEF AuthorityChanges
    <3> QED
      BY <3>1, <3>2
  <2>20. ASSUME NEW p \in Prober, BeginProbe(p) PROVE RouteInv'
    BY <2>20 DEF BeginProbe
  <2>21. ASSUME NEW p \in Prober, FirstProbe(p) PROVE RouteInv'
    <3>1. CASE Answer = "answered" /\ Reports(p, "answered") /\ Only
      BY <3>1, <2>21, SMTT(30) DEF FirstProbe
    <3>2. CASE Answer = "route" /\ ProbeGoes(p, "diagnose") /\ Only
      BY <3>2, <2>21, AnswerTells DEF FirstProbe
    <3>3. CASE Answer = "tls" /\ ProbeGoes(p, "tls_sync") /\ Only
      BY <3>3, <2>21 DEF FirstProbe
    <3> QED
      BY <2>21, <3>1, <3>2, <3>3, AnswerTells DEF FirstProbe
  <2>22. ASSUME NEW p \in Prober, Diagnose(p) PROVE RouteInv'
    <3>1. probe[p].at = "diagnose" /\ Only
      BY <2>22 DEF Diagnose
    <3>2. probe' = [probe EXCEPT ![p] = [probe[p] EXCEPT !.at = "ask", !.files = site]]
      BY <2>22 DEF Diagnose
    <3>3. RouteTypeOK'
      <4>1. [probe[p] EXCEPT !.at = "ask", !.files = site] \in ProbeState
        BY ProbeStates, ProbeUpdates DEF ProbeAt
      <4> QED
        BY <3>1, <3>2, <4>1, ProbeStepTypes
    <3>4. \A q \in Prober : ProbeInOrder(q)'
      BY <3>1, <3>2
    <3> QED
      BY <3>1, <3>3, <3>4
  <2>23. ASSUME NEW p \in Prober, AskStatus(p) PROVE RouteInv'
    <3>1. CASE /\ probe[p].at = "ask" /\ holder' = "daemon" /\ ProbeGoes(p, "status")
               /\ UNCHANGED <<stackVars, site, ingressVars, handlerVars, lister>>
      BY <3>1
    <3>2. CASE /\ probe' = [probe EXCEPT ![p].refused = TRUE,
                              ![p].at = IF probe[p].files THEN "deny_sync" ELSE "deny"]
               /\ probe[p].at = "ask" /\ UNCHANGED holder
               /\ UNCHANGED <<stackVars, site, ingressVars, handlerVars, lister>>
      <4>1. PICK next \in {"deny", "deny_sync"} :
              probe' = [probe EXCEPT ![p] = [probe[p] EXCEPT !.refused = TRUE, !.at = next]]
        BY <3>2
      <4>2. RouteTypeOK'
        <5>1. [probe[p] EXCEPT !.refused = TRUE, !.at = next] \in ProbeState
          BY ProbeStates, ProbeUpdates DEF ProbeAt
        <5> QED
          BY <3>2, <4>1, <5>1, ProbeStepTypes
      <4>3. \A q \in Prober : ProbeInOrder(q)'
        BY <3>2, <4>1
      <4> QED
        BY <3>2, <4>2, <4>3
    <3> QED
      BY <2>23, <3>1, <3>2 DEF AskStatus
  <2>24. ASSUME NEW p \in Prober, ReadStatus(p) PROVE RouteInv'
    <3>1. CASE stackIs = "up" /\ ProbeGoes(p, "sync") /\ UNCHANGED site
      BY <3>1, <2>24 DEF ReadStatus
    <3>2. CASE /\ stackIs # "up" /\ site' = FALSE
               /\ ProbeGoes(p, IF site \/ probe[p].files THEN "deny_sync" ELSE "deny")
      <4>1. PICK next \in {"deny", "deny_sync"} : ProbeGoes(p, next)
        BY <3>2
      <4>2. probe[p].at = "status" /\ holder' = "nobody"
            /\ UNCHANGED <<stackVars, ingressVars, handlerVars, lister>>
        BY <2>24 DEF ReadStatus
      <4>3. RouteTypeOK'
        <5>1. [probe[p] EXCEPT !.at = next] \in ProbeState
          BY ProbeStates, ProbeUpdates DEF ProbeAt
        <5>2. probe' = [probe EXCEPT ![p] = [probe[p] EXCEPT !.at = next]]
          BY <4>1
        <5>3. /\ holder' \in {"nobody", "daemon", "outside"}
              /\ servedAs' \in {"none", "current", "stale"}
              /\ site' \in BOOLEAN /\ caddyUp' \in BOOLEAN /\ trusted' \in BOOLEAN
          BY <3>2, <4>2
        <5> QED
          BY <3>2, <4>2, <5>1, <5>2, <5>3, ProbeStepTypes
      <4>4. \A q \in Prober : ProbeInOrder(q)'
        BY <3>2, <4>1, <4>2
      <4> QED
        BY <3>2, <4>2, <4>3, <4>4
    <3> QED
      BY <2>24, <3>1, <3>2 DEF ReadStatus
  <2>25. ASSUME NEW p \in Prober, DenyRunning(p) PROVE RouteInv'
    BY <2>25, SMTT(30) DEF DenyRunning
  <2>26. ASSUME NEW p \in Prober, SyncRoutes(p) PROVE RouteInv'
    <3> DEFINE next == AfterSync(probe[p].at)
    <3>1. /\ probe[p].at \in {"deny_sync", "sync", "tls_sync", "last_sync"}
          /\ next \in {"deny", "retry", "tls_retry"}
          /\ next = "deny" => probe[p].at = "deny_sync"
          /\ next = "retry" => probe[p].at \in {"sync", "last_sync"}
          /\ UNCHANGED <<stackVars, site, caddyUp, trusted, holder, handlerVars, lister>>
      BY <2>26 DEF SyncRoutes, AfterSync
    <3> HIDE DEF next
    <3>2. CASE caddyUp /\ servedAs' = Loaded /\ ProbeGoes(p, next)
      BY <3>1, <3>2 DEF Loaded
    <3>3. CASE /\ probe' = [probe EXCEPT ![p] = [probe[p] EXCEPT !.at = next, !.failed = TRUE]]
               /\ UNCHANGED servedAs
      <4>1. RouteTypeOK'
        <5>1. [probe[p] EXCEPT !.at = next, !.failed = TRUE] \in ProbeState
          BY <3>1, ProbeStates, ProbeUpdates DEF ProbeAt
        <5> QED
          BY <3>1, <3>3, <5>1, ProbeStepTypes
      <4>2. \A q \in Prober : ProbeInOrder(q)'
        BY <3>1, <3>3
      <4> QED
        BY <3>1, <3>3, <4>1, <4>2
    <3> QED
      BY <2>26, <3>2, <3>3, ZenonT(60) DEF SyncRoutes, next
  <2>27. ASSUME NEW p \in Prober, Retry(p) PROVE RouteInv'
    BY <2>27, AnswerTells DEF Retry
  <2>28. ASSUME NEW p \in Prober, RetryTls(p) PROVE RouteInv'
    <3>1. CASE Answer = "answered" /\ Reports(p, "answered") /\ Only
      BY <3>1, <2>28 DEF RetryTls
    <3>2. CASE Answer = "route" /\ Reports(p, "failed") /\ Only
      BY <3>2, <2>28, AnswerTells DEF RetryTls
    <3>3. CASE Answer = "tls" /\ ProbeGoes(p, "stop_caddy") /\ Only
      BY <3>3, <2>28 DEF RetryTls
    <3> QED
      BY <2>28, <3>1, <3>2, <3>3, AnswerTells DEF RetryTls
  <2>29. ASSUME NEW p \in Prober, StopForRecovery(p) PROVE RouteInv'
    <3>1. /\ probe[p].at = "stop_caddy"
          /\ UNCHANGED <<stackVars, site, servedAs, trusted, holder, handlerVars, lister>>
      BY <2>29 DEF StopForRecovery
    <3>2. CASE caddyUp' = FALSE /\ ProbeGoes(p, "start_caddy")
      <4>1. RouteTypeOK'
        <5>1. [probe[p] EXCEPT !.at = "start_caddy"] \in ProbeState
          BY ProbeStates, ProbeUpdates DEF ProbeAt
        <5>2. probe' = [probe EXCEPT ![p] = [probe[p] EXCEPT !.at = "start_caddy"]]
          BY <3>2
        <5>3. /\ holder' \in {"nobody", "daemon", "outside"}
              /\ servedAs' \in {"none", "current", "stale"}
              /\ site' \in BOOLEAN /\ caddyUp' \in BOOLEAN /\ trusted' \in BOOLEAN
          BY <3>1, <3>2
        <5> QED
          BY <3>1, <3>2, <5>1, <5>2, <5>3, ProbeStepTypes
      <4>2. \A q \in Prober : ProbeInOrder(q)'
        BY <3>1, <3>2
      <4> QED
        BY <3>1, <4>1, <4>2
    <3>3. CASE /\ probe' = [probe EXCEPT ![p] = [probe[p] EXCEPT !.at = "done", !.report = "failed",
                                                             !.failed = TRUE]]
               /\ UNCHANGED caddyUp
      <4>1. RouteTypeOK'
        <5>1. [probe[p] EXCEPT !.at = "done", !.report = "failed", !.failed = TRUE] \in ProbeState
          BY ProbeStates, ProbeUpdates DEF ProbeAt
        <5> QED
          BY <3>1, <3>3, <5>1, ProbeStepTypes
      <4>2. \A q \in Prober : ProbeInOrder(q)'
        BY <3>1, <3>3
      <4> QED
        BY <3>1, <3>3, <4>1, <4>2
    <3> QED
      BY <2>29, <3>2, <3>3, ZenonT(60) DEF StopForRecovery
  <2>30. ASSUME NEW p \in Prober, StartForRecovery(p) PROVE RouteInv'
    <3>1. probe[p].at = "start_caddy" /\ UNCHANGED <<stackVars, site, holder, handlerVars, lister>>
      BY <2>30 DEF StartForRecovery
    <3>2. CASE /\ caddyUp' = TRUE /\ trusted' = TRUE /\ servedAs' = Loaded
               /\ ProbeGoes(p, "last_sync")
      BY <3>1, <3>2 DEF Loaded
    <3>3. CASE /\ probe' = [probe EXCEPT ![p] = [probe[p] EXCEPT !.at = "done", !.report = "failed",
                                                             !.failed = TRUE]]
               /\ UNCHANGED ingressVars
      <4>1. RouteTypeOK'
        <5>1. [probe[p] EXCEPT !.at = "done", !.report = "failed", !.failed = TRUE] \in ProbeState
          BY ProbeStates, ProbeUpdates DEF ProbeAt
        <5> QED
          BY <3>1, <3>3, <5>1, ProbeStepTypes
      <4>2. \A q \in Prober : ProbeInOrder(q)'
        BY <3>1, <3>3
      <4> QED
        BY <3>1, <3>3, <4>1, <4>2
    <3> QED
      BY <2>30, <3>2, <3>3, ZenonT(60) DEF StartForRecovery
  <2>31. ASSUME NEW p \in Prober, EndProbe(p) PROVE RouteInv'
    BY <2>31 DEF EndProbe, AtRest
  <2> HIDE DEF RouteInv
  <2> QED
    BY <2>2, <2>3, <2>4, <2>5, <2>6, <2>7, <2>8, <2>9, <2>10, <2>11, <2>12, <2>13, <2>14, <2>15,
       <2>16, <2>17, <2>18, <2>19, <2>20, <2>21, <2>22, <2>23, <2>24, <2>25, <2>26, <2>27,
       <2>28, <2>29, <2>30, <2>31
    DEF RouteStep, ProbeStep
<1> QED
  BY <1>1, <1>2

LEMMA RouteInvariant == RouteSpec => []RouteInv
BY RouteInitInv, RouteStepInv, PTL DEF RouteSpec

(* The stack, its route and the places of those who work on it             *)
(* (daemon.py:2140-2443, supervisor.py).                                   *)
THEOREM RouteTypeCorrect == RouteSpec => []RouteTypeOK
<1>1. RouteInv => RouteTypeOK
  BY DEF RouteInv
<1> QED
  BY <1>1, RouteInvariant, PTL

(* However many probes there are, and whatever starts, stops, lists and    *)
(* recovers meanwhile: a probe says that the project does not run only if  *)
(* its stack was not up or the status was refused, and it fails on the     *)
(* route only if something was out of order that it does not mend or one   *)
(* of its repairs failed (ingress_probe, daemon.py:2220-2443).             *)
THEOREM ProbesTellTheTruth == RouteSpec => []ProbeTellsTruth
<1>1. RouteInv => ProbeTellsTruth
  BY DEF RouteInv, ProbeInOrder, ProbeTellsTruth
<1> QED
  BY <1>1, RouteInvariant, PTL

-----------------------------------------------------------------------------
(* The components of an edge link. *)

(* The components of a link, whatever order they are started in.           *)
ComponentSet(w) ==
  {<<"nats">>, <<"gateway">>} \cup ({"rathole"} \X w.tunnels) \cup ({"node"} \X NodesOf(w.cells))

LEMMA NodesAreSome ==
  ASSUME NEW n \in Cells \cup {0}
  PROVE  /\ IsFiniteSet(NodesOf(n)) /\ NodesOf(n) \subseteq LinkNodes
         /\ GatewayNode \in NodesOf(n) /\ ComputeNodes(n) \subseteq NodesOf(n)
<1>1. NodesOf(n) \subseteq LinkNodes /\ ComputeNodes(n) \subseteq NodesOf(n)
  BY DEF LinkNodes, ComputeNodes
<1>2. GatewayNode \in NodesOf(n)
  BY EdgeLinkAssumption DEF NodesOf, GatewayNode
<1>3. IsFiniteSet(NodesOf(n))
  <2>1. CASE n = 0
    BY <2>1, FS_Singleton DEF NodesOf
  <2>2. CASE n # 0
    <3>1. n \in Int /\ CellNodes \in Int
      BY EdgeLinkAssumption
    <3>2. IsFiniteSet(1..n) /\ IsFiniteSet(0..CellNodes)
      BY <3>1, FS_Interval
    <3> QED
      BY <2>2, <3>2, FS_Product DEF NodesOf
  <2> QED
    BY <2>1, <2>2
<1> QED
  BY <1>1, <1>2, <1>3

LEMMA SettingsAreALink == ASSUME NEW w \in LinkSettings PROVE w # NoLink
<1>1. Cells \cup {0} \subseteq Nat
  BY EdgeLinkAssumption
<1>2. w \in [core : Core, tunnels : SUBSET Tunnel, cells : Nat]
  BY <1>1 DEF LinkSettings
<1> QED
  BY <1>2, EdgeLinkAssumption

LEMMA LinkComponentsOf ==
  ASSUME NEW w \in LinkSettings
  PROVE  /\ Components(w) \in Seq(LinkComponents) /\ ToSet(Components(w)) = ComponentSet(w)
         /\ ComponentSet(w) \subseteq LinkComponents
<1> DEFINE R == {<<"rathole", t>> : t \in w.tunnels}
           N == {<<"node", n>> : n \in NodesOf(w.cells) \ {GatewayNode}}
           a == <<<<"nats">>>>
           b == <<<<"gateway">>>>
           c == <<<<"node", GatewayNode>>>>
<1>1. w.tunnels \subseteq Tunnel /\ w.cells \in Cells \cup {0}
  BY DEF LinkSettings
<1>2. /\ IsFiniteSet(NodesOf(w.cells)) /\ NodesOf(w.cells) \subseteq LinkNodes
      /\ GatewayNode \in NodesOf(w.cells)
  BY <1>1, NodesAreSome
<1>3. IsFiniteSet(R) /\ R \subseteq LinkComponents
  <2>1. R = {"rathole"} \X w.tunnels
    OBVIOUS
  <2>2. IsFiniteSet({"rathole"}) /\ IsFiniteSet(w.tunnels)
    BY <1>1, EdgeLinkAssumption, FS_Subset, FS_Singleton
  <2> QED
    BY <1>1, <2>1, <2>2, FS_Product DEF LinkComponents
<1>4. IsFiniteSet(N) /\ N \subseteq LinkComponents
  <2>1. N = {"node"} \X (NodesOf(w.cells) \ {GatewayNode})
    OBVIOUS
  <2>2. IsFiniteSet({"node"}) /\ IsFiniteSet(NodesOf(w.cells) \ {GatewayNode})
    BY <1>2, FS_Subset, FS_Singleton
  <2> QED
    BY <1>2, <2>1, <2>2, FS_Product DEF LinkComponents
<1>5. a \in Seq(LinkComponents) /\ b \in Seq(LinkComponents) /\ c \in Seq(LinkComponents)
  BY <1>2 DEF LinkComponents
<1>6. ToSet(a) = {<<"nats">>} /\ ToSet(b) = {<<"gateway">>} /\ ToSet(c) = {<<"node", GatewayNode>>}
  BY DEF ToSet
<1>7. /\ SetToSeq(R) \in Seq(LinkComponents) /\ ToSet(SetToSeq(R)) = R
      /\ SetToSeq(N) \in Seq(LinkComponents) /\ ToSet(SetToSeq(N)) = N
  <2> HIDE DEF R, N
  <2> QED
    BY <1>3, <1>4, SequenceOfSet, SeqMonotonic
<1>8. Components(w) = a \o SetToSeq(R) \o b \o c \o SetToSeq(N)
  BY SettingsAreALink, Zenon DEF Components
<1> HIDE DEF a, b, c, R, N
<1>9. /\ Components(w) \in Seq(LinkComponents)
      /\ ToSet(Components(w)) = ToSet(a) \cup R \cup ToSet(b) \cup ToSet(c) \cup N
  <2> DEFINE s1 == a \o SetToSeq(R)
             s2 == s1 \o b
             s3 == s2 \o c
             s4 == s3 \o SetToSeq(N)
  <2>1. s1 \in Seq(LinkComponents) /\ ToSet(s1) = ToSet(a) \cup R
    BY <1>5, <1>7, ElementsOfConcat
  <2>2. s2 \in Seq(LinkComponents) /\ ToSet(s2) = ToSet(s1) \cup ToSet(b)
    <3> HIDE DEF s1
    <3> QED
      BY <2>1, <1>5, ElementsOfConcat
  <2>3. s3 \in Seq(LinkComponents) /\ ToSet(s3) = ToSet(s2) \cup ToSet(c)
    <3> HIDE DEF s2
    <3> QED
      BY <2>2, <1>5, ElementsOfConcat
  <2>4. s4 \in Seq(LinkComponents) /\ ToSet(s4) = ToSet(s3) \cup N
    <3> HIDE DEF s3
    <3> QED
      BY <2>3, <1>7, ElementsOfConcat
  <2>5. Components(w) = s4
    BY <1>8
  <2> HIDE DEF s1, s2, s3, s4
  <2> QED
    BY <2>1, <2>2, <2>3, <2>4, <2>5
<1> QED
  BY <1>2, <1>6, <1>9, <1>3, <1>4 DEF R, N, ComponentSet, LinkComponents

-----------------------------------------------------------------------------
(* The edge link. *)

EdgeChecks == {"core", "components", "node", "cells", "ready"}

(* What a handler has in hand at each place: a link that it has started    *)
(* has the settings it wanted, and on the way every component of these is  *)
(* launched or still to be.                                                *)
InPhase ==
  /\ todo \in Seq(LinkComponents)
  /\ command \in {"start", "validate"} => want # NoLink
  /\ at \in {"compare", "prepare", "launch", "checks"} \cup EdgeChecks =>
       command \in {"start", "validate"}
  /\ at \in EdgeChecks => started
  /\ started => /\ at \in EdgeChecks \cup {"checks", "reported"}
                /\ link = want /\ want # NoLink /\ launched = ComponentSet(want)
  /\ ~started => fresh = {} /\ own = {}
  /\ launched # {} => at = "launch" \/ started
  /\ at = "launch" => launched \cup ToSet(todo) = ComponentSet(want)

(* What it has launched is there, with what it was told.                   *)
AsTold == \A k \in launched : k \in DOMAIN container /\ container[k].told = Config(want, k)

(* A node of the link that the core has seen since the start was heard     *)
(* from a container of this start, and the checks that have passed have    *)
(* seen theirs.                                                            *)
Heard ==
  started =>
    /\ fresh \cap NodesOf(want.cells) \subseteq own
    /\ ok /\ at \in {"cells", "ready", "checks", "reported"} => GatewayNode \in fresh
    /\ ok /\ at \in {"ready", "checks", "reported"} => ComputeNodes(want.cells) \subseteq fresh

(* A link that was found running has the components that were asked for.   *)
FoundRunning ==
  ~started /\ at \in {"checks", "reported"} /\ command \in {"start", "validate"} =>
    ComponentSet(want) \subseteq DOMAIN container

EdgeInv == EdgeLinkTypeOK /\ InPhase /\ AsTold /\ Heard /\ FoundRunning

LEMMA ResolvedSettings ==
  ASSUME NEW g \in Sources, Supported(g.count, g.cells), Complete(g)
  PROVE  Resolve(g) \in LinkSettings
<1>1. /\ g.kube \in Clusters /\ g.bundle \in Bundles /\ g.cells \in Cells
      /\ g.manual \in [core : Core \cup {NoLink}, tunnel : Tunnel \cup {NoLink}]
  BY DEF Sources
<1>2. /\ g.kube.core \in Core \cup {NoLink} /\ g.kube.tunnel \in Tunnel \cup {NoLink}
      /\ g.kube.endpoints \subseteq Tunnel
      /\ g.bundle.core \in Core \cup {NoLink} /\ g.bundle.tunnel \in Tunnel \cup {NoLink}
      /\ g.manual.core \in Core \cup {NoLink} /\ g.manual.tunnel \in Tunnel \cup {NoLink}
  BY <1>1, EdgeLinkAssumption
<1>3. First(g.manual.core, g.bundle.core, g.kube.core) \in Core
  BY <1>2 DEF Complete, First
<1>4. {First(g.manual.tunnel, g.bundle.tunnel, g.kube.tunnel)} \ {NoLink} \subseteq Tunnel
  BY <1>2 DEF First
<1> QED
  BY <1>1, <1>2, <1>3, <1>4 DEF Resolve, LinkSettings

LEMMA SameComponents ==
  ASSUME NEW v \in LinkSettings, NEW w \in LinkSettings, SameLink(v, w)
  PROVE  ComponentSet(v) = ComponentSet(w)
BY DEF SameLink, ComponentSet

LEMMA RunningLink ==
  ASSUME NEW w \in LinkSettings, Running(w)
  PROVE  ComponentSet(w) \subseteq DOMAIN container
BY LinkComponentsOf DEF Running

LEMMA ConfigOf ==
  ASSUME NEW w \in LinkSettings, NEW k \in ComponentSet(w)
  PROVE  Config(w, k) \in LinkConfigs
<1> USE DEF Config, LinkConfigs, LinkSettings, ComponentSet
<1>1. CASE k = <<"nats">>
  BY <1>1 DEF NatsConfig
<1>2. CASE k = <<"gateway">>
  BY <1>2 DEF GatewayConfig
<1>3. CASE k \in {"rathole"} \X w.tunnels
  BY <1>3 DEF RatholeConfig
<1>4. CASE k \in {"node"} \X NodesOf(w.cells)
  BY <1>4, NodesAreSome DEF NodeConfig
<1> QED
  BY <1>1, <1>2, <1>3, <1>4

LEMMA NoElements == ToSet(<<>>) = {}
BY DEF ToSet

LEMMA EdgeInitInv == EdgeLinkInit => EdgeInv
<1> SUFFICES ASSUME EdgeLinkInit PROVE EdgeInv
  OBVIOUS
<1>1. DOMAIN container = {} /\ ToSet(todo) = {} /\ todo \in Seq(LinkComponents)
  BY NoElements DEF EdgeLinkInit
<1>2. exits \in 0 .. MaxExits
  BY EdgeLinkAssumption DEF EdgeLinkInit
<1>3. EdgeLinkTypeOK
  BY <1>1, <1>2 DEF EdgeLinkInit, EdgeLinkTypeOK
<1> QED
  BY <1>1, <1>3 DEF EdgeLinkInit, EdgeInv, InPhase, AsTold, Heard, FoundRunning, EdgeChecks

(* A handler that leaves, whatever it leaves behind.                       *)
LEMMA LeavingInv ==
  ASSUME EdgeInv, EdgeLeaves, UNCHANGED <<link, nodes, exits>>,
         DOMAIN container' \subseteq LinkComponents,
         \A k \in DOMAIN container' : container'[k] \in [told : LinkConfigs, up : BOOLEAN]
  PROVE  EdgeInv'
<1>1. EdgeLinkTypeOK'
  BY NoElements DEF EdgeInv, EdgeLinkTypeOK, EdgeLeaves
<1> QED
  BY <1>1 DEF EdgeInv, InPhase, AsTold, Heard, FoundRunning, EdgeLeaves, EdgeChecks

LEMMA EdgeStepInv == EdgeInv /\ [EdgeLinkNext]_edgeVars => EdgeInv'
<1> SUFFICES ASSUME EdgeInv, [EdgeLinkNext]_edgeVars PROVE EdgeInv'
  OBVIOUS
<1> USE DEF EdgeInv, EdgeLinkTypeOK, InPhase, AsTold, Heard, FoundRunning, EdgeChecks, outside, seen,
        progress, Step
<1>1. ASSUME NEW c \in {"start", "validate"}, Asked(c) PROVE EdgeInv'
  <2>1. PICK g \in Sources : Supported(g.count, g.cells) /\ Complete(g) /\ want' = Resolve(g)
    BY <1>1 DEF Asked
  <2>2. want' \in LinkSettings /\ want' # NoLink
    BY <2>1, ResolvedSettings, SettingsAreALink
  <2> QED
    BY <1>1, <2>2 DEF Asked
<1>2. CASE EdgeStop
  BY <1>2 DEF EdgeStop
<1>3. CASE Compare
  <2>1. want \in LinkSettings
    BY <1>3 DEF Compare
  <2>2. CASE link # NoLink /\ SameLink(link, want) /\ Running(link)
    <3>1. ComponentSet(want) \subseteq DOMAIN container
      BY <2>1, <2>2, SameComponents, RunningLink
    <3> QED
      BY <1>3, <2>2, <3>1 DEF Compare
  <2>3. CASE ~(link # NoLink /\ SameLink(link, want) /\ Running(link))
    BY <1>3, <2>3 DEF Compare
  <2> QED
    BY <2>2, <2>3
<1>4. CASE BeginStop
  <2>1. Components(link) \in Seq(LinkComponents)
    <3>1. CASE link = NoLink
      BY <3>1 DEF Components
    <3>2. CASE link # NoLink
      BY <3>2, LinkComponentsOf
    <3> QED
      BY <3>1, <3>2
  <2>2. todo' \in Seq(LinkComponents) /\ ToSet(todo') \subseteq LinkComponents
    BY <1>4, <2>1, ElementsOfReverse DEF BeginStop, ToSet
  <2> QED
    BY <1>4, <2>2 DEF BeginStop
<1>5. CASE RemoveComponent
  <2>1. todo' \in Seq(LinkComponents) /\ ToSet(todo') \subseteq LinkComponents
    BY <1>5, ElementsOfTail DEF RemoveComponent
  <2>2. /\ DOMAIN container' \subseteq LinkComponents
        /\ \A k \in DOMAIN container' : container'[k] \in [told : LinkConfigs, up : BOOLEAN]
    BY <1>5 DEF RemoveComponent
  <2> QED
    BY <1>5, <2>1, <2>2 DEF RemoveComponent
<1>6. CASE ForgetLink
  BY <1>6 DEF ForgetLink
<1>7. CASE Prepare
  <2>1. CASE Step("launch") /\ todo' = Components(want)
             /\ UNCHANGED <<want, launched, started, ok, seen, link, outside>> /\ at = "prepare"
    <3>1. want \in LinkSettings
      BY <2>1
    <3>2. /\ todo' \in Seq(LinkComponents) /\ ToSet(todo') = ComponentSet(want)
          /\ ToSet(todo') \subseteq LinkComponents
      BY <2>1, <3>1, LinkComponentsOf
    <3> QED
      BY <2>1, <3>2
  <2>2. CASE EdgeLeaves /\ UNCHANGED <<link, outside>>
    BY <2>2, LeavingInv
  <2> QED
    BY <1>7, <2>1, <2>2 DEF Prepare
<1>8. CASE LaunchComponent
  <2> DEFINE k == Head(todo)
  <2>1. at = "launch" /\ todo # <<>> /\ UNCHANGED <<link, nodes, exits>>
    BY <1>8 DEF LaunchComponent
  <2>2. /\ k \in LinkComponents /\ k \in ComponentSet(want) /\ want \in LinkSettings
        /\ Tail(todo) \in Seq(LinkComponents) /\ ToSet(todo) = {k} \cup ToSet(Tail(todo))
    BY <2>1, ElementsOfTail
  <2>3. Config(want, k) \in LinkConfigs
    BY <2>2, ConfigOf
  <2> HIDE DEF k
  <2>4. CASE /\ container' = [i \in DOMAIN container \cup {k} |->
                              IF i = k THEN [told |-> Config(want, k), up |-> TRUE] ELSE container[i]]
             /\ todo' = Tail(todo) /\ launched' = launched \cup {k}
             /\ Step("launch") /\ UNCHANGED <<want, started, ok, seen>>
    <3>1. /\ DOMAIN container' \subseteq LinkComponents
          /\ \A i \in DOMAIN container' : container'[i] \in [told : LinkConfigs, up : BOOLEAN]
      BY <2>2, <2>3, <2>4
    <3>2. launched' \cup ToSet(todo') = ComponentSet(want) /\ ToSet(todo') \subseteq LinkComponents
      BY <2>1, <2>2, <2>4
    <3>3. AsTold'
      BY <2>1, <2>4
    <3> QED
      BY <2>1, <2>2, <2>4, <3>1, <3>2, <3>3
  <2>5. CASE /\ EdgeLeaves
             /\ \/ container' = [i \in DOMAIN container \ {k} |-> container[i]]
                \/ UNCHANGED container
    <3>1. /\ DOMAIN container' \subseteq LinkComponents
          /\ \A i \in DOMAIN container' : container'[i] \in [told : LinkConfigs, up : BOOLEAN]
      BY <2>5
    <3> QED
      BY <2>1, <2>5, <3>1, LeavingInv
  <2> QED
    BY <1>8, <2>4, <2>5 DEF LaunchComponent, k
<1>9. CASE RecordLink
  <2>1. ToSet(todo) = {}
    BY <1>9 DEF RecordLink, ToSet
  <2>2. want \in LinkSettings
    BY <1>9 DEF RecordLink
  <2> QED
    BY <1>9, <2>1, <2>2 DEF RecordLink
<1>10. CASE AwaitCore
  BY <1>10 DEF AwaitCore, Passes
<1>11. CASE CheckComponents
  BY <1>11 DEF CheckComponents, Passes
<1>12. CASE AwaitNode
  BY <1>12 DEF AwaitNode, Passes, Seen
<1>13. CASE AwaitCells
  BY <1>13 DEF AwaitCells, Passes, Seen
<1>14. CASE Started
  BY <1>14 DEF Started
<1>15. CASE ValidateLink
  BY <1>15 DEF ValidateLink, Passes
<1>16. CASE EdgeReported \/ HandlerDies
  BY <1>16, LeavingInv DEF EdgeReported, HandlerDies
<1>17. CASE NodeReports
  <2>1. PICK k \in DOMAIN container :
          /\ k[1] = "node" /\ container[k].up
          /\ LET c == container[k].told.core IN
             /\ nodes' = [nodes EXCEPT ![c] = @ \cup {k[2]}]
             /\ fresh' = IF started /\ link.core = c THEN fresh \cup {k[2]} ELSE fresh
             /\ own' = IF started /\ k \in launched THEN own \cup {k[2]} ELSE own
    BY <1>17 DEF NodeReports
  <2>2. k = <<"node", k[2]>> /\ k[2] \in LinkNodes
    BY <2>1 DEF LinkComponents
  <2>3. UNCHANGED <<link, container, exits, at, command, progress, ok>>
    BY <1>17 DEF NodeReports, handler
  <2>4. EdgeLinkTypeOK'
    BY <2>1, <2>2, <2>3
  <2>5. Heard'
    <3>1. started /\ k[2] \in NodesOf(want.cells) => k \in launched
      BY <2>2 DEF ComponentSet
    <3> QED
      BY <2>1, <2>3, <3>1
  <2> QED
    BY <2>1, <2>3, <2>4, <2>5
<1>18. CASE ComponentExits
  <2>1. PICK k \in DOMAIN container : container' = [container EXCEPT ![k].up = FALSE]
    BY <1>18 DEF ComponentExits
  <2>2. /\ DOMAIN container' = DOMAIN container
        /\ \A i \in DOMAIN container : /\ container'[i] \in [told : LinkConfigs, up : BOOLEAN]
                                       /\ container'[i].told = container[i].told
    BY <2>1
  <2>3. exits' \in 0 .. MaxExits
    <3>1. MaxExits \in Nat
      BY EdgeLinkAssumption
    <3> QED
      BY <1>18, <3>1 DEF ComponentExits
  <2> QED
    BY <1>18, <2>2, <2>3 DEF ComponentExits, handler
<1>19. CASE ComponentRestarts
  <2>1. PICK k \in DOMAIN container : container' = [container EXCEPT ![k].up = TRUE]
    BY <1>19 DEF ComponentRestarts
  <2>2. /\ DOMAIN container' = DOMAIN container
        /\ \A i \in DOMAIN container : /\ container'[i] \in [told : LinkConfigs, up : BOOLEAN]
                                       /\ container'[i].told = container[i].told
    BY <2>1
  <2> QED
    BY <1>19, <2>2 DEF ComponentRestarts, handler
<1>20. CASE UNCHANGED edgeVars
  BY <1>20 DEF edgeVars
<1> HIDE DEF EdgeInv
<1> QED
  BY <1>1, <1>2, <1>3, <1>4, <1>5, <1>6, <1>7, <1>8, <1>9, <1>10, <1>11, <1>12, <1>13, <1>14, <1>15,
     <1>16, <1>17, <1>18, <1>19, <1>20
  DEF EdgeLinkNext, EdgeStart, EdgeValidate

LEMMA EdgeInvariant == EdgeLinkSpec => []EdgeInv
BY EdgeInitInv, EdgeStepInv, PTL DEF EdgeLinkSpec

(* Type correctness of the link, its containers and the core's records     *)
(* (edge_link.py).                                                         *)
THEOREM EdgeTypeCorrect == EdgeLinkSpec => []EdgeLinkTypeOK
<1>1. EdgeInv => EdgeLinkTypeOK
  BY DEF EdgeInv
<1> QED
  BY <1>1, EdgeInvariant, PTL

(* For any number of cores, tunnels, cells and nodes: a start or a         *)
(* validation that reports success has the containers that were asked for, *)
(* and one that has started them has heard from each of their nodes since, *)
(* from the containers it has started (start, _wait_ready,                 *)
(* edge_link.py).                                                          *)
THEOREM TheLinkIsHeard == EdgeLinkSpec => []LinkIsHeard
<1>1. EdgeInv => LinkIsHeard
  <2> SUFFICES ASSUME EdgeInv, at = "reported", command \in {"start", "validate"}, ok
               PROVE  /\ \A k \in ToSet(Components(want)) :
                           k \in DOMAIN container /\ (started => container[k].told = Config(want, k))
                      /\ started => {GatewayNode} \cup ComputeNodes(want.cells) \subseteq own
    BY DEF LinkIsHeard
  <2> USE DEF EdgeInv, EdgeLinkTypeOK, InPhase, AsTold, Heard, FoundRunning
  <2>1. want \in LinkSettings /\ want.cells \in Cells \cup {0}
    BY DEF LinkSettings
  <2>2. ToSet(Components(want)) = ComponentSet(want)
    BY <2>1, LinkComponentsOf
  <2>3. GatewayNode \in NodesOf(want.cells) /\ ComputeNodes(want.cells) \subseteq NodesOf(want.cells)
    BY <2>1, NodesAreSome
  <2> QED
    BY <2>2, <2>3
<1> QED
  BY <1>1, EdgeInvariant, PTL
=============================================================================
