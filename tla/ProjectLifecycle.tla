--------------------------- MODULE ProjectLifecycle ---------------------------
(***************************************************************************)
(* The project handlers of WorkerBeeDaemon (daemon.py) and what they do to *)
(* a project: its mode in the registry, its k1s stack, its state           *)
(* directory.  Dashboard threads, MCP tool calls and CLI processes run     *)
(* them concurrently; most of them, and not all, hold the project's lock.  *)
(*                                                                         *)
(* A handler is a script of steps (Script) and each step is an action.     *)
(* The lock is that of module ProjectLock: an RLock per process, held by   *)
(* whoever has the lock file open, and a flock on the file's inode, which  *)
(* a purge unlinks under its holder.  A registration is one read and one   *)
(* rename of the registry, which may fail: module Registry opens up the    *)
(* write between them.  A call about several projects is modelled as one   *)
(* call each.  supervisor.stop kills and purges in one step (module        *)
(* StackProcesses has its parts).                                          *)
(***************************************************************************)
EXTENDS RegistryRecords, Naturals, Sequences

CONSTANTS
  Actor,    \* threads of the daemon and CLI processes
  Thread,   \* the actors that are threads of the daemon process
  Op,       \* the handlers that are called
  Crasher,  \* the actors whose process may die
  Inode,    \* inodes of lock files
  None      \* no snapshot, no file

Ops == {"operation", "active_only", "remote_deploy", "session_start", "mode_set",
        "start_projects", "stop_projects", "delete_projects", "project_stop",
        "project_purge", "profile_deploy", "profile_start", "mode_get"}

ASSUME LifecycleAssumption ==
  /\ Thread \subseteq Actor
  /\ Crasher \subseteq Actor
  /\ Op \subseteq Ops
  /\ NoMode \notin Mode
  /\ None \notin Records \cup Inode

VARIABLES
  registry,  \* registry.json: the mode of each registered project
  dir,       \* whether the project's state directory exists
  stack,     \* its k1s stack: down, launched and not healthy yet, or healthy
  lockFile,  \* the inode named .lock in the directory
  handle,    \* the inode each actor has open, under the RLock of its process
  inside,    \* the actors that hold the flock of the inode they have open
  call,      \* the call each actor works on
  todo,      \* the steps that are left of it
  snap,      \* the registry the actor has read and not written back yet
  \* What the properties remember:
  met,       \* the actors that have met another one inside the same project
  cut        \* the projects whose last switch-off ended before it stopped the stack

vars == <<registry, dir, stack, lockFile, handle, inside, call, todo, snap, met, cut>>

Steps == {"open", "lock", "unlock", "register", "sync", "set", "unregister", "known",
          "previous", "check", "active", "auto", "start", "ready", "stop", "purge", "run"}

TypeOK ==
  /\ registry \in Records
  /\ dir \in [Project -> BOOLEAN]
  /\ stack \in [Project -> {"down", "starting", "healthy"}]
  /\ lockFile \in [Project -> Inode \cup {None}]
  /\ handle \in [Actor -> Inode \cup {None}]
  /\ inside \in SUBSET Actor
  /\ call \in [Actor -> [op : Ops, project : Project, mode : Mode \cup {NoMode}]]
  /\ todo \in [Actor -> Seq(Steps)]
  /\ snap \in [Actor -> Records \cup {None}]
  /\ met \in SUBSET Actor
  /\ cut \in SUBSET Project

Init ==
  /\ registry = NoRecords
  /\ dir = [p \in Project |-> FALSE]
  /\ stack = [p \in Project |-> "down"]
  /\ lockFile = [p \in Project |-> None]
  /\ handle = [a \in Actor |-> None]
  /\ inside = {}
  /\ \E p \in Project, o \in Op :
       call = [a \in Actor |-> [op |-> o, project |-> p, mode |-> NoMode]]
  /\ todo = [a \in Actor |-> <<>>]
  /\ snap = [a \in Actor |-> None]
  /\ met = {}
  /\ cut = {}

-----------------------------------------------------------------------------
(* The handlers. *)

\* Mutant of SetScript: the new mode is only written.
SetScriptWrites(m) == <<"open", "lock", "set", "register", "sync", "set", "unlock">>

\* project_mode_set stops or starts the stack according to the new mode.
SetScript(m) ==
  CASE m = "stop" -> <<"open", "lock", "set", "register", "sync", "stop", "set", "unlock">>
    [] m = "start" -> <<"open", "lock", "set", "register", "sync", "start", "set", "unlock">>
    [] OTHER -> <<"open", "lock", "set", "register", "sync", "set", "unlock">>

\* "open" and "lock" enter `with FileLock`, "register" and "sync" are supervisor(name).
Script(o, m) ==
  CASE o = "operation" ->       \* project_start, manifest_deploy_local, workload_restart
         <<"open", "lock", "register", "sync", "check", "start", "start", "run", "register",
           "unlock">>
    [] o = "active_only" ->     \* project_reset, logs, exec
         <<"open", "lock", "register", "sync", "check", "active", "run", "register", "unlock">>
    [] o = "remote_deploy" ->   \* manifest_deploy_remote_k1s
         <<"open", "lock", "register", "sync", "check", "run", "register", "unlock">>
    [] o = "session_start" ->
         <<"open", "lock", "register", "register", "sync", "auto", "start", "register",
           "unlock">>
    [] o = "mode_set" -> SetScript(m)
    [] o = "start_projects" ->
         <<"known", "open", "lock", "previous", "register", "start", "set", "unlock">>
    [] o = "stop_projects" -> <<"known", "open", "lock", "stop", "unlock">>
    [] o = "delete_projects" -> <<"known", "open", "lock", "purge", "unlock", "unregister">>
    [] o = "project_stop" ->
         <<"open", "lock", "register", "sync", "stop", "register", "unlock">>
    [] o = "project_purge" ->
         <<"open", "lock", "register", "sync", "purge", "register", "unlock">>
    [] o = "profile_deploy" -> <<"check", "open", "lock", "register", "run", "unlock">>
    [] o = "profile_start" -> <<"open", "lock", "register", "run", "register", "unlock">>
    [] o = "mode_get" -> <<"register">>  \* also profile_status, project_runbook_status

-----------------------------------------------------------------------------
(* Steps. *)

Idle(a) == todo[a] = <<>>
At(a, s) == ~Idle(a) /\ Head(todo[a]) = s
On(a) == call[a].project

Go(a, steps) == todo' = [todo EXCEPT ![a] = steps]
Proceed(a) == Go(a, Tail(todo[a]))

\* An exception leaves the handler and its `with` blocks.
Raise(a) ==
  /\ Go(a, <<>>)
  /\ handle' = [handle EXCEPT ![a] = None]
  /\ inside' = inside \ {a}
  /\ snap' = [snap EXCEPT ![a] = None]

\* project_mode_set(stop) is inside and has not come to sup.stop yet.
SwitchingOff(a) == call[a].op = "mode_set" /\ call[a].mode = "stop"
HalfOff(a) ==
  a \in inside /\ SwitchingOff(a) /\ \E i \in 1..Len(todo[a]) : todo[a][i] = "stop"
CutOff(S) == cut \cup {On(a) : a \in {b \in S : HalfOff(b)}}

Call(a, o, p, m) ==
  /\ Idle(a)
  /\ o = "mode_set" <=> m # NoMode
  /\ call' = [call EXCEPT ![a] = [op |-> o, project |-> p, mode |-> m]]
  /\ Go(a, Script(o, m))
  /\ UNCHANGED <<registry, dir, stack, lockFile, handle, inside, snap, met, cut>>

\* Takes the RLock, for which the other threads of the process wait, and opens
\* the file of that name, creating it, and its directory, where there is none.
Open(a) ==
  /\ At(a, "open")
  /\ \A b \in Actor \ {a} :
       {a, b} \subseteq Thread /\ On(b) = On(a) => handle[b] = None
  /\ \/ lockFile[On(a)] # None /\ UNCHANGED lockFile
     \/ /\ lockFile[On(a)] = None
        /\ \E i \in Inode \ ({handle[b] : b \in Actor} \cup {lockFile[q] : q \in Project}) :
             lockFile' = [lockFile EXCEPT ![On(a)] = i]
  /\ handle' = [handle EXCEPT ![a] = lockFile'[On(a)]]
  /\ dir' = [dir EXCEPT ![On(a)] = TRUE]
  /\ Proceed(a)
  /\ UNCHANGED <<registry, stack, inside, call, snap, met, cut>>

\* A purge removes the directory between mkdir and open: FileNotFoundError.
OpenFails(a) ==
  /\ At(a, "open")
  /\ \E b \in Actor \ {a} : At(b, "purge") /\ On(b) = On(a)
  /\ Raise(a)
  /\ UNCHANGED <<registry, dir, stack, lockFile, call, met, cut>>

Others(a) == {b \in inside \ {a} : On(b) = On(a)}

\* Mutant of Lock: nobody is excluded.
LockShared(a) ==
  /\ At(a, "lock")
  /\ inside' = inside \cup {a}
  /\ met' = IF Others(a) = {} THEN met \ {a} ELSE met \cup {a} \cup Others(a)
  /\ Proceed(a)
  /\ UNCHANGED <<registry, dir, stack, lockFile, handle, call, snap, cut>>

\* flock: nobody has locked this inode, which may have lost its name by now.
Lock(a) ==
  /\ At(a, "lock")
  /\ \A b \in inside : handle[b] # handle[a]
  /\ inside' = inside \cup {a}
  /\ met' = IF Others(a) = {} THEN met \ {a} ELSE met \cup {a} \cup Others(a)
  /\ Proceed(a)
  /\ UNCHANGED <<registry, dir, stack, lockFile, handle, call, snap, cut>>

\* STATE_LOCKED.
Locked(a) ==
  /\ At(a, "lock")
  /\ \E b \in inside : handle[b] = handle[a]
  /\ Raise(a)
  /\ UNCHANGED <<registry, dir, stack, lockFile, call, met, cut>>

Unlock(a) ==
  /\ At(a, "unlock")
  /\ handle' = [handle EXCEPT ![a] = None]
  /\ inside' = inside \ {a}
  /\ Proceed(a)
  /\ UNCHANGED <<registry, dir, stack, lockFile, call, snap, met, cut>>

ReadRegistry(a) ==
  /\ At(a, "register") \/ At(a, "set") \/ At(a, "unregister")
  /\ snap[a] = None
  /\ snap' = [snap EXCEPT ![a] = registry]
  /\ UNCHANGED <<registry, dir, stack, lockFile, handle, inside, call, todo, met, cut>>

WriteRegistry(a) ==
  /\ snap[a] # None
  /\ \/ At(a, "register") /\ registry' = Registered(snap[a], On(a), NoMode)
     \/ At(a, "set") /\ registry' = Registered(snap[a], On(a), call[a].mode)
     \/ At(a, "unregister") /\ registry' = Unregistered(snap[a], {On(a)})
  /\ snap' = [snap EXCEPT ![a] = None]
  /\ Proceed(a)
  /\ UNCHANGED <<dir, stack, lockFile, handle, inside, call, met, cut>>

\* FileNotFoundError: another writer has renamed the shared registry.tmp.
WriteFails(a) ==
  /\ snap[a] # None
  /\ Raise(a)
  /\ cut' = CutOff({a})
  /\ UNCHANGED <<registry, dir, stack, lockFile, call, met>>

\* _sync_ingress_projects, which may raise (module IngressSites).
SyncIngress(a) ==
  /\ At(a, "sync")
  /\ \/ Proceed(a) /\ UNCHANGED <<handle, inside, snap, cut>>
     \/ Raise(a) /\ cut' = CutOff({a})
  /\ UNCHANGED <<registry, dir, stack, lockFile, call, met>>

\* `name not in known`: neither a record nor a state directory.
CheckKnown(a) ==
  /\ At(a, "known")
  /\ IF registry[On(a)] # "absent" \/ dir[On(a)]
     THEN Proceed(a) /\ UNCHANGED <<handle, inside, snap>>
     ELSE Raise(a)
  /\ UNCHANGED <<registry, dir, stack, lockFile, call, met, cut>>

\* start_projects re-enables a stopped project once its stack is up.
RememberMode(a) ==
  /\ At(a, "previous")
  /\ call' = [call EXCEPT ![a].mode =
                IF ModeIn(registry, On(a)) = "stop" THEN "start" ELSE NoMode]
  /\ Proceed(a)
  /\ UNCHANGED <<registry, dir, stack, lockFile, handle, inside, snap, met, cut>>

\* Mutant of CheckStopped: the check is left out.
CheckForgotten(a) ==
  /\ At(a, "check")
  /\ Proceed(a)
  /\ UNCHANGED <<registry, dir, stack, lockFile, handle, inside, call, snap, met, cut>>

\* _raise_if_project_stopped: PROJECT_STOPPED.
CheckStopped(a) ==
  /\ At(a, "check")
  /\ IF ModeIn(registry, On(a)) = "stop"
     THEN Raise(a)
     ELSE Proceed(a) /\ UNCHANGED <<handle, inside, snap>>
  /\ UNCHANGED <<registry, dir, stack, lockFile, call, met, cut>>

\* require_active without autostart: STACK_NOT_RUNNING.
CheckActive(a) ==
  /\ At(a, "active")
  /\ IF stack[On(a)] = "healthy"
     THEN Proceed(a) /\ UNCHANGED <<handle, inside, snap>>
     ELSE Raise(a)
  /\ UNCHANGED <<registry, dir, stack, lockFile, call, met, cut>>

\* Mutant of AutoStart: a lazy project is started as well.
AutoStartLazy(a) ==
  /\ At(a, "auto")
  /\ Go(a, IF ModeIn(registry, On(a)) # "stop"
           THEN Tail(todo[a]) ELSE Tail(Tail(todo[a])))
  /\ UNCHANGED <<registry, dir, stack, lockFile, handle, inside, call, snap, met, cut>>

\* session_start launches the stack only of a project in mode start.
AutoStart(a) ==
  /\ At(a, "auto")
  /\ Go(a, IF ModeIn(registry, On(a)) = "start"
           THEN Tail(todo[a]) ELSE Tail(Tail(todo[a])))
  /\ UNCHANGED <<registry, dir, stack, lockFile, handle, inside, call, snap, met, cut>>

\* supervisor.start finds a healthy stack.
AlreadyUp(a) ==
  /\ At(a, "start")
  /\ stack[On(a)] = "healthy"
  /\ Proceed(a)
  /\ UNCHANGED <<registry, dir, stack, lockFile, handle, inside, call, snap, met, cut>>

\* It stops what there is, an unhealthy stack or one of another runtime, and
\* launches the control plane.
Launch(a) ==
  /\ At(a, "start")
  /\ stack' = [stack EXCEPT ![On(a)] = "starting"]
  /\ dir' = [dir EXCEPT ![On(a)] = TRUE]
  /\ Go(a, <<"ready">> \o Tail(todo[a]))
  /\ UNCHANGED <<registry, lockFile, handle, inside, call, snap, met, cut>>

\* It fails before the control plane is launched (network, ports, images).
LaunchFails(a) ==
  /\ At(a, "start")
  /\ stack' = [stack EXCEPT ![On(a)] = "down"]
  /\ Raise(a)
  /\ UNCHANGED <<registry, dir, lockFile, call, met, cut>>

\* wait_for_http succeeds.
Ready(a) ==
  /\ At(a, "ready")
  /\ stack[On(a)] = "healthy"
  /\ Proceed(a)
  /\ UNCHANGED <<registry, dir, stack, lockFile, handle, inside, call, snap, met, cut>>

\* wait_for_http times out; what was launched keeps running.
ReadyTimesOut(a) ==
  /\ At(a, "ready")
  /\ stack[On(a)] # "healthy"
  /\ Raise(a)
  /\ UNCHANGED <<registry, dir, stack, lockFile, call, met, cut>>

\* supervisor.stop without purge: the processes are killed, then the runtime
\* is cleaned up, which may fail.
StopStack(a) ==
  /\ At(a, "stop")
  /\ stack' = [stack EXCEPT ![On(a)] = "down"]
  /\ cut' = cut \ {On(a)}
  /\ \/ Proceed(a) /\ UNCHANGED <<handle, inside, snap>>
     \/ Raise(a)
  /\ UNCHANGED <<registry, dir, lockFile, call, met>>

\* supervisor.stop(purge=True) removes the state directory and the lock file in
\* it.  When it cannot, or not all of it, it raises, or says so in a result
\* that keeps delete_projects from unregistering.
PurgeStack(a) ==
  /\ At(a, "purge")
  /\ stack' = [stack EXCEPT ![On(a)] = "down"]
  /\ cut' = cut \ {On(a)}
  /\ \/ /\ dir' = [dir EXCEPT ![On(a)] = FALSE]
        /\ lockFile' = [lockFile EXCEPT ![On(a)] = None]
        /\ Proceed(a)
        /\ UNCHANGED <<handle, inside, snap>>
     \/ /\ lockFile' \in {lockFile, [lockFile EXCEPT ![On(a)] = None]}
        /\ \/ Proceed(a) /\ call[a].op = "project_purge" /\ UNCHANGED <<handle, inside, snap>>
           \/ Raise(a)
        /\ UNCHANGED dir
  /\ UNCHANGED <<registry, call, met>>

\* The operation itself: a deployment, a restart, a profile's nodes, an exec.
Run(a) ==
  /\ At(a, "run")
  /\ \/ Proceed(a) /\ UNCHANGED <<handle, inside, snap>>
     \/ Raise(a)
  /\ UNCHANGED <<registry, dir, stack, lockFile, call, met, cut>>

\* The actor's process dies and with it every other thread of the process.
Crash(a) ==
  LET dead == IF a \in Thread THEN Thread ELSE {a} IN
  /\ ~Idle(a)
  /\ todo' = [b \in Actor |-> IF b \in dead THEN <<>> ELSE todo[b]]
  /\ handle' = [b \in Actor |-> IF b \in dead THEN None ELSE handle[b]]
  /\ inside' = inside \ dead
  /\ snap' = [b \in Actor |-> IF b \in dead THEN None ELSE snap[b]]
  /\ cut' = CutOff(dead)
  /\ UNCHANGED <<registry, dir, stack, lockFile, call, met>>

\* The launched control plane comes up, or the stack's processes die.
BecomeHealthy(p) ==
  /\ stack[p] = "starting"
  /\ stack' = [stack EXCEPT ![p] = "healthy"]
  /\ UNCHANGED <<registry, dir, lockFile, handle, inside, call, todo, snap, met, cut>>

StackDies(p) ==
  /\ stack[p] = "healthy"
  /\ stack' = [stack EXCEPT ![p] = "down"]
  /\ UNCHANGED <<registry, dir, lockFile, handle, inside, call, todo, snap, met, cut>>

Advance(a) ==
  \/ Open(a) \/ OpenFails(a) \/ Lock(a) \/ Locked(a) \/ Unlock(a)
  \/ ReadRegistry(a) \/ WriteRegistry(a) \/ WriteFails(a) \/ SyncIngress(a)
  \/ CheckKnown(a) \/ RememberMode(a) \/ CheckStopped(a) \/ CheckActive(a)
  \/ AutoStart(a) \/ AlreadyUp(a) \/ Launch(a) \/ LaunchFails(a) \/ Ready(a)
  \/ ReadyTimesOut(a) \/ StopStack(a) \/ PurgeStack(a) \/ Run(a)

Next ==
  \/ \E a \in Actor, o \in Op, p \in Project, m \in Mode \cup {NoMode} : Call(a, o, p, m)
  \/ \E a \in Actor : Advance(a)
  \/ \E a \in Crasher : Crash(a)
  \/ \E p \in Project : BecomeHealthy(p) \/ StackDies(p)

Spec == Init /\ [][Next]_vars

\* A handler that is running keeps running: every wait in it is bounded.  The
\* wait for an RLock is not, and nothing orders the waiters.
FairSpec == Spec /\ \A a \in Actor : WF_vars(Advance(a))

-----------------------------------------------------------------------------

\* Nothing is deployed, run or launched in a project that is switched off: the
\* mode seen by the check still holds when the operation acts (README.md:370).
\* start_projects is the call that switches a project on.
StoppedRefuses ==
  [][\A a \in Actor :
       Run(a) \/ (Launch(a) /\ call[a].op # "start_projects") =>
         ModeIn(registry, On(a)) # "stop"]_vars

\* A project that is switched off has no stack, once nobody is inside: its
\* processes neither survive the switch nor come up behind it (README.md:370).
\* A project_mode_set(stop) that an error or a crash ends between its record
\* and its stop leaves a stack up until the next stop.
StopIsOff ==
  \A p \in Project \ cut :
    ModeIn(registry, p) = "stop" /\ (\A a \in inside : On(a) # p) => stack[p] = "down"

\* When project_mode_set returns, the project is in the mode that was asked
\* for: the mode is persisted (docs/poc-scope.md:38).
ModeSetTakesEffect ==
  [][\A a \in Actor :
       Unlock(a) /\ call[a].op = "mode_set" =>
         ModeIn(registry, On(a)) = call[a].mode]_vars

\* When project_mode_set(stop) returns the stack is down, also after a crash
\* or a failed start left one behind (daemon.py:577-579), unless a purge has
\* let another handler into the project beside it.
StopSwitchesOff ==
  [][\A a \in Actor :
       Unlock(a) /\ SwitchingOff(a) /\ a \notin met => stack[On(a)] = "down"]_vars

\* A session launches a stack only where the registry says start at that
\* moment (daemon.py:337-339).
SessionRespectsMode ==
  [][\A a \in Actor :
       Launch(a) /\ call[a].op = "session_start" => registry[On(a)] = "start"]_vars

\* Whoever is inside a project leaves it: starts are bounded by a timeout and no
\* error path keeps the lock.
LockIsReleased ==
  \A a \in Actor : a \in inside ~> a \notin inside
=============================================================================
