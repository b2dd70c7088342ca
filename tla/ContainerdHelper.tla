-------------------------- MODULE ContainerdHelper --------------------------
(***************************************************************************)
(* The privileged helper of the containerd runtime (containerd_helper.py): *)
(* commands make sure that one runs or stop it, helpers serve on a socket  *)
(* in the state root and remove it when they end.  A helper is found       *)
(* through the socket's path, and waited for through the process id in its *)
(* metadata; both files are overwritten by whoever starts later.           *)
(***************************************************************************)
EXTENDS Naturals, FiniteSets

CONSTANTS
  Caller,   \* commands, or threads of the daemon, that ensure or stop it
  Client,   \* nerdctl wrappers, and handlers that have a tree removed
  Helper,   \* helper processes
  NoHelper  \* no socket, no metadata

ASSUME HelperAssumption == NoHelper \notin Helper

VARIABLES
  socket,   \* whose socket has the path, perhaps a dead helper's
  metadata, \* the helper the metadata names
  phase,    \* of each helper
  doing,    \* where each caller is
  then,     \* what a caller goes on with when stop_containerd_helper is over
  pid,      \* the helper it waits for
  overlap,  \* history: two calls at once, or a helper nobody waits for
  request,  \* how far each client's request has come
  server    \* the helper that has its connection

calls == <<doing, then, pid, overlap>>
requests == <<request, server>>
helperVars == <<socket, metadata, phase, calls, requests>>

\* "launched" behind sudo, "clear" once it has removed the old path.
Phase == {"none", "launched", "clear", "bound", "serving", "stopping", "closed", "unlinked"}
Outcome == {"ready", "failed", "stopped", "not_stopped"}
Place == Outcome \cup {"idle", "auto", "access", "status", "launch", "wait", "probe", "probe_started",
                       "stop", "shutdown", "await", "drop_metadata", "drop_socket"}

HelperInit ==
  /\ socket = NoHelper /\ metadata = NoHelper
  /\ phase = [h \in Helper |-> "none"]
  /\ doing = [a \in Caller |-> "idle"] /\ then = [a \in Caller |-> "stopped"]
  /\ pid = [a \in Caller |-> NoHelper]
  /\ overlap = FALSE
  /\ request = [w \in Client |-> "none"] /\ server = [w \in Client |-> NoHelper]

HelperTypeOK ==
  /\ socket \in Helper \cup {NoHelper} /\ metadata \in Helper \cup {NoHelper}
  /\ phase \in [Helper -> Phase] /\ doing \in [Caller -> Place]
  /\ then \in [Caller -> Outcome] /\ pid \in [Caller -> Helper \cup {NoHelper}]
  /\ overlap \in BOOLEAN
  /\ request \in [Client -> {"none", "sent", "run", "stream", "refused", "done", "dropped"}]
  /\ server \in [Client -> Helper \cup {NoHelper}]

HelperAlive(h) == h # NoHelper /\ phase[h] # "none"

\* It has a socket of its own to take connections from.
Listens(h) == phase[h] \in {"bound", "serving"}

\* A ping at the path is answered; one that stops may still take the connection.
Answers == socket # NoHelper /\ phase[socket] = "serving"
MayAnswer == Answers \/ (socket # NoHelper /\ phase[socket] = "stopping")

\* A client waits for a helper.
Unanswered(w) == request[w] \in {"sent", "run", "stream"}

At(a, l) == doing' = [doing EXCEPT ![a] = l]

-----------------------------------------------------------------------------
(* The helper: serve_helper. *)

Become(h, p) == phase' = [phase EXCEPT ![h] = p]

\* The path of the last one goes first.
ClearPath(h) ==
  /\ phase[h] = "launched"
  /\ Become(h, "clear")
  /\ socket' = NoHelper
  /\ UNCHANGED <<metadata, calls, requests>>

\* bind fails when another has bound the path meanwhile.
BindSocket(h) ==
  /\ phase[h] = "clear"
  /\ IF socket = NoHelper
       THEN Become(h, "bound") /\ socket' = h
       ELSE Become(h, "none") /\ UNCHANGED socket
  /\ UNCHANGED <<metadata, calls, requests>>

WriteHelperMetadata(h) ==
  /\ phase[h] = "bound"
  /\ Become(h, "serving")
  /\ metadata' = h
  /\ UNCHANGED <<socket, calls, requests>>

\* SIGTERM sets the stop event, as a shutdown request does; an earlier one is
\* noticed when the accept loop begins.
Signalled(h) ==
  /\ phase[h] = "serving"
  /\ Become(h, "stopping")
  /\ overlap' = TRUE
  /\ UNCHANGED <<socket, metadata, doing, then, pid, requests>>

\* Mutant of CloseServer: accept has no timeout, so only a connection ends the loop.
CloseOnConnection(h) ==
  /\ phase[h] = "stopping" /\ socket = h
  /\ \E a \in Caller : doing[a] \in {"status", "probe", "shutdown"}
  /\ Become(h, "closed")
  /\ UNCHANGED <<socket, metadata, calls, requests>>

\* The accept loop ends, and the finally clause runs.
CloseServer(h) ==
  /\ phase[h] = "stopping"
  /\ Become(h, "closed")
  /\ UNCHANGED <<socket, metadata, calls, requests>>

\* The path is removed, whoever has bound it by now.
UnlinkSocket(h) ==
  /\ phase[h] = "closed"
  /\ Become(h, "unlinked")
  /\ socket' = NoHelper
  /\ UNCHANGED <<metadata, calls, requests>>

\* The threads of its connections end with the process: a client that waits for an answer
\* reads the end of the stream, and takes it for a return code of 0.
HangUp(h) ==
  /\ request' = [w \in Client |-> IF server[w] = h /\ Unanswered(w) THEN "dropped" ELSE request[w]]
  /\ UNCHANGED server

UnlinkMetadata(h) ==
  /\ phase[h] = "unlinked"
  /\ Become(h, "none")
  /\ metadata' = NoHelper
  /\ HangUp(h)
  /\ UNCHANGED <<socket, calls>>

\* Killed, or its set-up fails: both files stay.
HelperDies(h) ==
  /\ HelperAlive(h)
  /\ Become(h, "none")
  /\ HangUp(h)
  /\ UNCHANGED <<socket, metadata, calls>>

-----------------------------------------------------------------------------
(* The callers: ensure_containerd_helper and stop_containerd_helper. *)

Ask(a, what) ==
  /\ doing[a] = "idle"
  /\ At(a, what)
  /\ then' = [then EXCEPT ![a] = IF what = "stop" THEN "stopped" ELSE "failed"]
  /\ overlap' = (overlap \/ \E b \in Caller : doing[b] # "idle")
  /\ UNCHANGED <<socket, metadata, phase, pid, requests>>

\* What a caller finds: MicroK8s' containerd behind the address, and whether it may be
\* shared; the socket; nerdctl, which is the wrapper once a helper's environment is set.
Surroundings ==
  [microk8s : BOOLEAN, shared : BOOLEAN, socket : {"missing", "denied", "open"},
   nerdctl : {"missing", "fails", "works"}, wrapped : BOOLEAN]

Conflict(e) == e.microk8s /\ ~e.shared

SocketAccessible(e) == e.socket = "open"

\* containerd_nerdctl_probe: the wrapper gets through when the helper answers.
NerdctlWorks(e, answered) ==
  /\ ~Conflict(e) /\ e.nerdctl # "missing"
  /\ IF e.wrapped THEN answered ELSE SocketAccessible(e) /\ e.nerdctl = "works"

\* ensure_containerd_privilege: no helper is needed, or none is allowed, or it is looked for.
Privilege(e, mode, answered) ==
  CASE mode = "off" -> "ready"
    [] mode # "off" /\ Conflict(e) -> "failed"
    [] mode # "off" /\ NerdctlWorks(e, answered) -> "ready"
    [] OTHER -> IF mode = "unprivileged" THEN "failed" ELSE "status"

\* containerd_available_for_auto: without a helper, or through one that runs, whose own
\* nerdctl works; it starts none.
AvailableForAuto(e, mode, answered, helped) ==
  /\ ~Conflict(e)
  /\ NerdctlWorks(e, answered) \/ (mode # "unprivileged" /\ answered /\ helped)

Modes == {"auto", "unprivileged", "sudo-helper"}

\* What a caller may be led to, by whether the helper answers it.
PrivilegeOutcomes ==
  [answered \in BOOLEAN |->
     {Privilege(e, mode, answered) : e \in Surroundings, mode \in Modes \cup {"off"}}]

AutoOutcomes ==
  [answered \in BOOLEAN |->
     {IF AvailableForAuto(e, mode, answered, helped) THEN "access" ELSE "ready" :
        e \in Surroundings, mode \in Modes, helped \in BOOLEAN}]

\* The runtime is `auto`: containerd when it is available, and otherwise another one, which
\* needs no helper (_preferred_start_config).
Prefer(a) ==
  /\ doing[a] = "auto"
  /\ \E answered \in {Answers, MayAnswer} : \E l \in AutoOutcomes[answered] : At(a, l)
  /\ UNCHANGED <<socket, metadata, phase, then, pid, overlap, requests>>

Access(a) ==
  /\ doing[a] = "access"
  /\ \E answered \in {Answers, MayAnswer} : \E l \in PrivilegeOutcomes[answered] : At(a, l)
  /\ UNCHANGED <<socket, metadata, phase, then, pid, overlap, requests>>

CheckStatus(a) ==
  /\ doing[a] = "status"
  /\ \/ MayAnswer /\ At(a, "probe")
     \/ ~Answers /\ At(a, "launch")
  /\ UNCHANGED <<socket, metadata, phase, then, pid, overlap, requests>>

\* Mutant of Launch: the caller goes on without waiting for the helper.
LaunchOnly(a) ==
  /\ doing[a] = "launch"
  /\ \E h \in Helper : phase[h] = "none" /\ Become(h, "launched")
  /\ At(a, "ready")
  /\ UNCHANGED <<socket, metadata, then, pid, overlap, requests>>

\* `sudo -b`: there is no sudo, or a helper is on its way.
Launch(a) ==
  /\ doing[a] = "launch"
  /\ \/ At(a, "failed") /\ UNCHANGED phase
     \/ \E h \in Helper : phase[h] = "none" /\ Become(h, "launched") /\ At(a, "wait")
  /\ UNCHANGED <<socket, metadata, then, pid, overlap, requests>>

\* _wait_for_helper: an answer; or sudo has failed; or the deadline, with the
\* helper perhaps still to come (sudo may ask for a password).
WaitForHelper(a) ==
  /\ doing[a] = "wait"
  /\ \/ MayAnswer /\ At(a, "probe_started")
        /\ UNCHANGED overlap
     \/ At(a, "failed")
        /\ overlap' = (overlap \/ \E h \in Helper : phase[h] \notin {"none", "serving"})
  /\ UNCHANGED <<socket, metadata, phase, then, pid, requests>>

\* A nerdctl command through the helper.  One that was started and does not get
\* through is stopped again.
Probe(a) ==
  /\ doing[a] \in {"probe", "probe_started"}
  /\ \/ MayAnswer /\ At(a, "ready")
     \/ doing[a] = "probe" /\ At(a, "failed")
     \/ doing[a] = "probe_started" /\ At(a, "stop")
  /\ UNCHANGED <<socket, metadata, phase, then, pid, overlap, requests>>

\* containerd_helper_status reads the metadata and pings the path.
StopStatus(a) ==
  /\ doing[a] = "stop"
  /\ pid' = [pid EXCEPT ![a] = metadata]
  /\ \/ MayAnswer /\ At(a, "shutdown")
     \/ ~Answers /\ At(a, IF then[a] = "stopped" THEN "not_stopped" ELSE then[a])
  /\ UNCHANGED <<socket, metadata, phase, then, overlap, requests>>

RequestShutdown(a) ==
  /\ doing[a] = "shutdown"
  /\ \/ MayAnswer /\ Become(socket, "stopping") /\ At(a, "await")
     \/ ~Answers /\ At(a, IF then[a] = "stopped" THEN "not_stopped" ELSE then[a])
        /\ UNCHANGED phase
  /\ UNCHANGED <<socket, metadata, then, pid, overlap, requests>>

\* Until the process is gone, or the deadline.
AwaitExit(a) ==
  /\ doing[a] = "await"
  /\ IF HelperAlive(pid[a])
       THEN At(a, IF then[a] = "stopped" THEN "not_stopped" ELSE then[a])
       ELSE At(a, "drop_metadata")
  /\ overlap' = (overlap \/ HelperAlive(pid[a]))
  /\ UNCHANGED <<socket, metadata, phase, then, pid, requests>>

DropMetadata(a) ==
  /\ doing[a] = "drop_metadata"
  /\ metadata' = NoHelper
  /\ At(a, "drop_socket")
  /\ UNCHANGED <<socket, phase, then, pid, overlap, requests>>

DropSocket(a) ==
  /\ doing[a] = "drop_socket"
  /\ socket' = NoHelper
  /\ At(a, then[a])
  /\ UNCHANGED <<metadata, phase, then, pid, overlap, requests>>

ReportOutcome(a) ==
  /\ doing[a] \in Outcome
  /\ At(a, "idle")
  /\ pid' = [pid EXCEPT ![a] = NoHelper]
  /\ UNCHANGED <<socket, metadata, phase, then, overlap, requests>>

-----------------------------------------------------------------------------
(* The clients: client_main, helper_stream_request, remove_containerd_helper_tree. *)

\* The arguments of nerdctl as the helper parses them: whether the address, the namespace
\* and the directories are those of its state root, and the command.
Arguments ==
  [command : {"none", "version", "namespace ls", "system", "run"},
   address : BOOLEAN, namespace : BOOLEAN, directories : BOOLEAN]

\* validate_helper_argv.
Allowed(v, conflict) ==
  \/ v.command = "version"
  \/ /\ v.command # "none" /\ v.address /\ ~conflict
     /\ v.command = "namespace ls" \/ (v.command = "run" /\ v.namespace /\ v.directories)

Served(w, r) == request' = [request EXCEPT ![w] = r] /\ UNCHANGED <<socket, metadata, phase, calls>>

\* It connects, again and again until a deadline, and sends its request.
Connect(w) ==
  /\ request[w] = "none" /\ MayAnswer
  /\ Served(w, "sent") /\ server' = [server EXCEPT ![w] = socket]

\* The thread of the connection reads the request, and refuses it or starts nerdctl, on a
\* terminal for a client that is interactive.
HandleCommand(w) ==
  /\ request[w] = "sent"
  /\ \E v \in Arguments, conflict \in BOOLEAN :
       \/ Allowed(v, conflict) /\ \E r \in {"run", "stream"} : Served(w, r)
       \/ ~Allowed(v, conflict) /\ Served(w, "refused")
  /\ UNCHANGED server

\* A tree under the projects, or one of the runtime's under global, is removed at once.
RemoveTree(w) ==
  /\ request[w] = "sent"
  /\ \E r \in {"done", "refused"} : Served(w, r)
  /\ UNCHANGED server

\* nerdctl ends, or does not within the timeout of the request.
FinishRun(w) ==
  /\ request[w] = "run"
  /\ \E r \in {"done", "refused"} : Served(w, r)
  /\ UNCHANGED server

\* nerdctl ends, or fails on the way.
FinishStream(w) ==
  /\ request[w] = "stream"
  /\ \E r \in {"done", "refused"} : Served(w, r)
  /\ UNCHANGED server

\* With the answer's return code; or it is interrupted, or has waited for too long, and the
\* helper terminates a stream whose client has gone.
ClientExits(w) ==
  /\ request[w] # "none"
  /\ Served(w, "none") /\ server' = [server EXCEPT ![w] = NoHelper]

ClientStep(w) ==
  \/ Connect(w) \/ HandleCommand(w) \/ RemoveTree(w) \/ FinishRun(w) \/ FinishStream(w)
  \/ ClientExits(w)

Serve(h) ==
  \/ ClearPath(h) \/ BindSocket(h) \/ WriteHelperMetadata(h)
  \/ CloseServer(h) \/ UnlinkSocket(h) \/ UnlinkMetadata(h)

CallerStep(a) ==
  \/ Prefer(a) \/ Access(a) \/ CheckStatus(a) \/ Launch(a) \/ WaitForHelper(a) \/ Probe(a)
  \/ StopStatus(a) \/ RequestShutdown(a) \/ AwaitExit(a) \/ DropMetadata(a) \/ DropSocket(a)
  \/ ReportOutcome(a)

HelperNext ==
  \/ \E h \in Helper : Serve(h) \/ Signalled(h) \/ HelperDies(h)
  \/ \E a \in Caller : CallerStep(a) \/ \E what \in {"auto", "access", "stop"} : Ask(a, what)
  \/ \E w \in Client : ClientStep(w)

HelperFairness == \A h \in Helper : WF_helperVars(Serve(h))

HelperSpec == HelperInit /\ [][HelperNext]_helperVars /\ HelperFairness

-----------------------------------------------------------------------------
(* What it promises. *)

\* As long as calls come one after the other and none gives up on a helper that is
\* coming up or ending, no helper is ever out of reach: whatever was killed before,
\* one that runs has the path, and when a stop reports success none is left (serve_helper
\* removes the path at both ends of its life; the callers wait for the answer and for the
\* end of the process; stop_containerd_helper).
NoHelperOutOfReach ==
  ~overlap =>
    /\ \A h \in Helper : Listens(h) => socket = h
    /\ \A a \in Caller : doing[a] = "stopped" => \A h \in Helper : ~HelperAlive(h)

\* A helper that was asked to stop ends and lets go of its clients, whatever they run
\* there: a request that is being served does not hold it (serve_helper: the threads of the
\* connections are daemons, and accept has a timeout).
HelperEnds ==
  \A h \in Helper :
    /\ phase[h] = "stopping" ~> phase[h] = "none"
    /\ \A w \in Client : phase[h] = "stopping" /\ server[w] = h ~> ~(server[w] = h /\ Unanswered(w))
=============================================================================
