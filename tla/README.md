# WorkerBee in TLA+

WorkerBee (`src/src/workerbee`) keeps local Kubernetes-like stacks ("k1s") for
coding projects. One daemon process serves MCP tools and a dashboard from many
threads; any number of CLI commands work on the same state root next to it; helpers,
controllers, containers and a shared Caddy live on when a handler dies. What is here
models the parts whose correctness depends on the order in which these actors act and
on what fails between their steps, checks them with TLC on small instances, and proves
with TLAPS, for every value of the constants, all that is not liveness.

Source paths below are relative to `src/src/workerbee` unless they begin with `src/`.

## The system

| Component | State | Operations | Modules |
|---|---|---|---|
| Project lock (`locks.py`, `daemon.py` `_project_lock`) | an RLock per project and process; an flock on `projects/<p>/.lock` | acquire, refuse with `STATE_LOCKED`, release; the purge that unlinks the file | `ProjectLock`, `ExclusiveSection` |
| Project registry (`daemon.py` `_register_project`, `_unregister_projects`) | `registry.json`, `registry.tmp` | read, change one record, write the temporary file, rename | `RegistryRecords`, `Registry`, `AtomicRegistry` |
| Project handlers (`daemon.py`) | the mode of a project, its stack, its directory | session start, mode set, start, stop and delete of projects, deployments, profiles | `ProjectLifecycle` |
| Stack processes (`supervisor.py`) | API shim and controller, their ports, `stack.json` | start, stop, retry | `StackProcesses` |
| Stack route and probes (`daemon.py`, `probe.py`) | the stack's site, what Caddy has loaded | start, stop, list of projects, `ingress_probe` and its recoveries | `StackRoute` |
| Dashboard jobs (`daemon.py:1894-1990`) | job table and its order | enqueue, run, report, prune | `DashboardJobs` |
| MCP daemon (`mcp_daemon.py`, `mcp_server.py`) | metadata file, processes, port, state-root lock, settings | start, stop, restart, reboot, shutdown, orphan search | `McpDaemon` |
| Containerd helper (`containerd_helper.py`) | privileged process, socket, metadata, requests | ensure, stop, serve, stream, choice of the runtime | `ContainerdHelper` |
| Global ingress (`ingress.py`) | site files, Caddyfile, certificate authority, exported bundle | synchronize, reconcile, reload, start, recover, regenerate, export, trust | `IngressSites`, `CaddyAuthority` |
| DNS service (`dns.py`) | none that queries share | decode a name, answer, ask resolvers | `DnsService`; settings in `McpDaemon` |
| Profiles (`profiles.py`) | containers of a namespace, record, site | start, stop, purge, status | `ProfileRuntime` |
| Edge link (`edge_link.py`) | containers, record, an external core | start, stop, validate | `EdgeLink`, `ProfileRuntime` |
| Staged manifests (`manifests.py`) | manifests and secrets of a stage | prepare, validate, deploy to four kinds of controller, export | `StagedManifests` |
| Deployments (`manifests.py`, `daemon.py`) | controller, `latest.json` | apply in order, wait, report orphans, prune, record | `Deployment` |
| Runtime clean-up (`runtime_support.py`, `supervisor.py`) | containers and networks of Docker and containerd | start, stop, purge, reset, `workerbee cleanup` | `RuntimeCleanup` |
| Image builds (`runtime_support.py`) | images by tag, saved files | build, save, load, remove | `ImageBuild` |
| Runbook (`runbooks.py`) | markdown file, metadata, snapshots, repository copy | update, import, export, status | `Runbook` |
| AI fabric laboratory (`src/scripts/dev/ai_fabric_lab.py`) | evidence of a run id, adapter, traces | validations, closeouts, import | `FabricValidation` |
| AI fabric advice (`src/examples/ai-fabric-lab`, `das-bridge` and `router`) | `facts.jsonl`, facts in memory, traces | import, query, decide, route a request | `AdvisoryFacts` |
| AI fabric index (`retrieval-indexer`) | Qdrant collection, chunks in memory | reindex, search | `RetrievalIndex` |
| Remote targets, security rules, CLI, MCP tool table, dashboard pages | single files, or none | requests, patterns, dispatch, rendering | mostly not: see the end |

How they interact. A handler takes the project's lock (RLock first, then flock),
registers the project (one cycle of the registry), looks at its mode, and then starts,
stops or uses the stack, a profile or a stage. The registry is one file for all
projects while the lock is per project; so are host ports, process ids, the global
Caddy, and Docker's store of containers and images. Stacks, profiles and deployed apps
write site files that one Caddyfile imports; every handler that changes them
synchronizes all projects. Dashboard jobs call the same handlers from threads of their
own. Some readers (`project_mode_get`, `profile_status`, `project_runbook_status`, the
list of projects) write without the lock. The containerd runtime reaches root through
the helper; the MCP daemon starts Caddy, the DNS service and the dashboard. The fabric
laboratory is a script next to it that drives its own services and asks k1s for traces.

What is hard: threads and processes exclude each other by different means; purges
remove the lock file they hold; the registry's cycle is not protected against other
projects; a mode is checked at one point and used at another; a start can fail or time
out after it has launched something; a handler can die between doing and recording;
recorded process ids, sites, facts and containers outlive what they describe; commands
of users do not exclude each other; files are read twice with people editing them in
between; evidence of one run may be taken for that of another. `PROJECT.json` lists
these hazards one by one with their lines.

## Modules

### The core

**`ProjectLock`** - `EnterMutex`, `Open`, `Flock`, `FlockFails`, `Purge`,
`Release`, `Crash` are the steps of `with self._project_lock(name)`. Lock files are
inodes: a purge leaves the name `.lock` free for a new inode while the old one is still
locked. `ExclusiveSection` is the abstract promise (at most one actor inside);
`ProjectLock` implements it with `inside` the actors whose lock file is the one named
`.lock`. Only one project: locks of two projects share nothing.

**`RegistryRecords`** holds the pure operations on the records, reduced to the
mode. **`Registry`** opens up the cycle: read, truncate the shared `registry.tmp`,
write, rename. Two writers may have the same inode open, so a write can land in a file
that was already published (`Torn`). **`AtomicRegistry`** is what a caller may expect:
between the start of a call and its end there is one instant at which it takes effect,
or, if the caller dies, possibly none.

**`ProjectLifecycle`** - every handler is a script of steps (`Script`), every step an
action, every exception `Raise`. `ReadRegistry`/`WriteRegistry` are the two ends of a
registration; what can happen between the write and the rename is the matter of
`Registry`, except that it may raise (`WriteFails`). So may the synchronization of the
ingress that `supervisor(name)` ends with (`SyncIngress`). The lock is that of
`ProjectLock` in three steps: `Open` takes the RLock and opens the inode of that name,
`Lock` locks it, and `PurgeStack` removes the name while the handler goes on, so that
another one may `Open` and `Lock` a new inode beside it. `met` remembers who has met
another in this way, `cut` which projects have lost their switch-off between its record
and its stop. A stack is `down`, `starting` or `healthy` here.

**`StackProcesses`** - what "launch" and "stop" are: `Start`/`Stop` pick up
`stack.json`; `Terminate` kills the recorded process ids, whoever has them by now;
`ChoosePorts` reads the siblings' files and probes; `WriteStack` and `Launch` alternate;
`Ready`/`TimesOut` end a start; `Fails` is any exception on the way, also that of
`stack.json` when a process was launched and its id cannot be written. `Bind` and `Die`
belong to the processes. `orphaned` and `raced` are history variables that no action
reads. Ports fixed by the environment and those of compatibility mode are left out.

**`StackRoute`** - who writes, removes, loads and probes the site of a stack: the start
writes it before the controller answers, the stop removes it, `projects` removes it
without the lock when it finds the stack not running, and `ingress_probe` tries to
recover a route or a certificate before it reports. A probe inside an assessment holds
the lock its own status asks for again.

**`DashboardJobs`** - `Enqueue` and `FinishJob` prune the table as they do,
`RunJob` is the job's thread, `JobClock` lets the horizon pass.

### Processes and helpers

**`McpDaemon`** - `mcp start`, `stop` and `restart` step by step (`CliStep`): reading
the settings from options, environment and host, refusing what does not fit, looking
for a daemon through metadata or the process table, spawning, writing metadata, waiting,
signalling, waiting again. Commands can be interrupted anywhere, daemons crash, reboot
and shut down, ids are reused, by strangers too. The daemon's own start takes the
state-root lock, the port, then DNS and ingress, any of which can fail; that a stop has
failed to stop the ingress is not reported.

**`ContainerdHelper`** - callers prefer a runtime, ask for a helper with sudo, wait for
its answer or stop it; helpers bind the one socket path, write metadata, serve clients
on threads of their own and unlink the path when they end. Clients are the nerdctl
wrapper and handlers that have a tree removed.

### Ingress and DNS

**`IngressSites`** - synchronizations of the ingress by several threads, each with its
own list of projects: reading the sites, moving duplicates aside, writing the Caddyfile,
reloading, restarting when the reload fails; sites are written, rewritten and removed
meanwhile. Hosts are what counts of a site.

**`CaddyAuthority`** - starts, recoveries and confirmed regenerations of the Caddy
container by operators that know nothing of each other, the data directory with the
authority, the exported bundle, and what users install from it.

**`DnsService`** - one query: the name along compression pointers, the local answer,
and the choice among resolvers. A pure algorithm, run step by step over all packets of
the bound and compared with what reading the packet from its start would give.

### Profiles, deployments, runtimes

**`ProfileRuntime`** - profiles and edge links share the containerd namespace of a
project: changes of profile and shape stop the old one, starts fail half-way, statuses
repair sites without the lock, containers exit, the daemon dies. `Sweep` is one list and
one `rm -f` of all that was listed, of which any part may succeed; the removal of the
site may fail, too.

**`EdgeLink`** - the same link from inside: which of options, bundle and cluster gives
an address, which containers follow, what each is told, and what is asked of them and
of the core before success is reported.

**`StagedManifests`** - a stage from template or source to validation, the policy on
secrets, and four ways to hand it on, each reading the files again while people edit
them. **`Deployment`** is the deployment to the project's own controller in detail:
the order of manifests, the services that are held back, orphans, prune, record.

**`RuntimeCleanup`** - what starts, stops, purges, resets and `workerbee cleanup` list
and remove while the controller starts containers; any command can fail unnoticed. A start
records the stack, launches the controller and records its process id in three steps; a
handler that ends before the last one leaves a stray, which no later stop kills.
**`ImageBuild`** - the chain of builders with its shared store of tags.

**`Runbook`** - updates with snapshots, imports and exports under the lock, and
statuses that create the file without it.

### The AI fabric

**`FabricValidation`** - the commands of the laboratory as sequences of stages that go
on after failures, over one directory of evidence per run id. The bridge answers with
the last thirty records of its one log; the model keeps who asked, not whose they are.
**`AdvisoryFacts`** - the append-only file of the bridge (which may end in half a line
and is read again on a restart), queries that give the best `Limit` facts, decisions,
and the router's request; the file of decisions ends in half a line as well.
**`RetrievalIndex`** - requests that reindex and search without a lock, in Qdrant or in
memory; a search gives as many of the best as it asks for (`Wanted`).

### Instances

`MC*.tla` define the instances. Several components that share no state are checked by
one run: a variable `part` picks one of them in the initial state, the others stay in
their own initial state, so the states are the sum of the parts and not their product,
and a property of one part is trivially true in the others and checked in its own.
Components that do interact meet through what one promises the other: the lifecycle
uses the exclusive section the lock implements (`LocksAreSections`); the handlers that
a job, a profile or a deployment is made of hold it.

Mutants are plausible bugs of one operator, named in their comments; they stand next to
the operator they change and are used by no specification. Every module of a component has a
type invariant (`TypeOK` or `<Component>TypeOK`). All of them are proved; no run lists
them, since the runs' properties relate more.

`SequenceParts` has what two components share: taking elements out of a list
(`_prune_dashboard_jobs_locked`, and the ingress' list of sites).

## Runs

| Run | Instance | Shows |
|---|---|---|
| `background` | see below | `ThreadExclusion`, `NoLeakedLock`, `Exclusive` (refinement), `LockIsReleased`: locks exclude and are given back; `StartedIsMine`, `StopStops`, `SparesStrangers`, `CommandEnds`: a start that reports success has started the daemon that serves, a stop leaves nothing, no stranger is signalled; `NoHelperOutOfReach`, `HelperEnds`; `NoneLost`, `JobEnds`; `UpdatesKept`: what an update reported can be read or restored |
| `stack_crash` | 2 projects, 1 port, 3 process ids, handlers die; 2 probes; 1 core, 2 tunnels, 1 node; 2 operators, 2 authorities | `Tracked`, `OneOfEach`, `StopLeavesNothing`, `DistinctPorts`; `ProbeTellsTruth`: what a probe reports has a cause; `LinkIsHeard`: success means every node was heard from since; `ReportedIsTrusted`, `AuthorityKept`: only a confirmed regeneration gives the authority up |
| `services` | see below | `Atomic` (refinement), `ModesStayAsked`; `SyncTellsTruth`, `SiteKept`; `NothingIsForgotten`; `AnsweredRightly`; `HandedOnAsValidated`; `AwaitedIsApplied`, `RecordedIsApplied`; `RuntimeIsClean`; `BuiltIsOwn`; `VerdictIsEarned`, `AdviceIsFounded`, `SearchFinds` |
| `lifecycle_locked` | 2 threads and a CLI, seven handlers that keep to the lock and purge nothing, with crashes and errors | `StopIsOff`, `StoppedRefuses`, `ModeSetTakesEffect`, `SessionRespectsMode` |
| `lifecycle_all` | a thread and a CLI, all thirteen handlers, crashes and errors, two lock files | `StopSwitchesOff`: `mode_set(stop)` returns with the stack down, unless a purge has let another handler in beside it |
| `project_lock_doc` (violation) | as in `background` | `locks.py:1` promises a project lock across processes; a purge breaks it |
| `registry_lost_update` (violation) | 2 projects, each writer holding its own lock | `docs/poc-scope.md:38` promises a persistent stop; the other project's registration reverts it |
| `lifecycle_profile_deploy` (violation) | a thread and a CLI | `README.md:370` promises `PROJECT_STOPPED`; a profile deployment checks before it waits for the lock |
| `deployment_prune_doc` (violation) | 3 workloads, 3 deployments | `contract.py:516` advises a prune for reported orphans; it finds none |
| `mcp_stop_doc` (violation) | 2 commands at a time | `docs/poc-scope.md:39` promises that `mcp stop` stops; overlapping starts leave a daemon it does not find |
| `runtime_separation_doc` (violation) | 2 projects, Docker | `docs/poc-scope.md:36` promises separation by project; the clean-up of one removes the other's proof of concept |
| `stack_route_doc` (violation) | 1 probe | `docs/poc-scope.md:49` promises browser-ready URLs; the list of projects removes the site under a start |

### Bounds, and why they are enough

The comment at the top of every cfg names its instance.

- Lock: two processes with two threads are the smallest instance in which the RLock and
  the flock both matter; four lock files allow three purges, each under a new owner.
- Registry: every race is between a writer and one other; three writers and three inodes
  are there for the race on the temporary name. `ModesStayAsked` and `Atomic` run with
  one project; that no mode is made up with several is a theorem.
- Lifecycle: one project, since handlers of different projects meet only in the registry.
  Without purges one lock file is enough; with them the second is the one that is made
  while the purger still holds the first.
- Stacks: one port and three process ids for two projects make ports and ids run out,
  which is where reuse and "no free port" happen.
- Route: two probes, one of them inside an assessment, so that one recovers while the
  other has read a status.
- Edge link: a core, two tunnels and cells of one node are enough for links that differ
  in each thing a running link is compared by; one exit per start (`MaxExits`).
- Authority: two operators interleave each pair of operations; a second authority is
  what a regeneration makes.
- Daemon: one command at a time, interrupted anywhere, so that several of them overlap
  with daemons left by the earlier ones; three process ids, one a stranger may get. Two
  commands that run at once are the violation run.
- Helper: two helpers compete for the path while a caller and a client hold on to it.
- Jobs: three jobs, room for one, a horizon of one tick and time to two.
- Runbook: three updates, one of which looks like a secret, and one status.
- Sites: four files that claim one to two of three hosts each, two of them more than once;
  two synchronizations, four changes.
- Profiles: two profiles and two shapes of an edge link with four containers between them;
  a change of profile shares none, a change of shape one.
- DNS: packets of offsets 1 to 3 hold every arrangement of a label, an end, a pointer
  (also to itself, or in a loop) and rubbish; three resolvers give every order of the
  three kinds of answers.
- Manifests: two names of one stem, the texts that validation tells apart, two edits.
- Deployments: three workloads that name one another in a chain, three stages of them and
  three deployments: the prune looks at the one before, which may itself have failed.
- Clean-up: one project (two in the violation run), an app that is labelled and one of a
  proof of concept, two runtimes. Builds: two, of two
  projects under one tag.
- Fabric: two invocations under one run id, four lines of facts with a limit of two, two
  overlapping indexes of two versions and a search.

Nothing else is cut off: `MaxFiles`, `MaxPort`, `Asked`, `MaxTime`, `MaxChanges`,
`MaxDeploys`, `MaxEdits`, `MaxExits`, `MaxLines`, `Offsets`, `Versions` and the finite
sets are the only bounds.

`lifecycle_locked` leaves out six handlers, because with them the properties are false in
the code. `project_mode_get` writes without the lock (`daemon.py:403`), `delete_projects`
unregisters after it is released (`daemon.py:2138`) and, like `project_purge`, goes on
after its purge has let others in (`supervisor.py:1842`): with any of the three all four
properties fail. `start_projects` launches before it records the mode (`daemon.py:2044`):
`StopIsOff` fails. `profile_start` never checks the mode (`daemon.py:871`) and a profile
deployment checks it too early (the violation run, the finding that stands for the
family): `StoppedRefuses` fails. `lifecycle_all` has them all. A `project_mode_set(stop)`
that an error or a crash ends between recording the mode and stopping the stack leaves
the stack up: `StopIsOff` excepts that project until the next stop (`cut`).

`lifecycle_all` compares states by `View`: the last call of an actor that does nothing, and
`met` of those who are outside, tell nothing of what follows, and `cut` is read by `StopIsOff`
alone, which that run does not check.

Several properties leave out a case that the code gets wrong, because it has nothing that
would prevent it: `NoHelperOutOfReach` calls that overlap, `UpdatesKept` a status that
creates the runbook over the first update, `BuiltIsOwn` a build that overlaps under one tag,
`HandedOnAsValidated` edits between the reads, `AwaitedIsApplied` services that name each
other in a circle, the record half of `NothingIsForgotten` a start that has failed,
`RuntimeIsClean` a controller without a recorded id, `SyncTellsTruth` two synchronizations
that overlap. What they check is what is left of these hazards; the cases themselves are
listed at the end. That a start's two waits end is assumed and not checked (`http.py:164`).

Deadlock is checked where the system goes on for ever; the suites and the violation
runs that end when their bounded supply of jobs, edits, deployments or ids is used up
say `CHECK_DEADLOCK FALSE`.

### Fairness

`ProjectLock` and `ProjectLifecycle` assume weak fairness of a handler that was called:
its waits (flock is non-blocking, HTTP probes have deadlines) are bounded, and the
operating system schedules its thread. `McpDaemon` assumes it of the steps of a command
(`CliStep`), whose loops all have deadlines; `ContainerdHelper` of a helper's accept loop
(`Serve`), which has a timeout; `DashboardJobs` of a job's thread. No fairness is assumed
for callers, crashes, processes coming up, or the order of waiters on an RLock, so "a
waiter gets in" is not claimed.

## Proofs

TLAPS checks, for every value of the constants that the modules' ASSUMEs allow, the
type invariant of every component and every property of a passing run except those
named at the end. Every inductive invariant below was an invariant of a TLC run, on the
instance of its component, before it was proved.

The core

- `ProjectLock_proofs`. `IInv` says who owns each RLock, handle and flock, and that
  the next lock file is new; the last part is what makes "a freshly created file
  is nobody's" inductive. From it: `TypeCorrect`, `ThreadsExclude`, `NoLeak`, and
  `Refinement` to `ExclusiveSection`, with purges and crashes: a purge maps to
  everybody leaving, a flock on an unlinked inode to a stutter.
- `Registry_proofs`. `TypeCorrect` and `ModesAreAsked` for any projects and writers.
  With one project and all writers under its lock, `SerialInv` (one actor in the
  cycle, the temporary file is its own, memory is one change away from what is
  published) gives `SerialNeverTorn` and `Refinement` to `AtomicRegistry`.
- `ProjectLifecycle_proofs`. `IInv` relates the steps a handler has left to the inode it
  has open and to the lock on it; induction over scripts is avoided by describing the
  suffixes a script can be in. From it `TypeCorrect` and `SwitchesOff`, for all handlers,
  with crashes, errors and purges; of those that have met another handler inside, which only
  a purge makes possible, `StopSwitchesOff` says nothing. Three more theorems hold for all
  handlers: `LocksAreSections` (for any project `Here`, the handlers whose file is still the
  one named `.lock` implement `ExclusiveSection`, as `ProjectLock_proofs` shows of the lock:
  in both a purge leaves the section), `HoldersWaitForNoLock` (who holds a project's lock
  holds no other, waits for none and has the release before it; `Onward` is the
  invariant) and `HandlersEnd` (every step of a handler, errors included, makes its
  `Distance` smaller, and no other handler changes it). The last two are what
  `LockIsReleased` needs besides fairness.

  What the mode promises is conditional, and each theorem names its condition as weakly
  as the code allows. `Effects` says once what any step does to the handlers; `Planned`
  says what the steps left of each handler may be; `Undisturbed` says that no lock file has
  lost its name. With `SwitchedOn` (a handler inside that still runs or launches has found
  the project switched on) it gives `OffRefuses`; with `AsSwitched` and `SessionOn` (a
  mode_set past its last write has its mode on record, a session past its check finds
  `start`) `ModeIsSet` and `SessionsObey`; with `StopIsNear` (a record `stop` over a stack
  that is up has the stop still before it, or lost it to an error or a crash) `OffIsDown`.
  The handlers that may be called:

  | Theorem | Property | Handlers |
  |---|---|---|
  | `OffRefuses` | `StoppedRefuses` | all but profile_deploy, profile_start, mode_get, project_purge, delete_projects |
  | `ModeIsSet` | `ModeSetTakesEffect` | all but mode_get, project_purge, delete_projects |
  | `SessionsObey` | `SessionRespectsMode` | all but mode_get, project_purge, delete_projects |
  | `OffIsDown` | `StopIsOff` | all but start_projects, mode_get, project_purge, delete_projects |

  All four have the hypothesis `Orderly`: no registration writes back an older record of
  another project, which is what `registry_lost_update` shows the code to do; with one
  project it always holds (`AloneIsOrderly`). So the run `lifecycle_locked` is an instance of
  all four. With any one of the handlers that are left out, TLC finds the property violated.
  Actors, projects, crashes and errors are otherwise free.
- `Stack_proofs`. `IInv` says, for each program point, how far `stack.json`
  lags behind the handler's memory, and that after `Terminate` only orphans are
  left. From it `TypeCorrect`, `NoneForgotten`, `StopIsComplete`; with `AllApart`,
  over ports from the moment they are chosen, `PortsApart`; with `TrackedAs`, by which
  the file or the handler names a live process under its own service, `EachRunsOnce`.

What belongs to a stack, in `Stack_proofs`

- `CaddyInv`: what an operator has exported is the bundle of the data until something
  upsets it, and what is promised to users is that bundle. From it
  `TrustIsKept` and `OnlyRegenerationPurges`.
- `RouteInv`: a stack that is not down is on record, a probe's witness has not missed what
  was out of order since it began, and what the probe has mended stays so unless something
  was. From it `ProbesTellTheTruth`.
- `EdgeInv`: for each phase of a start or validation, what has been checked, launched and
  heard; a component that runs was told what was asked for. From it `TheLinkIsHeard`.

Background, in `Background_proofs`

- `RunbookInv`: before the runbook is truncated its text is in a snapshot, and while it
  is written all that was accepted is. From it `UpdatesAreKept`.
- `SignalInv`: what a command is about to terminate are daemons or their zombies. From it
  `StrangersAreSpared`, with any number of commands. `CommandInv` adds what a command
  has left alive where it is and, as long as no stranger has had the id in it, which
  daemon the metadata names. From it `StopIsReal` and `StartIsOwn`, under the assumption
  `OneCommand`: with two at a time both are false (`mcp_stop_doc`).
- `HelperInv`: without overlaps there is one caller and one helper, the path is that of
  the helper as soon as it listens, and one that comes up or ends has a caller that waits
  for it. From it `HelperInReach`.
- `JobsInv`: an unfinished job is in the list the pruning goes by. From it `NoJobIsLost`.

Services of a project, in `Services_proofs`

- `SitesInv`: what each synchronization knows of the known projects, the files and the
  Caddyfile, as long as nothing has changed since it looked (`calm`). From it
  `SyncIsTrue`; `SitesAreKept` is about the step that moves files.
- `ProfileInv`: as long as nothing has failed, every container is accounted for by a
  record or by the step in progress. From it `NothingForgotten`.
- `DnsInv`: the decoder is at a spot that reading the packet from its start reaches, and
  the pointers it has followed are among spots that lead there (`LeadsHere`), so that a
  pointer met twice is on a circle. From it `TheAnswerIsRight`, for every size of a packet
  and every number of resolvers: what is answered or refused is what reading would give,
  and every step of the decoder follows a new pointer or advances (`ReadsOn`), so that no
  packet keeps it reading for ever.
- `StagesInv`: what is handed on held when it was validated, and unless somebody edits it
  still does. From it `HandedOnIsValid`.
- `DeployInv`: what a deployment has not applied is still to do or held back until after
  the wait. From it `TheRecordedIsApplied`. `TheAwaitedIsApplied` needs that what is
  waited for holds nothing back itself, which is where `Acyclic` comes in.
- `CleanupInv` (`OwnerIsClean` for each step of a clean-up, as long as no stray runs) and `BuildInv` (a tag names
  this build's image unless another overlapped). From them `TheRuntimeIsClean` and
  `BuiltAreOwn`.
- `Composed`: in the composition of `MCProjectServices` every component behaves as it does
  alone, so each theorem about a component holds of the run. `WritersInventNothing`
  (`ModesStayAsked`) takes `ModesAreAsked` of `Registry_proofs` for the second instance of
  the registry, whose writers hold no lock.

The AI fabric, in `Fabric_proofs`

- `FabricInv`: a stage that has not passed has left its mark on the run, and the evidence
  in the directory of a run id was asked for by this invocation or by one that shares the id. From it `TheVerdictIsEarned`.
- `RetrievalInv`: an index without overlaps knows what is in Qdrant and in memory. From it
  `TheIndexIsFound`, for searches of any limit.
- `AdviceInv`: a line of the file has the fact it was acknowledged with or is torn, and
  for each place of a request what it has seen. From it `TheAdviceIsFounded`; that the
  best `Limit` of the matches are the newest rests on `Ranks`.

Data and recursion. `SequenceParts` has what the models take from lists (`Selection`, a
list without some of its elements, as the pruning of jobs and the ingress use it), and
`SequenceParts_proofs` its laws: places are numbered from 1 on without gaps (`Ranks`), so
a selection has the elements that are left, and none twice if none was. The prover cannot
instantiate an induction over data; where one is needed (ranks, the decoder's `Walk`,
paths between workloads) the lemma assumes a counterexample and takes the least one
(`LeastNumber`, from the library's well-foundedness of the natural numbers). That the
recursive functions `Walk` and `Reaches` are defined at all is `Iterated`.

The assumptions are the ASSUMEs of the modules: sets of actors and projects are
related as their names say, bounds are natural numbers, the values that stand
for "nothing" are none of the others, and what the bridge sees of the laboratory at one
time is finite (`FactsAssumption`). `OneCommand`, `OneProject` (for `SerialNeverTorn` and
the `Refinement` of the registry), and `Orderly` with the sets of handlers are hypotheses of the theorems named above and of no other.

Only model-checked: `LockIsReleased`, `JobEnds`, `CommandEnds` and `HelperEnds`, which are
liveness under fairness and beyond this prover; every other property of a passing run is
stated by a theorem. The four theorems with handler sets hold for the largest sets TLC
left standing; that a larger set fails is TLC's counterexample on two actors and one
project. Violation runs are counterexamples and need no proof.

## What reading the code for the models showed

The violation runs are the disagreements with a document or a test. The following is
how the code behaves, too; the models have it as it is, and the properties except it
where their comments say so.

Locks and life cycle
- `workerbee start`, `stop`, `reset`, `deploy-poc` and `build-image` (`cli.py:1091-1165`,
  `1282-1289`) work without any project lock and, without `--state-root`, on
  `<cwd>/.workerbee`: they do not see a stack the daemon manages. `workerbee cleanup`
  takes no lock either.
- A `project_mode_set(stop)` that is ended by an exception after its record, in the
  registration or the reload of the ingress (`daemon.py:575`), leaves the stack of a
  stopped project running. A registration may raise because another writer has renamed the
  shared `registry.tmp`.
- A controller that was launched by a handler which ended before it recorded the process id
  (`supervisor.py:205`) outlives every stop and starts containers again.
- The owner named in `STATE_LOCKED` is the last one written and may be stale.
- A purge on Docker with no stack on record cleans nothing (`supervisor.py:237`).
- `_terminate_pid` does not wait after SIGKILL.
- `mcp reboot` leaves `--allow-remote-mcp` out of its arguments; `mcp start
  --ingress-dns off` under `WORKERBEE_INGRESS_DNS` with LAN exposure leaves the DNS
  options out, and the child resolves them from the environment (`mcp_daemon.py:298`).
- `mcp stop` reports that it has stopped although the global ingress did not
  (`mcp_daemon.py:1065-1086`).
- Overlapping calls, or one that gives up on a helper which sudo starts later, leave a
  privileged helper that listens on no path; nothing locks `ensure` and `stop`.
- The nerdctl wrapper exits 0 when the helper goes away under an open request
  (`containerd_helper.py:855`). `--runtime auto` picks containerd because a helper
  answers and may then start one with sudo if it has died meanwhile (`README.md:725`
  says this never runs for `auto`).

Ingress
- A probe of an unknown host restarts the global Caddy for all projects; a POST probe
  is sent again by the loopback and the recovery; a profile's URL that answers 502 to 504
  while the stack is down is reported as `PROJECT_NOT_RUNNING`.
- Health probes verify TLS only when the bundle exists.

Profiles and edge links
- A profile that is kept because it runs is reported ok without a readiness check
  (`profiles.py:210-217`). Stopping one to start another sweeps the whole namespace, the
  edge link included; a purge without a profile on record hides a sweep that failed.
- A stop whose removal of the site fails is reported ok; a start that fails before its record
  leaves containers that only a stop with success or a purge takes away.
- A kept link is not compared by `controller_url`, token or NATS leaf, and hears nobody.
  An explicit `rathole_server_addr` is ignored when the cluster has endpoints; the default
  `site_id` overrides the bundle's; the address to advertise is checked only after the
  old link was stopped; the default node id is the same for all projects; the node checks
  of `validate` ask for no freshness.

Manifests, deployments, builds
- `prepare` removes the old stage before it checks template and source: a failure leaves
  an empty stage, a crash a part of one, which validates.
- Two manifests of one stem overwrite each other in k8s and helm exports, which report
  ok; an export clears the old one before it finds an unsupported manifest, and one
  that fails leaves a part.
- What is edited between validation and use is applied unvalidated.
- Services that name each other in a circle make a deployment wait for what it holds back
  until the timeout (`manifests.py:774`).
- `latest.json` is written before the history.
- The default image tag of two projects can be the same, and a build that comes between
  another's build and save puts its image into the other's namespace; a crash leaves a saved file in
  `global/image-transfer`.

Runbook and AI fabric
- A status that found no runbook overwrites the first update.
- A degraded fact that is older than `limit` newer matches drops out of the advice, and
  one that has been followed by a ready one still blocks; retried imports duplicate facts;
  requests with one trace id overwrite each other's trace. After a crash in the middle of a
  record of `f5-evidence.jsonl` the next one, of a decision that was given, cannot be read.
- The evidence a run collects is the last thirty records of the bridge's one log, whichever
  run has caused them.
- A reindex with Qdrant down reports ok and later searches find old points; stale points
  are never deleted and may fill the answer of a search; overlapping reindexes delete each other's collection and duplicate
  chunks in memory; a search between clear and extend finds nothing.
- The closeout of F1 and F2 posts any node k1s shows as Ready; a quality suite without
  prompts fails without saying why.

## Not modelled, and why

- **Constant data and texts**: the AI Max contracts, drill reports and evidence bundles a
  start of an edge link stores with its record; rendering of Caddyfiles, manifests, kubeconfigs,
  reports and the dashboard's HTML; templates; chunking and ranking of documents; advice
  on Dockerfiles. No property is about their wording.
- **Detection of the host**: GPUs, the LAN address, installed tools other than the
  builders; they are inputs where a decision depends on them.
- **Security review**: pattern rules over the files of one project that are read once. What
  an assessment does with the project's lock and its probe is in `StackRoute`; what the
  secret policy allows is in `StagedManifests`.
- **Secrets**: single files written atomically; whether the one a stage refers to is
  there, plain or encrypted is part of `StagedManifests`.
- **Remote targets**: what is deployed to a remote controller is in `StagedManifests`. The
  stand-in for one in `remote_k1s_target.py` is started by live tests only.
- **CLI and MCP tool table**: parsing of arguments and dispatch to the handlers that are
  modelled.
- **Podman's CNI files** and images, which are repaired or listed as a courtesy.
- **Concurrency inside a soak** of the laboratory, whose threads share a list under a lock.

The modules stop where the code has no behaviour that a model distinguishes. Components that
interact are related by what one promises the other: the section the lifecycle relies on,
of the handlers whose file is still named `.lock`, is the one the lock was proved to be.
