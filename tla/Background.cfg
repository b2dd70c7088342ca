\* Two threads of the daemon and two commands that take the project's lock; one mcp
\* command at a time, interrupted anywhere, with three process ids, one of which another
\* program may get; one command, one client and two helpers; three jobs and room for one;
\* three updates of a runbook, one of which looks like a secret, and one status.
SPECIFICATION BackgroundSpec
CONSTANTS
  t1 = t1  t2 = t2  cli1 = cli1  cli2 = cli2
  daemon = daemon  shell1 = shell1  shell2 = shell2
  None = None
  Process = {daemon, shell1, shell2}
  Actor = {t1, t2, cli1, cli2}
  ProcOf <- MCProcOf
  Purger = {t1, cli1}
  MaxFiles = 4
  Nobody = Nobody
  Cli = {c}
  Pid = {p, q, r}
  Stranger = {p}
  Caller = {a}
  Client = {w}
  Helper = {g, h}
  NoHelper = NoHelper
  Job = {j1, j2, j3}
  MaxJobs = 1
  Horizon = 1
  MaxTime = 2
  Update = {u1, u2, u3}
  Secret = {u3}
  Reader = {s}
  NoText = NoText
INVARIANTS
  ThreadExclusion NoLeakedLock StopStops StartedIsMine
  NoHelperOutOfReach NoneLost UpdatesKept
PROPERTIES
  Exclusive LockIsReleased SparesStrangers CommandEnds HelperEnds JobEnds
CHECK_DEADLOCK FALSE
