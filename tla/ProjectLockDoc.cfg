\* The docstring of locks.py, with a handler that purges.
SPECIFICATION Spec
CONSTANTS
  t1 = t1  t2 = t2  cli1 = cli1  cli2 = cli2
  daemon = daemon  shell1 = shell1  shell2 = shell2
  None = None
  Process = {daemon, shell1, shell2}
  Actor = {t1, t2, cli1, cli2}
  ProcOf <- MCProcOf
  Purger = {t1, cli1}
  MaxFiles = 4
INVARIANT ProjectExclusion
