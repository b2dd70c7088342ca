\* Two processes: the handlers that hold the lock and check the mode inside it.
SPECIFICATION Spec
CONSTANTS
  NoMode = NoMode  None = None
  Project = {p}
  Inode = {i1}
  Actor = {t1, t2, cli}
  Thread = {t1, t2}
  Crasher = {t1, t2, cli}
  Op = {"operation", "active_only", "remote_deploy", "session_start", "mode_set", "stop_projects", "project_stop"}
SYMMETRY Symmetry
INVARIANTS StopIsOff
PROPERTIES StoppedRefuses ModeSetTakesEffect SessionRespectsMode
