\* Every handler, with crashes.
SPECIFICATION Spec
CONSTANTS
  NoMode = NoMode  None = None
  Project = {p}
  Inode = {i1, i2}
  Actor = {t1, cli}
  Thread = {t1}
  Crasher = {t1, cli}
  Op = {"operation", "active_only", "remote_deploy", "session_start", "mode_set", "start_projects", "stop_projects", "delete_projects", "project_stop", "project_purge", "profile_deploy", "profile_start", "mode_get"}
VIEW View
PROPERTIES StopSwitchesOff
