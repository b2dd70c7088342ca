\* A profile deployment checks the mode before it takes the lock.
SPECIFICATION Spec
CONSTANTS
  NoMode = NoMode  None = None
  Project = {p}
  Inode = {i1}
  Actor = {t1, cli}
  Thread = {t1}
  Crasher = {}
  Op = {"mode_set", "profile_deploy"}
PROPERTY StoppedRefuses
