\* Two handlers, each holding the lock of its own project.
SPECIFICATION Spec
CONSTANTS
  Project = {p, q}
  NoMode = NoMode
  Actor = {a, b}
  Locked = {a, b}
  Asked = {"stop"}
  Inode = {i1, i2, i3, i4}
  NoInode = NoInode
SYMMETRY Symmetry
PROPERTY PersistentStop
