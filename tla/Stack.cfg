\* Two projects compete for one port, and their handlers may die; two probes of a stack's
\* route, one of them inside an assessment; an edge link with one core and two tunnels;
\* two operators of the authority, and one store its certificate is taken to.
SPECIFICATION StackSpec
CONSTANTS
  None = None
  Project = {p, q}
  Pid = {i1, i2, i3}
  MaxPort = 1
  Crasher = {p, q}
  Prober = {"outer", "inner"}
  Inner = {"inner"}
  c1 = c1
  t1 = t1
  t2 = t2
  Core = {c1}
  Tunnel = {t1, t2}
  CellNodes = 1
  Cells = {1}
  Clusters <- ClusterSays
  Bundles <- BundleSays
  NoLink = NoLink
  MaxExits = 1
  Operator = {o1, o2}
  Authority = {x, y}
  Store = {"nss"}
  NoAuthority = NoAuthority
SYMMETRY Symmetry
INVARIANTS Tracked OneOfEach StopLeavesNothing DistinctPorts ProbeTellsTruth LinkIsHeard ReportedIsTrusted
PROPERTY AuthorityKept
