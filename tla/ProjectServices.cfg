\* Three handlers with the lock of one project; two writers of its record, one of them
\* without the lock; two synchronizations of the ingress over four files that compete for
\* hosts; two profiles and two shapes of an edge link;
\* packets of three bytes and three resolvers; three deployments; one project with two
\* runtimes; two builds of images; two validations of the AI fabric under one run id; one request
\* for advice over a file of up to four facts; two indexes of a document, and a search; two staged
\* manifests with two edits meanwhile.
SPECIFICATION ServicesSpec
CONSTANTS
  Project = {p}
  NoMode = NoMode
  Actor = {a, b, c}
  Locked = {a, b, c}
  Asked = {"lazy", "start", "stop"}
  Writer = {a, b}
  LockedWriter = {a}
  AskedOfWriters = {"stop"}
  Inode = {i1, i2, i3}
  NoInode = NoInode
  Sync = {s1, s2}
  SiteProject = {"p"}
  Host = {"h1", "h2", "h3"}
  Site = {"stack", "pod", "work", "hand"}
  HomeOf <- SiteHome
  Claims <- SiteClaims
  Workload = {"work"}
  ByName = {"stack", "work"}
  ByText = {"pod"}
  MaxChanges = 4
  Container = {"c1", "c2", "e1", "e2"}
  Profile = {"p", "q"}
  Shape = {"s", "t"}
  Parts <- ContainersOf
  Nothing = "nothing"
  Offsets = 3
  Upstreams = 3
  App = {"web", "api", "db"}
  Native = {"web", "api", "db"}
  Publisher = {"api", "db"}
  Refers <- Reference
  Stages <- DeployedTogether
  Namespace = {n1, n2}
  Home = n1
  NoNamespace = NoNamespace
  MaxDeploys = 3
  Owner = {"p"}
  Apps = {"web", "db"}
  OwnerOf <- CleanedOwner
  NamespaceOf <- OtherNamespace
  PocApps = {"db"}
  LabelledApps = {"web"}
  NoRuntime = NoRuntime
  Build = {"b1", "b2"}
  BuiltFor <- BuildOwner
  BuildTag <- TagOfBuild
  NoImage = NoImage
  Invocation = {"v1", "v2"}
  RunId = {"r"}
  FabricCommand = {"acceptance-closeout", "lora-plumbing", "f3", "hyperon", "f1-f2"}
  Nobody = "nobody"
  Observed <- ObservedFacts
  DependsOn <- Dependencies
  Services = {"svc", "db"}
  Phase = {"phase"}
  PhaseBehind <- PhaseOfEvidence
  Report = "report"
  Adapter = {"adapter"}
  Queries <- AskedOfRouter
  NoFact = NoFact
  Asker = {r1}
  Limit = 2
  MaxLines = 4
  Doc = {d1}
  Versions = 2
  Indexer = {x1, x2}
  Searcher = {y1}
  Wanted = {2}
  Batch = 1
  Files = 2
  Texts <- StagedTexts
  Originals <- PreparedTexts
  Stem <- OneStem
  NoText = NoText
  MaxEdits = 2
  PlaintextAllowed = FALSE
INVARIANTS
  NothingIsForgotten HandedOnAsValidated
  SyncTellsTruth AwaitedIsApplied RuntimeIsClean
  ModesStayAsked VerdictIsEarned AdviceIsFounded SearchFinds
PROPERTIES
  Atomic SiteKept RecordedIsApplied BuiltIsOwn AnsweredRightly
CHECK_DEADLOCK FALSE
