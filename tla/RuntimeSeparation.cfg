\* Two projects, each with a proof of concept.
SPECIFICATION CleanupSpec
CONSTANTS
  Owner = {"p", "q"}
  Apps = {"web", "db"}
  OwnerOf <- DeployedBy
  NamespaceOf <- DeployedBy
  PocApps = {"web", "db"}
  LabelledApps = {}
  NoRuntime = NoRuntime
PROPERTIES SeparatedByProject
CHECK_DEADLOCK FALSE
