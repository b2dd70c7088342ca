\* What contract.py:516 says of prune.
SPECIFICATION DeploySpec
CONSTANTS
  App = {"web", "api", "db"}
  Native = {"web", "api", "db"}
  Publisher = {"api", "db"}
  Refers <- Reference
  Stages <- Stage3
  Namespace = {n1}
  Home = n1
  NoNamespace = NoNamespace
  MaxDeploys = 3
PROPERTIES AdvisedPruneRemoves
CHECK_DEADLOCK FALSE
