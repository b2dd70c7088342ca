\* Two commands at the same time: what docs/poc-scope.md:39 says of `mcp stop`.
SPECIFICATION McpSpec
CONSTANTS
  Nobody = Nobody
  Cli = {c, d}
  Pid = {p, q}
  Stranger = {}
INVARIANTS StopStops
