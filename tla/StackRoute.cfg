\* One probe, and none inside an assessment: the race is between a start and the
\* dashboard's list of projects.
SPECIFICATION RouteSpec
CONSTANTS
  Prober = {"probe"}
  Inner = {}
INVARIANT BrowserReady
CHECK_DEADLOCK FALSE
