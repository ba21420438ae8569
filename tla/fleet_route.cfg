SPECIFICATION FairSpec
CONSTANTS
  Hosts = {"a", "b"}
  Queries = {"x", "y"}
  LaneDepth = 2
  MaxWatchers = 3
  Lives <- Routing
PROPERTY RouteIsWatched
CHECK_DEADLOCK FALSE
