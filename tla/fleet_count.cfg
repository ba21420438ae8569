SPECIFICATION FairSpec
CONSTANTS
  Hosts = {"a", "b"}
  Queries = {"x", "y"}
  LaneDepth = 2
  MaxWatchers = 3
  Lives <- Counting
INVARIANT WaitingReadsPending
CHECK_DEADLOCK FALSE
