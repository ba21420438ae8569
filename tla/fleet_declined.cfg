SPECIFICATION FairSpec
CONSTANTS
  Hosts = {"a", "b"}
  Queries = {"x", "y"}
  LaneDepth = 2
  MaxWatchers = 3
  Lives <- Upgrading
INVARIANT DeclinedAreOld
CHECK_DEADLOCK FALSE
