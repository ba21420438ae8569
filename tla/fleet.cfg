SPECIFICATION FairSpec
CONSTANTS
  Hosts = {"a", "b"}
  Queries = {"x", "y"}
  LaneDepth = 2
  MaxWatchers = 3
  Lives <- Fleets
INVARIANTS
  TypeOK
  NoGhost
PROPERTIES
  Settles
CHECK_DEADLOCK FALSE
