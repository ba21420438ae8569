SPECIFICATION FairSpec
CONSTANTS
  Conns = {"a", "b"}
  MaxSessions = 1
  Scenes <- TwoVisitors
PROPERTIES
  ToldOfTheEnd
CHECK_DEADLOCK FALSE
