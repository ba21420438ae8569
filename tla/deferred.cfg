SPECIFICATION FairSpec
CONSTANTS
  MaxAsks = 3
  MaxWorkers = 2
  Scenes <- Connections
INVARIANTS
  TypeOK
  WorkIsCounted
PROPERTIES
  KeepsAnswering
CHECK_DEADLOCK FALSE
