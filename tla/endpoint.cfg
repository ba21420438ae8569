SPECIFICATION FairSpec
CONSTANTS
  Launches = {1, 2, 3}
  MaxTries = 2
  Scenes <- AllScenes
INVARIANTS
  TypeOK
  ServesAtItsPath
  OneWindowEach
PROPERTIES
  NoLaunchHangs
CHECK_DEADLOCK FALSE
