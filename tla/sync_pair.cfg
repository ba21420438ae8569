SPECIFICATION Spec
CONSTANTS
  Clients = {"a", "w"}
  Kind <- AppAndWeb
  Throttled = {"w"}
  Sizes = {1, 2}
  InitRows = 2
  Threshold = 2
  Happenings = {}
  MaxBurst = 1
  MaxSeq = 1
  MaxTitle = 1
  Window = 1
  Plans <- BothOrOne
INVARIANTS
  NoLostWakeup
  SyncInv
  SmallestWins
PROPERTIES
  WatchesSharedScreen
CHECK_DEADLOCK FALSE
