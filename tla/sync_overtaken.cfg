SPECIFICATION FairSpec
CONSTANTS
  Clients = {"a"}
  Kind <- OneApp
  Throttled = {}
  Sizes = {1, 2}
  InitRows = 2
  Threshold = 1
  Happenings = {}
  MaxBurst = 1
  MaxSeq = 1
  MaxTitle = 1
  Window = 1
  Plans <- AppOnce
PROPERTIES
  CatchesUp
CHECK_DEADLOCK FALSE
