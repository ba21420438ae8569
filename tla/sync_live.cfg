SPECIFICATION FairSpec
CONSTANTS
  Clients = {"a", "w"}
  Kind <- AppAndWeb
  Throttled = {"a"}
  Sizes = {1, 2}
  InitRows = 2
  Threshold = 1
  Happenings = {"rebase"}
  MaxBurst = 1
  MaxSeq = 2
  MaxTitle = 1
  Window = 1
  Plans <- OneAtATime
INVARIANTS
  TypeOK
PROPERTIES
  Converges
  ExitIsSeen
CHECK_DEADLOCK FALSE
