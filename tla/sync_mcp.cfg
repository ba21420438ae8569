SPECIFICATION Spec
CONSTANTS
  Clients = {"m"}
  Kind <- OneMcp
  Throttled = {"m"}
  Sizes = {1, 2}
  InitRows = 2
  Threshold = 1
  Happenings = {"bell", "stamp", "title"}
  MaxBurst = 1
  MaxSeq = 2
  MaxTitle = 1
  Window = 1
  Plans <- McpTwice
INVARIANTS
  BellNeverWaits
  NoOrphanError
PROPERTIES
  ExitedAfterOutput
CHECK_DEADLOCK FALSE
