SPECIFICATION FairSpec
CONSTANTS
  Conns = {"a", "b"}
  Device <- OneDevice
  Peer <- OnePeer
  Windows = {"w"}
  MaxSlots = 2
  MaxFailures = 1
  Scenarios <- Several
INVARIANTS
  TypeOK
  SlotsAreCounted
  OneOfThemWins
PROPERTIES
  SettledTruly
  KeepsDeviceTrust
  PromptsFollow
  NobodyIsLeft
CHECK_DEADLOCK FALSE
