SPECIFICATION FairSpec
CONSTANTS
  MaxLinks = 2
  Attaches = {1, 2}
  Ticket <- OneTicket
  Lifetime = 1
  Retention = 2
  Refresh = 3
  Bound = 4
  Scenarios <- Rooms
INVARIANTS
  TypeOK
  OneWayBack
PROPERTIES
  KeepsRendezvous
  PipesEnd
  PresenceIsTrue
CHECK_DEADLOCK FALSE
