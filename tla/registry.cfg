SPECIFICATION FairSpec
CONSTANTS
  Conns = {"a", "b"}
  MaxSessions = 1
  Scenes <- GuestsAndListings
INVARIANTS
  TypeOK
PROPERTIES
  LivesItsLife
  EndsAreSettled
  ListingFresh
CHECK_DEADLOCK FALSE
