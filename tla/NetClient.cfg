CONSTANTS
  N = 2
  GuardLimit = 8
  OnestepAccept = 2
  ServerMode = FALSE
  Peers = {p1, p2, p3}
  Listen = Listen
  None = None
  FreeDrift = 0
SPECIFICATION FairSpec
INVARIANTS TypeOK IdsetOwned SlotOwned EventOwner ManagedWatched
PROPERTIES ImplementsTable HangupClosed CommandServed
CONSTRAINT TwoTroubles
