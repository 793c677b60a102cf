CONSTANTS
  N = 2
  GuardLimit = 8
  OnestepAccept = 2
  ServerMode = TRUE
  Peers = {p1, p2}
  Listen = Listen
  None = None
  FreeDrift = 1
SPECIFICATION FairSpec
PROPERTY InputReturns
CONSTRAINT FreeBound
