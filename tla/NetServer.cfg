CONSTANTS
  N = 2
  GuardLimit = 1
  OnestepAccept = 2
  ServerMode = TRUE
  Peers = {p1, p2}
  Listen = Listen
  None = None
  FreeDrift = 1
SPECIFICATION Spec
INVARIANTS IdsetPrefix BackPointer RegOwner
CONSTRAINT FreeBound
