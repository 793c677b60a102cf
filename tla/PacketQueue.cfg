CONSTANTS
  CacheSize = 2
  MaxPackets = 6
SPECIFICATION Spec
INVARIANTS TypeOK OneHolder
PROPERTIES ImplementsChannel Drained
CHECK_DEADLOCK FALSE
