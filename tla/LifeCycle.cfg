CONSTANTS
  Threads <- ThreadParts
  Main = "main"
  NoOne = "noone"
  MaxSignals = 2
SPECIFICATION FairSpec
INVARIANTS TypeOK SafeQuit
PROPERTIES Quits
CHECK_DEADLOCK FALSE
