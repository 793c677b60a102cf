CONSTANTS
  main = main
  sender = sender
  Threads = {main, sender}
  Tick = main
  Packets = {1, 2, 3, 4}
  DynamicPackets = {2}
  AllocMax = 2
  StreamPackets = 2
  Garbled = {3}
  Posts <- PostsOfSender
  MaxSize = 1
  Sizes = {0, 2}
  Limit = 4
  ExecuteCount = 1
SPECIFICATION Spec
INVARIANTS OneHolder InSync TablesExact
PROPERTIES ImplementsService Answered
