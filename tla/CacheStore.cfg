CONSTANTS
  Procs = {"one", "two", "service"}
  Service = "service"
  Keys = {"a", "b", "c"}
  Buckets = {0}
  Hash <- OneBucket
  MapMax = 3
  PoolMax = 3
  Calls <- CallsOfBoth
  MaxCalls = 4
  Timed = {"c"}
SPECIFICATION Spec
CONSTRAINT SomeInOrder
CHECK_DEADLOCK FALSE
INVARIANTS TypeOK RightRecord ChainsWhole
PROPERTY ImplementsIndex

