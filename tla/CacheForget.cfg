CONSTANTS
  Procs = {"one", "two", "service"}
  Service = "service"
  Keys = {"a", "b", "c"}
  Buckets = {0}
  Hash <- OneBucket
  MapMax = 3
  PoolMax = 3
  Calls <- CallsOfBoth
  MaxCalls = 5
  Timed = {"c"}
SPECIFICATION Spec
CHECK_DEADLOCK FALSE
INVARIANT IndexOfKey
