CONSTANTS
  p1 = p1
  p2 = p2
  p3 = p3
  Procs = {p1, p2, p3}
  Service = p1
  Stopping = {p2}
  MaxSize = 2
  MaxObjects = 3
  MaxDeaths = 1
SPECIFICATION Spec
INVARIANTS TypeOK MutualExclusion FlagExact
PROPERTY ImplementsPool
