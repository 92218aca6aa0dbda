SPECIFICATION FairCacheSpec
CONSTANTS
  k1 = k1
  k2 = k2
  k3 = k3
  a1 = a1
  a2 = a2
  x1 = x1
  x2 = x2
  WeightOf <- Weights
  MaxWeightBytes = 2
  MaxEntries = 2
  MaxConcurrentLoads = 1
  MaxQueuedLoads = 1
  Keys = {k1, k2, k3}
  Callers = {a1, a2}
  Closes = {x1, x2}
  MaxLoads = 2
INVARIANTS CacheInvariant NothingLeaked
PROPERTIES CallsReturn
CHECK_DEADLOCK FALSE
