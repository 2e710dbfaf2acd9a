CONSTANTS
  K = {k1, k2, k3, k4}
  V = {a, b}
  None = None
  MaxSize = 3
SPECIFICATION CacheSpec
INVARIANT Agree
PROPERTY EvictsLeastRecentlyUsed
