SPECIFICATION Spec
CONSTANTS
  p1 = p1
  p2 = p2
  k1 = k1
  Puts = {p1, p2}
  Versions = {"v1"}
  Keys = {k1}
  Parts = 2
  Attempts = 2
  Faults = {"busy"}
INVARIANTS CachedMeansCached
