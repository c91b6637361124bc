SPECIFICATION Spec
CONSTANTS
  p1 = p1
  p2 = p2
  k1 = k1
  k2 = k2
  k3 = k3
  k4 = k4
  NoFile = NoFile
  Wrap = 64
  Procs = {p1, p2}
  Keys = {k1, k2, k3, k4}
  ACKeys = {}
  Size <- FullSize
  MaxLen = 1
  MaxSize = 1
  LruCap = 4
  Declared <- SomeLengths
  Uploaders <- AnyUploader
  Deletable = {}
  Faults = {}
  MaxCounted = 3
INVARIANTS Tracked DiskUsageBounded
SYMMETRY Symmetric
