SPECIFICATION Spec
CONSTANTS
  p1 = p1
  p2 = p2
  k1 = k1
  k2 = k2
  k3 = k3
  k4 = k4
  NoFile = NoFile
  Procs = {p1, p2}
  Keys = {k1, k2}
  ACKeys = {}
  Size <- UnitSize
  MaxLen = 1
  MaxSize = 1
  LruCap = 1
  Wrap = 16
  Declared <- SomeLengths
  Uploaders <- AnyUploader
  Deletable = {k1, k2}
  Faults = {"io", "cancel", "crash"}
  MaxCounted = 1
INVARIANTS TypeOK AccountingCovers
PROPERTIES CounterNeverWraps
SYMMETRY Symmetric
