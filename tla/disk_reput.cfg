SPECIFICATION Spec
CONSTANTS
  p1 = p1
  p2 = p2
  k1 = k1
  k2 = k2
  k3 = k3
  k4 = k4
  NoFile = NoFile
  Wrap = 64
  Procs = {p1}
  Keys = {k1}
  ACKeys = {}
  Size <- FullSize
  MaxLen = 2
  MaxSize = 0
  LruCap = 2
  Declared <- SomeLengths
  Uploaders <- AnyUploader
  Deletable = {}
  Faults = {}
  MaxCounted = 4
INVARIANTS NoDrift
