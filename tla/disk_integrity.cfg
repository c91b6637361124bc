SPECIFICATION FairSpec
CONSTANTS
  p1 = p1
  p2 = p2
  k1 = k1
  k2 = k2
  k3 = k3
  k4 = k4
  NoFile = NoFile
  Wrap = 64
  Procs = {p1, p2}
  Keys = {k1, k2}
  ACKeys = {k1}
  Size <- MixedSize
  MaxLen = 2
  MaxSize = 2
  LruCap = 2
  Declared <- SomeLengths
  Uploaders <- OneUploader
  Deletable = {k2}
  Faults = {"io", "cancel", "crash"}
  MaxCounted = 2
INVARIANTS FilesVerified
PROPERTIES AloneReturns
