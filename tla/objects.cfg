SPECIFICATION FairSpec
CONSTANTS
  p1 = p1
  k1 = k1
  r1 = r1
  e = e
  NoBody = NoBody
  Puts = {p1}
  Keys = {k1}
  Bodies <- AllBodies
  Size <- Sizes
  MaxSize = 4
  Claims = {0, 3}
  Threshold = 2
  Chunk = 3
  MinPart = 2
  WriterPart = 2
  Faults = {"body", "net", "cancel"}
  Readers = {r1}
  Empty = e
  Ranges <- SomeRanges
  Piece = 2
  Capacity = 1
INVARIANTS TypeOK OkMeansStored RefusedOnlyIfShort
PROPERTIES CleanEndComplete ImplementsBlobStore OrphansEnd
