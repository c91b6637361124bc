SPECIFICATION HSpec
CONSTANTS
  w1 = w1
  w2 = w2
  k1 = k1
  Writers = {w1, w2}
  Keys = {k1}
  Whole <- TwoGood
  Bodies <- AnyBody
  Capacity = 1
  Backends = {"disk", "storing", "early"}
  Faults = {"stream", "put", "delete", "cancel"}
INVARIANTS TypeOK NoPrefixTaken OnlyUnreadRefused CompletedIsStored CorruptIsCleared
PROPERTIES NothingHangs
