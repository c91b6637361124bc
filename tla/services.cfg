SPECIFICATION HSpec
CONSTANTS
  c1 = c1
  c2 = c2
  a1 = a1
  b1 = b1
  b2 = b2
  e = e
  Nobody = Nobody
  NoRow = NoRow
  Clients = {c1, c2}
  Keys <- AllKeys
  Bodies <- AllBodies
  Cost <- Costs
  MaxCost = 3
  MaxSize = 2
  Batch = 2
  MaxClock = 1
  Faults = {"sql", "cancel", "crash"}
  Actions <- OneAction
  Blobs <- TwoBlobs
  Empty = e
  Results <- TwoResults
  Lookups <- Digests
  Uploads <- Batches
  Streams <- Streamed
INVARIANTS TypeOK OwnResult MissingHonest LimitKept
PROPERTIES MutexReleased
