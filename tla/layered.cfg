SPECIFICATION HSpec
CONSTANTS
  h1 = h1
  h2 = h2
  k1 = k1
  Handlers = {h1, h2}
  Keys = {k1}
  Oversized = {k1}
  Capacity = 2
  Bodies = {"whole", "corrupt"}
  Ops <- AllOps
  SizeKnown = {TRUE, FALSE}
  Verify1 = TRUE
  Verify2 = FALSE
  DeletesL2 = TRUE
  Faults = {"l1get", "l1put", "l2get", "l2read", "l2put", "delete", "evict1", "evict2", "cancel", "restart"}
INVARIANTS TypeOK NothingCorrupt NoFalseMiss QuietDeleteSticks
PROPERTIES QueueServed
