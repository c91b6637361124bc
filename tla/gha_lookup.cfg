SPECIFICATION LookupSpec
CONSTANTS
  p1 = p1
  p2 = p2
  p3 = p3
  k1 = k1
  a1 = a1
  a2 = a2
  None = None
  Procs = {p1, p2, p3}
  MaxTokens = 3
  Refill = 2
  Cancels = TRUE
  Lookers = {p1}
  Keys = {k1}
  Archives = {a1, a2}
  Attempts = 4
  Faults = {"down", "refuse"}
INVARIANTS BucketBounded RateBounded LookupTypeOK LookupHonest
PROPERTIES LookupsEnd
