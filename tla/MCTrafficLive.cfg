SPECIFICATION FairSpec
CONSTANTS
  Chunk = {c1, c2}
  Slot = {s1, s2}
  CreatedAt = {1, 2}
  PendingLimit = 1
  MaxInFlight = 1
  MaxFaults = 1
PROPERTIES
  DurableEventuallyBilled
