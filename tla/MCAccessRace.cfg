SPECIFICATION Spec
CONSTANTS
  Conn = {c1}
  Key = {1}
  Slot = {s1, s2}
  CreatedAt = {1}
  MaxItems = 2
  BatchItems = 1
  MaxBatches = 1
  MaxBytes = 1
  PendingLimit = 1
  MaxInFlight = 1
  MaxCheckpoints = 1
  MaxFaults = 0
INVARIANTS
  CollectedItemsValid
