SPECIFICATION Spec
CONSTANTS
  Conn = {c1, c2}
  Key = {1, 2}
  Slot = {s1, s2}
  CreatedAt = {1}
  MaxItems = 1
  BatchItems = 2
  MaxBatches = 2
  MaxBytes = 2
  PendingLimit = 1
  MaxInFlight = 1
  MaxCheckpoints = 1
  MaxFaults = 1
SYMMETRY Symmetry
INVARIANTS
  TypeOK
  CountedOnce
PROPERTIES
  LostOnlyAtLimits
