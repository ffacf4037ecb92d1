SPECIFICATION Spec
CONSTANTS
  Chunk = {c1, c2}
  Slot = {s1, s2}
  CreatedAt = {1, 2}
  PendingLimit = 1
  MaxInFlight = 2
  MaxFaults = 2
SYMMETRY Symmetry
INVARIANTS
  TypeOK
  ChunkAtOnePlace
  NoDoubleCredit
  SequenceNamesBatch
PROPERTIES
  DeletedOnlyIfCredited
  ImplementsLedger
