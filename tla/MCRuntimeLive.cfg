SPECIFICATION FairSpec
CONSTANTS
  Config <- OneHashConfig
  Snapshot <- MCSnapshot
  NoConfig = NoConfig
  AllowStale = FALSE
  MaxFaults = 2
INVARIANTS
  RevokedStaysRevoked
PROPERTIES
  Converges
