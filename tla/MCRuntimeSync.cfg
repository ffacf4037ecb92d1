SPECIFICATION Spec
CONSTANTS
  Config <- MCConfig
  Snapshot <- MCSnapshot
  NoConfig = NoConfig
  AllowStale = TRUE
  MaxFaults = 2
INVARIANTS
  TypeOK
  AppliedRowUnique
  StoredUsersResolve
  ConfirmedConfigDurable
  NeverBehindReported
  UsersFitConfig
