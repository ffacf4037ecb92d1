SPECIFICATION Spec
CONSTANTS
  Config <- MCConfig
  Ref <- MCRef
  Material <- MCMaterial
  NoRef <- unset
  NoConfig = NoConfig
  cert = cert
  key = key
  unset = unset
INVARIANTS
  TypeOK
  RunsKeptConfig
  CheckPredictsRestore
  ServedAsSecured
