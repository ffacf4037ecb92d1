SPECIFICATION FairSpec
CONSTANTS
  Command <- UpdateCommand
  RenameMayFail = TRUE
  MaxFaults = 2
INVARIANTS
  OneVerdict
PROPERTIES
  RequestsDrain
CHECK_DEADLOCK FALSE
