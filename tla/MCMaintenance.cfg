SPECIFICATION Spec
CONSTANTS
  Command <- MCCommand
  RenameMayFail = FALSE
  MaxFaults = 2
INVARIANTS
  TypeOK
  OneVerdict
  SucceededNotLost
  OneBinaryLeft
CHECK_DEADLOCK FALSE
