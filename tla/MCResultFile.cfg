SPECIFICATION Spec
CONSTANTS
  Command <- UpdateCommand
  RenameMayFail = FALSE
  MaxFaults = 0
PROPERTIES
  RemovedResultWasSent
CHECK_DEADLOCK FALSE
