CONSTANTS
  reportTask = reportTask
  handshakeTask = handshakeTask
  MaxNodes = 3
  Tasks <- OneTask
  MaxBusy = 1
  Scenarios <- Dropped
SPECIFICATION Spec
INVARIANTS
  ArmKnown
CHECK_DEADLOCK FALSE
