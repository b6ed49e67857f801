CONSTANTS
  reportTask = reportTask
  handshakeTask = handshakeTask
  MaxNodes = 4
  Tasks <- OneTask
  MaxBusy = 1
  Scenarios <- Replugged
SPECIFICATION Spec
INVARIANT
  RemovalEnds
CHECK_DEADLOCK FALSE
