CONSTANTS
  reportTask = reportTask
  handshakeTask = handshakeTask
  MaxNodes = 3
  Tasks <- TwoTasks
  MaxBusy = 2
  Scenarios <- Built
SPECIFICATION Spec
INVARIANTS
  NoLoop
CHECK_DEADLOCK FALSE
