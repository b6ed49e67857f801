CONSTANTS
  reportTask = reportTask
  handshakeTask = handshakeTask
  MaxNodes = 4
  Tasks <- OneTask
  MaxBusy = 1
  Scenarios <- BuiltOrSwapped
SPECIFICATION Spec
INVARIANTS
  TypeOK
  NoLoop
  ChainOK
  ArmKnown
CHECK_DEADLOCK FALSE
