CONSTANTS
  MinPos = 0
  MaxPos = 8000
  Start = 5000
  Targets = {700, 2700, 5200}
  Profiles <- Coarse
  ReturnProfile <- Gentle
  Backlash = 800
  Tolerance = 100
  Deadzone = 50
  Intervals = {10}
  QueueLen = 2
  MaxCommands = 4
  OneCore = FALSE
SPECIFICATION FairSpec
INVARIANTS
  TypeOK
  AckedOnce
PROPERTIES
  Rests
  NoGoingBack
  Settles
  TicksAreSmall
CHECK_DEADLOCK FALSE
