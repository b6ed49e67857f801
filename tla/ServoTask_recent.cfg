CONSTANTS
  MinPos = 0
  MaxPos = 8000
  Start = 5000
  Targets = {2700, 5200}
  Profiles <- Coarse
  ReturnProfile <- Gentle
  Backlash = 800
  Tolerance = 100
  Deadzone = 50
  Intervals = {10}
  QueueLen = 2
  MaxCommands = 2
  OneCore = TRUE
SPECIFICATION FairSpec
PROPERTIES
  MostRecentWins
CHECK_DEADLOCK FALSE
