CONSTANTS
  Cubes <- Four
  Root = 0
  None = None
  Kits <- ArmsOfUpToFour
  QueueLen = 1
SPECIFICATION FairSpec
INVARIANTS
  TypeOK
PROPERTIES
  CommandsInOrder
  Obeys
  RootKnows
  Drains
CHECK_DEADLOCK FALSE
