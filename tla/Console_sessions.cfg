CONSTANTS
  MaxNodes = 3
  Arms <- SomeArms
  MaxServos = 2
  ServoQueueLen = 1
  Typed <- SomeNumbers
  MaxSessions = 2
  MaxLines = 2
  MaxChanges = 1
  MaxBreaks = 1
SPECIFICATION FairSpec
INVARIANTS
  TypeOK
  OneAnswerEach
  AckIsForStep
  NumberKnown
PROPERTIES
  SentToArm
  Greeted
CHECK_DEADLOCK FALSE
