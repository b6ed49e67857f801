CONSTANTS
  FrameLen = 4
  Patterns <- Aliases
  BufSize = 5
  MaxLost = 3
  Silent = TRUE
SPECIFICATION FairSpec
INVARIANTS
  TypeOK
  LossIsLocal
  NoneDamaged
PROPERTIES
  Recovers
