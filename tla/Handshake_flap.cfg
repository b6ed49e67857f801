CONSTANTS
  u = u
  a = a
  b = b
  None = None
  Upper = u
  Cubes <- Single
  Kits <- OneCube
  MaxTroubles = 0
  MaxLate = 1
SPECIFICATION FairSpec
PROPERTIES
  Converges
