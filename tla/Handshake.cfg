CONSTANTS
  u = u
  a = a
  b = b
  None = None
  Upper = u
  Cubes <- Pair
  Kits <- SwapOrOwnPower
  MaxTroubles = 2
  MaxLate = 0
SPECIFICATION FairSpec
INVARIANTS
  TypeOK
  OneOutstanding
  RootUpToDate
PROPERTIES
  DropsAreDue
  Converges
  Forgets
