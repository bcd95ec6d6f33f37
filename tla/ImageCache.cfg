SPECIFICATION FairSpec
CONSTANTS
  Publishers = {p1, p2}
  Threads = {g1}
  Images = {i1, i2}
  TooLarge = {i2}
  Blocks = 2
  MaxViews = 3
  MaxCrashes = 1
  None = None
CHECK_DEADLOCK FALSE
INVARIANTS
  TypeOK
  SettledWhole
  ServedWhole

  
