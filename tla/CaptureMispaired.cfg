SPECIFICATION Spec
CONSTANTS
  a = a
  b = b
  Connections = {a}
  SessionOf <- Sessions
  Schemas = {"canonical", "variant"}
  MaxExchanges = 4
  MaxWindows = 1
  MaxReports = 2
  MaxRead = 2
  Window = 2
  MaxCrashes = 0
  None = None
  Bodies <- ThreeBodies
  Lookalikes <- LikeStarts
  Blanks <- LikeBlanks
  Lengths <- LikeLengths
  Modulus = 32
  Numbers = {3, 28}
  MaxSegments = 3
CHECK_DEADLOCK FALSE
INVARIANTS
  SupportIsSound
