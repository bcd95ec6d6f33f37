SPECIFICATION Spec
CONSTANTS
  a = a
  b = b
  Connections = {a, b}
  SessionOf <- Sessions
  Schemas = {"canonical", "variant"}
  MaxExchanges = 2
  MaxWindows = 4
  MaxReports = 2
  MaxRead = 2
  Window = 1
  MaxCrashes = 1
  None = None
  Bodies <- ThreeBodies
  Lookalikes <- LikeStarts
  Blanks <- LikeBlanks
  Lengths <- LikeLengths
  Modulus = 32
  Numbers = {3, 28}
  MaxSegments = 3
CHECK_DEADLOCK FALSE
INVARIANTS
  TypeOK
  SoundWhenAligned
  ReportsBounded
  ReportedOnce
  MessagesFound
