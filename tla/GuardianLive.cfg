SPECIFICATION FairSpec
CONSTANTS
  Daemons = {d}
  OneShots = {}
  InitialRollouts <- ContextFiles
  FirstPos = 6
  Incoming <- AlertOrSearch
  MaxAppends = 1
  MaxFaults = 2
  MaxWritebacks = 1
  TokenValues = {1, 2}
  TriggerTokens = 2
  RecoveryTokens = 1
  Preview = FALSE
  Gated = FALSE
  ShortInterval = TRUE
INVARIANT
  TypeOK
PROPERTIES
  DbConverges
  EventuallyClean
