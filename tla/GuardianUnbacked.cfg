SPECIFICATION Spec
CONSTANTS
  Daemons = {d}
  OneShots = {}
  InitialRollouts <- AlertFiles
  FirstPos = 6
  Incoming <- Nothing
  MaxAppends = 0
  MaxFaults = 0
  MaxWritebacks = 0
  TokenValues = {1}
  TriggerTokens = 2
  RecoveryTokens = 1
  Preview = FALSE
  Gated = FALSE
  ShortInterval = FALSE
INVARIANTS
  RewriteBackedUp
