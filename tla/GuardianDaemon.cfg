SPECIFICATION Spec
CONSTANTS
  Daemons = {d}
  OneShots = {}
  InitialRollouts <- ContextFiles
  FirstPos = 6
  Incoming <- AnyLine
  MaxAppends = 2
  MaxFaults = 1
  MaxWritebacks = 0
  TokenValues = {1}
  TriggerTokens = 2
  RecoveryTokens = 1
  Preview = FALSE
  Gated = FALSE
  ShortInterval = FALSE
INVARIANTS
  NothingLost
  BackupCovers
  SecondPassSettles
