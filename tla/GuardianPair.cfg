SPECIFICATION Spec
CONSTANTS
  Daemons = {}
  OneShots = {o1, o2}
  InitialRollouts <- MisformedFiles
  FirstPos = 6
  Incoming <- JustItem
  MaxAppends = 1
  MaxFaults = 0
  MaxWritebacks = 0
  TokenValues = {1}
  TriggerTokens = 2
  RecoveryTokens = 1
  Preview = TRUE
  Gated = TRUE
  ShortInterval = FALSE
SYMMETRY SameRuns
INVARIANTS
  NoInvention
  ErrorKeptUntilSound
