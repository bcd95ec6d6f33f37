SPECIFICATION FairSpec
CONSTANTS
  t1 = t1
  t2 = t2
  Tenants = {t1, t2}
  Slots = {s1}
  TenantOf <- LastIsForeign
  MaxTunnels = 2
  MaxSlots = 1
  MaxConns = 3
  MaxRouting = 1
  Chunks = 1
  MaxFaults = 1
  None = None
CHECK_DEADLOCK FALSE
INVARIANTS
  TypeOK
  SlotsConserved
  HandedOnce
  WholeAnswer
PROPERTIES
  ConnectionsEnd
  SlotsReturn
