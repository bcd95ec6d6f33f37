SPECIFICATION FairSpec
CONSTANTS
  t1 = t1
  t2 = t2
  c2 = c2
  Tenants = {t1, t2}
  Clients = {c1, c2}
  BlindOnly = {}
  Requests = {r1}
  Polls = {h1, h2}
  TenantOf <- TwoTenants
  MaxTenants = 1
  MaxQueued = 1
  MaxInflight = 1
  Persisting = TRUE
  MaxFaults = 1
  MaxCancels = 1
  None = None
INVARIANTS
  TypeOK
PROPERTIES
  Answered
  ReRegistered
