SPECIFICATION FairSpec
CONSTANTS
  t1 = t1
  t2 = t2
  c2 = c2
  Tenants = {t1}
  Clients = {c1}
  BlindOnly = {c1}
  Requests = {r1}
  Polls = {h1}
  TenantOf <- OneTenant
  MaxTenants = 1
  MaxQueued = 1
  MaxInflight = 1
  Persisting = FALSE
  MaxFaults = 1
  MaxCancels = 0
  None = None
CHECK_DEADLOCK FALSE
PROPERTIES
  ReRegistered
