SPECIFICATION Spec
CONSTANTS
  t1 = t1
  t2 = t2
  c2 = c2
  Tenants = {t1}
  Clients = {c1, c2}
  BlindOnly = {}
  Requests = {r1, r2}
  Polls = {h1, h2}
  TenantOf <- OneTenant
  MaxTenants = 1
  MaxQueued = 2
  MaxInflight = 2
  Persisting = TRUE
  MaxFaults = 1
  MaxCancels = 0
  None = None
SYMMETRY SameRequests
INVARIANTS
  OneHolder
  NoResidue
  NoLostWakeup
  DurableUnlessCut
PROPERTIES
  MailboxImplemented
