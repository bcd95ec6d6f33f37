SPECIFICATION Spec
CONSTANTS
  p1 = p1
  p2 = p2
  s1 = s1
  s2 = s2
  s3 = s3
  o1 = o1
  t1 = t1
  t2 = t2
  Processes = {p1, p2}
  Pids = {1, 2}
  Secrets = {s1, s2, s3}
  Others = {o1}
  OtherTenants = {t1, t2}
  Requests <- AllRequests
  Tenants <- AllTenants
  MaxStarts = 3
  MaxFaults = 1
  MaxTenants = 2
  MaxDrops = 1
  MaxErrors = 2
  MaxFailures = 2
  None = None
  Broken = Broken
  Absent = Absent
CONSTRAINT FewFailures
SYMMETRY Symmetry
CHECK_DEADLOCK FALSE
INVARIANTS
  TypeOK
  OneTenant
  NoSpuriousFailure
  StoreWhole
  ConfirmedStored
PROPERTIES
  Lasting
