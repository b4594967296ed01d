SPECIFICATION Spec
CONSTANTS
  t1 = t1
  s1 = s1
  c1 = c1
  c2 = c2
  w1 = w1
  k1 = k1
  None = None
  Tenants = {t1}
  Services = {s1}
  Containers = {c1, c2}
  Workers = {w1}
  Clients = {k1}
  TenantOf <- MCTenantOf
  Ops = {"Create", "Suspend"}
  DeployTimeout = 2
  StaleAfter = 2
  MinResourceAge = 2
  MaxServices = 1
  MaxQueuedDeploys = 2
  MaxConcurrentDeploys = 2
  MaxClock = 1
  LastStart = 0
  MaxFaults = 0
  Reconciling = FALSE
  Collecting = FALSE
SYMMETRY MCSymmetry
INVARIANTS
  SuspendStopsAll
CHECK_DEADLOCK FALSE
