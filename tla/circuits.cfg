SPECIFICATION FairSpec
CONSTANTS
  t1 = t1
  s1 = s1
  c1 = c1
  c2 = c2
  w1 = w1
  k1 = k1
  None = None
  Tenants = {t1}
  Services = {s1}
  Containers = {c1, c2}
  Workers = {w1}
  Clients = {k1}
  TenantOf <- MCTenantOf
  Ops = {"Build"}
  DeployTimeout = 1
  StaleAfter = 1
  MinResourceAge = 1
  MaxServices = 1
  MaxQueuedDeploys = 2
  MaxConcurrentDeploys = 2
  MaxClock = 0
  LastStart = 0
  MaxFaults = 2
  Reconciling = TRUE
  Collecting = FALSE
PROPERTIES
  CircuitRecovers
CHECK_DEADLOCK FALSE
