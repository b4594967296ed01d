SPECIFICATION FairSpec
CONSTANTS
  t1 = t1
  s1 = s1
  c1 = c1
  w1 = w1
  k1 = k1
  None = None
  Tenants = {t1}
  Services = {s1}
  Containers = {c1}
  Workers = {w1}
  Clients = {k1}
  TenantOf <- MCTenantOf
  Ops = {"Create", "Delete"}
  DeployTimeout = 1
  StaleAfter = 1
  MinResourceAge = 1
  MaxServices = 1
  MaxQueuedDeploys = 2
  MaxConcurrentDeploys = 2
  MaxClock = 3
  LastStart = 0
  MaxFaults = 1
  Reconciling = TRUE
  Collecting = TRUE
PROPERTIES
  OrphansCollected
  DeploySettles
  GhostDetected
CHECK_DEADLOCK FALSE
