SPECIFICATION MCSpec
CONSTANTS
  t1 = t1
  s1 = s1
  c1 = c1
  c2 = c2
  c3 = c3
  w1 = w1
  w2 = w2
  k1 = k1
  None = None
  Tenants = {t1}
  Services = {s1}
  Containers = {c1, c2, c3}
  Workers = {w1, w2}
  Clients = {k1}
  TenantOf <- MCTenantOf
  Ops = {"Create", "Stop", "Start", "Restart", "Delete", "Reset", "Suspend", "Build"}
  DeployTimeout = 1
  StaleAfter = 1
  MinResourceAge = 1
  MaxServices = 1
  MaxQueuedDeploys = 2
  MaxConcurrentDeploys = 2
  MaxClock = 2
  LastStart = 1
  MaxFaults = 1
  Reconciling = TRUE
  Collecting = TRUE
SYMMETRY MCSymmetry
INVARIANTS
  TypeOK
  CollectedIsGarbage
  StaleIsDead
  NoSplitBrain
  RunningHasContainer
PROPERTIES
  ImplementsHosting
CHECK_DEADLOCK FALSE
