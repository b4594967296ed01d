SPECIFICATION FairSpec
CONSTANTS
  d1 = d1
  d2 = d2
  k1 = k1
  t1 = t1
  None = None
  Dbs = {d1, d2}
  Deleters = {k1}
  Tenant = t1
  TenantOf <- MCTenantOf
  Ports = {1, 2}
  MaxPortRetries = 2
  MaxDatabases = 2
  RequestTimeout = 1
  MinResourceAge = 1
  MaxClock = 2
  MaxFaults = 2
  Disturbed = {d1}
INVARIANTS
  TypeOK
  DeletedIsClean
  CollectedBoxIsGarbage
  RacingCreatesSucceed
PROPERTIES
  ReadyVolumeKept
  LostDatabaseDetected
  LostContainerCollected
CHECK_DEADLOCK FALSE
