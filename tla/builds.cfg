SPECIFICATION FairSpec
CONSTANTS
  b1 = b1
  b2 = b2
  b3 = b3
  k1 = k1
  t1 = t1
  t2 = t2
  None = None
  Ids = {b1, b2, b3}
  Tenants = {t1, t2}
  Cancels = {k1}
  MaxQueuedBuilds = 2
  MaxConcurrentBuilds = 1
  MaxFaults = 1
  MaxRestarts = 1
  Disturbed = {b1, b2}
INVARIANTS
  TypeOK
  OneBuildPerTenant
PROPERTIES
  FailedIsFinal
  BuildsSettle
CHECK_DEADLOCK FALSE
