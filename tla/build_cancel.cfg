SPECIFICATION Spec
CONSTANTS
  b1 = b1
  k1 = k1
  t1 = t1
  None = None
  Ids = {b1}
  Tenants = {t1}
  Cancels = {k1}
  MaxQueuedBuilds = 1
  MaxConcurrentBuilds = 1
  MaxFaults = 0
  MaxRestarts = 0
  Disturbed = {b1}
PROPERTIES
  CancelledNotDeployed
CHECK_DEADLOCK FALSE
