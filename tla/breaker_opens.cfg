SPECIFICATION Spec
CONSTANTS
  s1 = s1
  t1 = t1
  None = None
  Services = {s1}
  Tenant = t1
  TenantOf <- MCTenantOf
  RetryBackoff <- MCRetryBackoff
  Threshold = 3
  Window = 2
  MaxClock = 2
  MaxCrashes = 4
INVARIANTS
  CrashLoopOpensCircuit
CHECK_DEADLOCK FALSE
