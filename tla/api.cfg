SPECIFICATION Spec
CONSTANTS
  t1 = t1
  t2 = t2
  t3 = t3
  k1 = k1
  k2 = k2
  k3 = k3
  q1 = q1
  q2 = q2
  a1 = a1
  a2 = a2
  m1 = m1
  x1 = x1
  x2 = x2
  None = None
  Tenants = {t1, t2, t3}
  Keys = {k1, k2, k3}
  Reqs = {q1, q2}
  IPs = {a1, a2}
  Marks = {m1}
  Bodies = {x1, x2}
  Lifetimes = {1}
  Mixes = {{"RevokeKey", "DeleteTenant"}, {"Post"}, {"DeleteTenant", "CreateKey"}, {"Register"}}
  AuthTTL = 1
  CacheMax = 1
  MaxKeys = 2
  MaxTenants = 2
  IdemTTL = 1
  IdemMax = 1
  IdemPerTenant = 1
  RegWindow = 1
  RegGlobal = 2
  RegPerIP = 2
  RegMaxEntries = 2
  MaxClock = 2
  MaxRestarts = 1
SYMMETRY MCSymmetry
INVARIANTS
  TypeOK
  StaleEntryRaced
  AnsweredNotRepeated
  QuotaOvershoot
  RegistrationBurst
CHECK_DEADLOCK FALSE
