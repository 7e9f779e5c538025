SPECIFICATION TxSpec
CONSTANTS
  r1 = r1
  r2 = r2
  s1 = s1
  s2 = s2
  t1 = t1
  t2 = t2
  Run = {r1}
  Session = {s1, s2}
  Tenant = {t1}
  Worker = {w1}
  NoWorker = NoWorker
  SessionOf <- SessionOfRun
  TenantOf <- OneTenant
  MaxQueued <- OneRun
  MaxRunning <- OneRun
  Capacity <- OneSlot
  LeaseDuration = 1
  HeartbeatTTL = 1
  MaxPauses = 1
  Creator = {k1, k2}
  Canceller = {c1}
  Scheduler = {d1}
  Recoverer = {v1}
  Commander = {m1, m2}
INVARIANT
  LocksHold
PROPERTY
  Serializable
