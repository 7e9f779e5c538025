SPECIFICATION TxSpec
CONSTANTS
  r1 = r1
  r2 = r2
  s1 = s1
  s2 = s2
  t1 = t1
  t2 = t2
  Run = {r1, r2}
  Session = {s1, s2}
  Tenant = {t1, t2}
  Worker = {w1}
  NoWorker = NoWorker
  SessionOf <- SessionOfRun
  TenantOf <- TwoTenants
  MaxQueued <- ThreeRuns
  MaxRunning <- OneRun
  Capacity <- OneSlot
  LeaseDuration = 1
  HeartbeatTTL = 1
  MaxPauses = 0
  Creator = {k1}
  Canceller = {}
  Scheduler = {d1, d2}
  Recoverer = {v1, v2}
  Commander = {m1}
SYMMETRY ClientSymmetry
INVARIANTS
  LocksHold
  WorkerNotOversold
