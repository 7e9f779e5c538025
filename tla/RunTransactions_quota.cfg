SPECIFICATION TxSpec
CONSTANTS
  r1 = r1
  r2 = r2
  s1 = s1
  s2 = s2
  t1 = t1
  t2 = t2
  Run = {r1, r2, r3}
  Session = {s1, s2}
  Tenant = {t1}
  Worker = {w1}
  NoWorker = NoWorker
  SessionOf <- SessionOfRun
  TenantOf <- OneTenant
  MaxQueued <- ThreeRuns
  MaxRunning <- OneRun
  Capacity <- TwoSlots
  LeaseDuration = 1
  HeartbeatTTL = 1
  MaxPauses = 1
  Creator = {k1}
  Canceller = {}
  Scheduler = {d1, d2}
  Recoverer = {}
  Commander = {m1}
SYMMETRY ClientSymmetry
INVARIANTS
  OneActiveRunPerSession
PROPERTY
  Serializable
