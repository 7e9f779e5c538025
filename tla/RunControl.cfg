SPECIFICATION FairSpec
CONSTANTS
  s1 = s1
  t1 = t1
  Run = {r1}
  Session = {s1}
  Tenant = {t1}
  Worker = {w1, w2}
  NoWorker = NoWorker
  SessionOf <- OneSession
  TenantOf <- OneTenant
  MaxQueued <- OneRun
  MaxRunning <- OneRun
  Capacity <- OneSlot
  LeaseDuration = 2
  HeartbeatTTL = 1
  MaxPauses = 1
INVARIANTS
  TablesAgree
PROPERTIES
  CancelIsFinal
  OnlyLeaseHolderDecides
  ImplementsLifecycle
  CancelTakesEffect
  StrandedAttemptsResolve
