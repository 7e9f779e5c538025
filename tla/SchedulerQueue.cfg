SPECIFICATION FairSpec
CONSTANTS
  a = a
  b = b
  Run = {1, 2, 3}
  Tenant = {a, b}
  TenantOf <- TenantOfRun
  ByIdentity <- ByIdentityAB
  Scheduler = {s1}
  Nothing = Nothing
  MaxRunning <- OneForATwoForB
  Slots = 1
  Boost = 1
  MaxAge = 2
  MaxDisturbances = 1
INVARIANT
  RoundRobin
PROPERTY
  NobodyStarves
