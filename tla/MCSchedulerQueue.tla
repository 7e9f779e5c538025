-------------------------- MODULE MCSchedulerQueue --------------------------
(***************************************************************************)
(* Small instances of SchedulerQueue for TLC: tenant a has the Runs 1 and  *)
(* 2, tenant b the Runs 3 and 4, as far as there are so many.              *)
(***************************************************************************)
EXTENDS SchedulerQueue, TLC

CONSTANTS a, b

TenantOfRun == [r \in Run |-> IF r <= 2 THEN a ELSE b]

ByIdentityAB == [t \in Tenant |-> IF t = a THEN 1 ELSE 2]

\* Tenant a may have one Run in execution, b two.
OneForATwoForB == [t \in Tenant |-> IF t = a THEN 1 ELSE 2]

SchedulerSymmetry == Permutations(Scheduler)
=============================================================================
