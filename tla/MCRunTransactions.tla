------------------------- MODULE MCRunTransactions -------------------------
(***************************************************************************)
(* Small instances of RunTransactions for TLC.                             *)
(***************************************************************************)
EXTENDS RunTransactions, TLC

CONSTANTS r1, r2, s1, s2, t1, t2

\* Runs other than r1 share a session; the sessions are of one tenant or two.
SessionOfRun == [r \in Run |-> IF r = r1 THEN s1 ELSE s2]
OneTenant == [s \in Session |-> t1]
TwoTenants == [s \in Session |-> IF s = s1 THEN t1 ELSE t2]

OneRun == [t \in Tenant |-> 1]
ThreeRuns == [t \in Tenant |-> 3]
OneSlot == [w \in Worker |-> 1]
TwoSlots == [w \in Worker |-> 2]

ClientSymmetry == Permutations(Scheduler) \union Permutations(Recoverer)
=============================================================================
