---------------------------- MODULE MCRunControl ----------------------------
(***************************************************************************)
(* Small instances of RunControl for TLC.                                  *)
(***************************************************************************)
EXTENDS RunControl, TLC

CONSTANTS s1, t1

OneSession == [r \in Run |-> s1]
OneTenant == [s \in Session |-> t1]

OneRun == [t \in Tenant |-> 1]
OneSlot == [w \in Worker |-> 1]

=============================================================================
