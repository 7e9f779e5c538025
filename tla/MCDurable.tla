------------------------------ MODULE MCDurable ------------------------------
(***************************************************************************)
(* Two components that outlive the processes and share no state, checked   *)
(* in one run: the delivery of notifications, and the ledger of the tool   *)
(* calls of a Run.  Each behaviour follows one of them while the other     *)
(* rests in its initial state.                                             *)
(***************************************************************************)
EXTENDS MCRunDelivery, MCToolLedger

VARIABLE followed

DurableInit == followed \in {"delivery", "calls"} /\ DeliveryInit /\ Init

\* A Run may end, which is no deadlock; the delivery never stops.
RunRests == followed = "calls" /\ UNCHANGED <<followed, deliveryVars, vars>>

DurableNext ==
  \/ followed = "delivery" /\ DeliveryNext /\ UNCHANGED <<followed, vars>>
  \/ followed = "calls" /\ Next /\ UNCHANGED <<followed, deliveryVars>>
  \/ RunRests

\* The fairness is that of the delivery: liveness is about the behaviours that
\* follow it, where its processes go on.
DurableSpec ==
  DurableInit /\ [][DurableNext]_<<followed, deliveryVars, vars>> /\ DeliveryFairness
=============================================================================
