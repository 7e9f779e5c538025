--------------------------- MODULE MCRunDelivery ---------------------------
(***************************************************************************)
(* Small instances of RunDelivery for TLC.                                 *)
(***************************************************************************)
EXTENDS RunDelivery

CONSTANTS wake, toWorker, toScheduler

\* All assignments go to one Worker, wake-ups to the Scheduler.
StreamOfItem == [i \in Item |-> IF i = wake THEN toScheduler ELSE toWorker]
=============================================================================
