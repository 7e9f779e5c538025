-------------------------- MODULE MCWorkerProcess --------------------------
(* Instance of WorkerProcess for TLC: two assignments, each published once. *)
EXTENDS WorkerProcess

CONSTANTS a1, a2, e1, e2

MCAttemptOf == [e \in Entry |-> IF e = e2 THEN a2 ELSE a1]
=============================================================================
