---------------------------- MODULE RunLifecycle ----------------------------
(***************************************************************************)
(* What the run control plane promises the client of a Run, without        *)
(* Attempts, leases, Workers or messages: the Run is executed, may wait    *)
(* for a human, is restarted by the system at most once, has one outcome,  *)
(* and a cancellation that was accepted during an execution takes effect.  *)
(***************************************************************************)
EXTENDS Naturals

CONSTANT Run

VARIABLES
  phase,    \* where the client sees the Run
  restarts  \* restarts by the system, as opposed to resumes by a human

vars == <<phase, restarts>>

Phase == {"absent", "pending", "executing", "waiting", "stopping",
          "completed", "failed", "cancelled"}

Init ==
  /\ phase = [r \in Run |-> "absent"]
  /\ restarts = [r \in Run |-> 0]

Move(r, from, to) ==
  /\ phase[r] = from
  /\ phase' = [phase EXCEPT ![r] = to]

Accept(r) == Move(r, "absent", "pending") /\ UNCHANGED restarts

Dispatch(r) == Move(r, "pending", "executing") /\ UNCHANGED restarts

Restart(r) ==
  /\ Move(r, "executing", "pending")
  /\ restarts[r] = 0
  /\ restarts' = [restarts EXCEPT ![r] = 1]

Suspend(r) == Move(r, "executing", "waiting") /\ UNCHANGED restarts

Resume(r) == Move(r, "waiting", "pending") /\ UNCHANGED restarts

Decide(r) ==
  /\ \E outcome \in {"completed", "failed"} : Move(r, "executing", outcome)
  /\ UNCHANGED restarts

Cancel(r) ==
  /\ \/ Move(r, "pending", "cancelled")
     \/ Move(r, "waiting", "cancelled")
     \/ Move(r, "executing", "stopping")
  /\ UNCHANGED restarts

Stop(r) == Move(r, "stopping", "cancelled") /\ UNCHANGED restarts

RunStep(r) ==
  \/ Accept(r) \/ Dispatch(r) \/ Restart(r) \/ Suspend(r) \/ Resume(r)
  \/ Decide(r) \/ Cancel(r) \/ Stop(r)

Next == \E r \in Run : RunStep(r)

Spec == Init /\ [][Next]_vars /\ \A r \in Run : WF_vars(Stop(r))
=============================================================================
