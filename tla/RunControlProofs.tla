-------------------------- MODULE RunControlProofs --------------------------
(***************************************************************************)
(* Proofs about RunControl, for any finite set of Runs, any Sessions,      *)
(* Tenants and Workers and any value of the quotas, leases and bounds.     *)
(*                                                                         *)
(* The inductive invariant is Facts, the conjunction of the invariants     *)
(* RunControl states and of ExecutorsAlive.  AttemptsPaidFor keeps attempt *)
(* numbers below the bound of the type invariant; AttemptMatchesRun says   *)
(* that a live Attempt is the newest of its Run, so the status one guard   *)
(* reads in one table determines the other; the rest follow from those.    *)
(***************************************************************************)
EXTENDS RunControl, FiniteSetTheorems, TLAPS

\* What is in memory is in the memory of a process that lives, and an Attempt
\* that exists belongs to a Worker.
ExecutorsAlive ==
  /\ \A a \in Attempt : attStatus[a] # "absent" => attWorker[a] \in Worker
  /\ \A e \in executing :
       /\ attWorker[e[1]] \in Worker
       /\ process[attWorker[e[1]]] \in {"up", "draining"}

Facts ==
  /\ TypeOK
  /\ AttemptsPaidFor
  /\ AttemptMatchesRun
  /\ ClaimFence
  /\ OutboxMatchesFacts
  /\ PauseMatchesStatus
  /\ OneActiveRunPerSession
  /\ ExecutorsAlive
  /\ TenantWithinQuota
  /\ WorkerNotOversold

-----------------------------------------------------------------------------
(* The lemmas about steps are about AnyStep, which takes in the admission  *)
(* of a Run whose tenant has meanwhile filled its quota of queued Runs:    *)
(* RunTransactionsProofs needs them for it, and none reads that quota.     *)

\* CreateRun without its look at tenants.max_queued_runs.
Admit(r) ==
  /\ runStatus[r] = "absent"
  /\ OtherActiveRun(r) = {}
  /\ Insert(r)

AnyStep == Next \/ \E r \in Run : Admit(r)

\* A Run that is created is admitted.
LEMMA CreatedIsAdmitted == [Next]_vars => [AnyStep]_vars
  BY DEF AnyStep

-----------------------------------------------------------------------------
(* Shapes.                                                                 *)

\* An Attempt is a Run and a number.
LEMMA AttemptShape ==
  ASSUME NEW a \in Attempt
  PROVE  /\ RunOf(a) \in Run
         /\ a[2] \in 1 .. MaxAttempts
         /\ a = <<RunOf(a), a[2]>>
  BY DEF Attempt, RunOf

\* The steps that touch no Run, no status of an Attempt and no outbox row.
BackgroundStep ==
  \/ \E a \in Attempt, k \in Nat : Renew(a, k) \/ Abandon(a, k)
  \/ ProcessStep
  \/ Tick
  \/ UNCHANGED vars

\* They do leave those alone.
LEMMA BackgroundFrame ==
  ASSUME BackgroundStep
  PROVE  /\ UNCHANGED <<runStatus, retryCount, attemptNo, pauseNo, pause>>
         /\ UNCHANGED <<attStatus, attWorker, token, issued>>
         /\ UNCHANGED <<assignedMsg, cancelMsg>>
  BY DEF BackgroundStep, Renew, Abandon, ProcessStep, Register, Heartbeat,
         Drain, Stop, Crash, Tick, vars, runVars, attemptVars, outboxVars

\* Every step is one of ten commands, with its actors named, or background.
LEMMA StepCases ==
  ASSUME TypeOK, [AnyStep]_vars
  PROVE  \/ \E r \in Run : Admit(r) \/ CancelRun(r) \/ ResumeRun(r)
         \/ \E r \in Run, w \in Worker : Schedule(r, w)
         \/ \E a \in Attempt : Recover(a) \/ Claim(a)
         \/ \E a \in Attempt, k \in Nat :
              \/ Complete(a, k) \/ Fail(a, k)
              \/ \E type \in {"approval", "input"} : Pause(a, k, type)
              \/ AcknowledgeCancel(a, k)
         \/ BackgroundStep
<1>1. ASSUME NEW e \in executing
      PROVE  e[1] \in Attempt /\ e[2] \in Nat
  BY DEF TypeOK
<1> QED
  BY <1>1 DEF AnyStep, Next, ApiStep, SchedulerStep, CommandStep, Finish,
         BackgroundStep, CreateRun, Admit

\* A live Attempt is the newest one of its Run.
LEMMA LiveIsLatest ==
  ASSUME TypeOK, AttemptMatchesRun, NEW a \in Attempt,
         attStatus[a] \in ActiveAttempt
  PROVE  /\ a = Latest(RunOf(a))
         /\ a[2] = attemptNo[RunOf(a)]
         /\ attStatus[a] \in AttemptStatusFor[runStatus[RunOf(a)]]
<1>1. /\ RunOf(a) \in Run
      /\ a[2] \in 1 .. MaxAttempts
      /\ a = <<RunOf(a), a[2]>>
  BY AttemptShape
<1>2. a[2] = attemptNo[RunOf(a)]
  <2>1. /\ a[2] < attemptNo[RunOf(a)] => attStatus[a] \in {"lost", "paused"}
        /\ a[2] > attemptNo[RunOf(a)] => attStatus[a] = "absent"
    BY <1>1 DEF AttemptMatchesRun
  <2>2. a[2] \in Nat /\ attemptNo[RunOf(a)] \in Nat
    BY <1>1, ConstantsAssumption DEF TypeOK, MaxAttempts
  <2> QED BY <2>1, <2>2 DEF ActiveAttempt
<1> QED
  BY <1>1, <1>2 DEF AttemptMatchesRun, NeverStarted, Latest

\* Recovery ends the Attempt and moves the Run to a status that fits.
LEMMA RecoverOutcome ==
  ASSUME NEW a \in Attempt, Recover(a)
  PROVE  \E s \in AttemptStatus, q \in RunStatus :
           /\ s \in AttemptStatusFor[q]
           /\ FinishAttempt(a, s)
           /\ Transition(RunOf(a), q)
<1>1. CASE RecoveryCancels(a)
  <2>1. "cancelled" \in AttemptStatusFor["cancelled"]
    BY DEF AttemptStatusFor
  <2> QED BY <1>1, <2>1 DEF RecoveryCancels, AttemptStatus, RunStatus
<1>2. CASE RecoveryRetries(a)
  <2>1. "lost" \in AttemptStatusFor["queued"]
    BY DEF AttemptStatusFor
  <2> QED BY <1>2, <2>1 DEF RecoveryRetries, AttemptStatus, RunStatus
<1>3. CASE RecoveryFails(a)
  <2>1. "lost" \in AttemptStatusFor["failed"]
    BY DEF AttemptStatusFor
  <2> QED BY <1>3, <2>1 DEF RecoveryFails, AttemptStatus, RunStatus
<1> QED BY <1>1, <1>2, <1>3 DEF Recover

-----------------------------------------------------------------------------
(* Each part of the invariant is kept by each action.                      *)

\* Every step keeps the books: an Attempt for every execution paid for.
LEMMA AttemptsPaidForStep ==
  ASSUME TypeOK, AttemptsPaidFor, [AnyStep]_vars
  PROVE  AttemptsPaidFor'
<1> USE DEF TypeOK, AttemptsPaidFor, Waiting
<1>1. ASSUME NEW r \in Run, Admit(r)
      PROVE  AttemptsPaidFor'
  BY <1>1 DEF Admit, Insert, Transition
<1>2. ASSUME NEW r \in Run, CancelRun(r)
      PROVE  AttemptsPaidFor'
  BY <1>2 DEF CancelRun, Transition
<1>3. ASSUME NEW r \in Run, ResumeRun(r)
      PROVE  AttemptsPaidFor'
  BY <1>3 DEF ResumeRun, Transition
<1>4. ASSUME NEW r \in Run, NEW w \in Worker, Schedule(r, w)
      PROVE  AttemptsPaidFor'
  BY <1>4 DEF Schedule, Assign, Transition
<1>5. ASSUME NEW a \in Attempt, Recover(a)
      PROVE  AttemptsPaidFor'
  <2>1. CASE runStatus[RunOf(a)] = "cancel_requested"
    BY <1>5, <2>1, AttemptShape
    DEF Recover, Recoverable, RecoveryCancels, Transition
  <2>2. CASE /\ runStatus[RunOf(a)] # "cancel_requested"
             /\ retryCount[RunOf(a)] < 1
    BY <1>5, <2>2, AttemptShape
    DEF Recover, Recoverable, RecoveryRetries, Transition
  <2>3. CASE /\ runStatus[RunOf(a)] # "cancel_requested"
             /\ ~(retryCount[RunOf(a)] < 1)
    BY <1>5, <2>3, AttemptShape
    DEF Recover, Recoverable, RecoveryFails, Transition
  <2> QED BY <2>1, <2>2, <2>3 DEF TypeOK
<1>6. ASSUME NEW a \in Attempt, Claim(a)
      PROVE  AttemptsPaidFor'
  BY <1>6, AttemptShape DEF Claim, Transition
<1>7. ASSUME NEW a \in Attempt, NEW k \in Nat, Complete(a, k)
      PROVE  AttemptsPaidFor'
  BY <1>7, AttemptShape DEF Complete, Authoritative, Transition
<1>8. ASSUME NEW a \in Attempt, NEW k \in Nat, Fail(a, k)
      PROVE  AttemptsPaidFor'
  BY <1>8, AttemptShape DEF Fail, Authoritative, Transition
<1>9. ASSUME NEW a \in Attempt, NEW k \in Nat,
             NEW type \in {"approval", "input"},
             Pause(a, k, type)
      PROVE  AttemptsPaidFor'
  <2>1. CASE type = "approval"
    BY <1>9, <2>1, AttemptShape DEF Pause, Authoritative, Transition
  <2>2. CASE type = "input"
    BY <1>9, <2>2, AttemptShape DEF Pause, Authoritative, Transition
  <2> QED BY <2>1, <2>2
<1>10. ASSUME NEW a \in Attempt, NEW k \in Nat, AcknowledgeCancel(a, k)
      PROVE  AttemptsPaidFor'
  BY <1>10, AttemptShape DEF AcknowledgeCancel, Authoritative, Transition
<1>11. CASE BackgroundStep
  BY <1>11, BackgroundFrame
<1> QED
  BY <1>1, <1>2, <1>3, <1>4, <1>5, <1>6, <1>7, <1>8, <1>9, <1>10, <1>11,
     StepCases

\* Every step keeps the rows typed; the books bound the attempt numbers.
LEMMA TypeStep ==
  ASSUME TypeOK, AttemptsPaidFor, [AnyStep]_vars
  PROVE  TypeOK'
<1> USE DEF TypeOK, RunStatus, AttemptStatus
<1>1. ASSUME NEW r \in Run, Admit(r)
      PROVE  TypeOK'
  BY <1>1, ConstantsAssumption DEF Admit, Insert, Transition, attemptVars,
         outboxVars, workerVars
<1>2. ASSUME NEW r \in Run, CancelRun(r)
      PROVE  TypeOK'
  BY <1>2, ConstantsAssumption DEF CancelRun, Transition, attemptVars,
         workerVars
<1>3. ASSUME NEW r \in Run, ResumeRun(r)
      PROVE  TypeOK'
  BY <1>3, ConstantsAssumption DEF ResumeRun, Transition, attemptVars,
         outboxVars, workerVars
<1>4. ASSUME NEW r \in Run, NEW w \in Worker, Schedule(r, w)
      PROVE  TypeOK'
  <2> DEFINE a == <<r, attemptNo[r] + 1>>
  <2>1. attemptNo[r] + 1 \in 1 .. MaxAttempts
    BY <1>4, ConstantsAssumption DEF Schedule, Assign, AttemptsPaidFor, MaxAttempts
  <2>2. a \in Attempt
    BY <2>1 DEF Attempt
  <2> QED
    BY <1>4, <2>1, <2>2, ConstantsAssumption
    DEF Schedule, Assign, Transition, workerVars
<1>5. ASSUME NEW a \in Attempt, Recover(a)
      PROVE  TypeOK'
  <2>1. PICK s \in AttemptStatus, q \in RunStatus :
          FinishAttempt(a, s) /\ Transition(RunOf(a), q)
    BY <1>5, RecoverOutcome
  <2>2. retryCount' \in [Run -> 0 .. 1]
    BY <1>5, AttemptShape
    DEF Recover, RecoveryCancels, RecoveryRetries, RecoveryFails
  <2>3. cancelMsg' \in [Run -> {"none", "pending", "acked"}]
    BY <1>5, AttemptShape
    DEF Recover, RecoveryCancels, RecoveryRetries, RecoveryFails, Acked
  <2>4. assignedMsg' \in [Attempt -> {"none", "pending", "acked"}]
    BY <1>5 DEF Recover, Acked
  <2>5. runStatus' \in [Run -> RunStatus]
    BY <2>1 DEF Transition
  <2>6. /\ attStatus' \in [Attempt -> AttemptStatus]
        /\ token' \in [Attempt -> Nat]
        /\ lease' \in [Attempt -> 0 .. LeaseDuration]
        /\ UNCHANGED <<attWorker, issued>>
    BY <2>1, ConstantsAssumption DEF FinishAttempt
  <2> QED
    BY <1>5, <2>2, <2>3, <2>4, <2>5, <2>6 DEF Recover, workerVars
<1>6. ASSUME NEW a \in Attempt, Claim(a)
      PROVE  TypeOK'
  BY <1>6, AttemptShape, ConstantsAssumption DEF Claim, Transition,
         workerVars, Acked
<1>7. ASSUME NEW a \in Attempt, NEW k \in Nat, Complete(a, k)
      PROVE  TypeOK'
  BY <1>7, AttemptShape, ConstantsAssumption DEF Complete, Authoritative,
         Transition, FinishAttempt, outboxVars, workerVars
<1>8. ASSUME NEW a \in Attempt, NEW k \in Nat, Fail(a, k)
      PROVE  TypeOK'
  BY <1>8, AttemptShape, ConstantsAssumption DEF Fail, Authoritative,
         Transition, FinishAttempt, outboxVars, workerVars
<1>9. ASSUME NEW a \in Attempt, NEW k \in Nat,
             NEW type \in {"approval", "input"},
             Pause(a, k, type)
      PROVE  TypeOK'
  <2>1. PICK q \in RunStatus : runStatus' = [runStatus EXCEPT ![RunOf(a)] = q]
    BY <1>9 DEF Pause, Transition
  <2>2. runStatus' \in [Run -> RunStatus]
    BY <2>1
  <2>3. /\ attStatus' \in [Attempt -> AttemptStatus]
        /\ token' \in [Attempt -> Nat]
        /\ lease' \in [Attempt -> 0 .. LeaseDuration]
        /\ UNCHANGED <<attWorker, issued>>
    BY <1>9, ConstantsAssumption DEF Pause, FinishAttempt
  <2>4. pauseNo' \in [Run -> 0 .. MaxPauses]
    <3>1. pauseNo[RunOf(a)] + 1 \in 0 .. MaxPauses
      BY <1>9, AttemptShape, ConstantsAssumption DEF Pause
    <3> QED BY <1>9, <3>1 DEF Pause
  <2>5. pause' \in [Run -> {"none", "approval", "input", "resolved"}]
    BY <1>9 DEF Pause
  <2>6. executing' \subseteq Attempt \X Nat
    BY <1>9 DEF Pause
  <2> QED
    BY <1>9, <2>2, <2>3, <2>4, <2>5, <2>6 DEF Pause, outboxVars, workerVars
<1>10. ASSUME NEW a \in Attempt, NEW k \in Nat, AcknowledgeCancel(a, k)
      PROVE  TypeOK'
  BY <1>10, AttemptShape, ConstantsAssumption DEF AcknowledgeCancel,
         Authoritative, Transition, FinishAttempt, workerVars, Acked
<1>11. CASE BackgroundStep
  <2>1. ASSUME NEW a \in Attempt, NEW k \in Nat, Renew(a, k)
        PROVE  TypeOK'
    BY <2>1, ConstantsAssumption DEF Renew, runVars, outboxVars, workerVars
  <2>2. ASSUME NEW a \in Attempt, NEW k \in Nat, Abandon(a, k)
        PROVE  TypeOK'
    BY <2>2 DEF Abandon, runVars, attemptVars, outboxVars, workerVars
  <2>3. CASE ProcessStep
    <3>1. ASSUME NEW w \in Worker, Register(w) \/ Heartbeat(w)
          PROVE  TypeOK'
      BY <3>1, ConstantsAssumption
      DEF Register, Heartbeat, runVars, attemptVars, outboxVars
    <3>2. ASSUME NEW w \in Worker, Drain(w) \/ Stop(w) \/ Crash(w)
          PROVE  TypeOK'
      BY <3>2 DEF Drain, Stop, Crash, runVars, attemptVars, outboxVars
    <3> QED BY <2>3, <3>1, <3>2 DEF ProcessStep
  <2>4. CASE Tick
    <3>1. lease' \in [Attempt -> 0 .. LeaseDuration]
      BY <2>4, ConstantsAssumption DEF Tick
    <3>2. heartbeat' \in [Worker -> 0 .. HeartbeatTTL]
      BY <2>4, ConstantsAssumption DEF Tick
    <3> QED
      BY <2>4, <3>1, <3>2 DEF Tick, runVars, outboxVars
  <2>5. CASE UNCHANGED vars
    BY <2>5 DEF vars, runVars, attemptVars, outboxVars, workerVars
  <2> QED
    BY <1>11, <2>1, <2>2, <2>3, <2>4, <2>5 DEF BackgroundStep
<1> QED
  BY <1>1, <1>2, <1>3, <1>4, <1>5, <1>6, <1>7, <1>8, <1>9, <1>10, <1>11,
     StepCases

\* Changing the status of a live Attempt and of its Run together, as every
\* command does, keeps the two tables in step.
LEMMA MovingTogether ==
  ASSUME TypeOK, AttemptMatchesRun, NEW a \in Attempt,
         attStatus[a] \in ActiveAttempt,
         NEW q \in RunStatus, NEW s \in AttemptStatusFor[q],
         runStatus' = [runStatus EXCEPT ![RunOf(a)] = q],
         attStatus' = [attStatus EXCEPT ![a] = s],
         UNCHANGED attemptNo
  PROVE  AttemptMatchesRun'
<1>1. /\ RunOf(a) \in Run
      /\ a[2] \in 1 .. MaxAttempts
      /\ a = <<RunOf(a), a[2]>>
      /\ a = Latest(RunOf(a))
      /\ a[2] = attemptNo[RunOf(a)]
  BY AttemptShape, LiveIsLatest
<1>2. ASSUME NEW r \in Run, r # RunOf(a)
      PROVE  \A n : attStatus'[<<r, n>>] = attStatus[<<r, n>>]
  BY <1>1, <1>2 DEF TypeOK
<1>3. ASSUME NEW n \in 1 .. MaxAttempts, n # a[2]
      PROVE  attStatus'[<<RunOf(a), n>>] = attStatus[<<RunOf(a), n>>]
  BY <1>1, <1>3 DEF TypeOK
<1>4. ASSUME NEW r \in Run, r # RunOf(a)
      PROVE  (/\ NeverStarted(r) \/ attStatus[Latest(r)] \in AttemptStatusFor[runStatus[r]]
              /\ \A n \in 1 .. MaxAttempts :
                   /\ n < attemptNo[r] => attStatus[<<r, n>>] \in {"lost", "paused"}
                   /\ n > attemptNo[r] => attStatus[<<r, n>>] = "absent")'
  BY <1>2, <1>4 DEF AttemptMatchesRun, NeverStarted, Latest, TypeOK
<1>5. attStatus'[Latest(RunOf(a))] \in AttemptStatusFor[runStatus'[RunOf(a)]]
  BY <1>1 DEF TypeOK
<1>6. ASSUME NEW n \in 1 .. MaxAttempts
      PROVE  /\ n < attemptNo'[RunOf(a)] => attStatus'[<<RunOf(a), n>>] \in {"lost", "paused"}
             /\ n > attemptNo'[RunOf(a)] => attStatus'[<<RunOf(a), n>>] = "absent"
  <2>1. n # a[2] => attStatus'[<<RunOf(a), n>>] = attStatus[<<RunOf(a), n>>]
    BY <1>3
  <2>2. attemptNo[RunOf(a)] \in Nat /\ n \in Nat /\ a[2] \in Nat
    BY <1>1, ConstantsAssumption DEF TypeOK, MaxAttempts
  <2> QED
    BY <1>1, <2>1, <2>2 DEF AttemptMatchesRun
<1> QED
  BY <1>1, <1>4, <1>5, <1>6 DEF AttemptMatchesRun, NeverStarted, Latest

\* Every step keeps the newest Attempt of a Run in step with the Run.
LEMMA AttemptMatchesRunStep ==
  ASSUME TypeOK, AttemptsPaidFor, AttemptMatchesRun, [AnyStep]_vars
  PROVE  AttemptMatchesRun'
<1>1. ASSUME NEW r \in Run, Admit(r)
      PROVE  AttemptMatchesRun'
  BY <1>1 DEF Admit, Insert, Transition, attemptVars, AttemptMatchesRun,
     AttemptsPaidFor, NeverStarted, Latest, TypeOK, AttemptStatusFor
<1>2. ASSUME NEW r \in Run, CancelRun(r)
      PROVE  AttemptMatchesRun'
  <2>1. CASE runStatus[r] \in Waiting \union {"queued"}
    BY <1>2, <2>1 DEF CancelRun, Transition, attemptVars, AttemptMatchesRun,
       NeverStarted, Latest, TypeOK, AttemptStatusFor, Waiting
  <2>2. CASE runStatus[r] \in {"assigned", "running"}
    BY <1>2, <2>2 DEF CancelRun, Transition, attemptVars, AttemptMatchesRun,
       NeverStarted, Latest, TypeOK, AttemptStatusFor, Waiting, ActiveAttempt
  <2> QED BY <1>2, <2>1, <2>2 DEF CancelRun
<1>3. ASSUME NEW r \in Run, ResumeRun(r)
      PROVE  AttemptMatchesRun'
  BY <1>3 DEF ResumeRun, Transition, attemptVars, AttemptMatchesRun,
     NeverStarted, Latest, TypeOK, AttemptStatusFor
<1>4. ASSUME NEW r \in Run, NEW w \in Worker, Schedule(r, w)
      PROVE  AttemptMatchesRun'
  <2> DEFINE a == <<r, attemptNo[r] + 1>>
  <2>1. attemptNo[r] \in Nat /\ attemptNo[r] + 1 \in 1 .. MaxAttempts
    BY <1>4, ConstantsAssumption
    DEF Schedule, Assign, AttemptsPaidFor, MaxAttempts, TypeOK
  <2>2. a \in Attempt
    BY <2>1 DEF Attempt
  <2>3. ASSUME NEW q \in Run, q # r
        PROVE  (/\ NeverStarted(q) \/ attStatus[Latest(q)] \in AttemptStatusFor[runStatus[q]]
                /\ \A n \in 1 .. MaxAttempts :
                     /\ n < attemptNo[q] => attStatus[<<q, n>>] \in {"lost", "paused"}
                     /\ n > attemptNo[q] => attStatus[<<q, n>>] = "absent")'
    BY <1>4, <2>3 DEF Schedule, Assign, Transition, AttemptMatchesRun, NeverStarted,
       Latest, TypeOK
  <2>4. attemptNo'[r] = attemptNo[r] + 1 /\ runStatus'[r] = "assigned"
    BY <1>4 DEF Schedule, Assign, Transition, TypeOK
  <2>5. ASSUME NEW n \in 1 .. MaxAttempts
        PROVE  attStatus'[<<r, n>>] = IF n = attemptNo[r] + 1 THEN "assigned"
                                      ELSE attStatus[<<r, n>>]
    BY <1>4, <2>2 DEF Schedule, Assign, TypeOK, Attempt
  <2>6. attStatus'[Latest(r)'] \in AttemptStatusFor[runStatus'[r]]
    BY <2>1, <2>4, <2>5 DEF Latest, AttemptStatusFor
  <2>7. attemptNo[r] > 0 => attStatus[<<r, attemptNo[r]>>] \in {"lost", "paused"}
    BY <1>4, <2>1
    DEF Schedule, Assign, AttemptMatchesRun, NeverStarted, Latest, AttemptStatusFor
  <2>8. ASSUME NEW n \in 1 .. MaxAttempts
        PROVE  /\ n < attemptNo'[r] => attStatus'[<<r, n>>] \in {"lost", "paused"}
               /\ n > attemptNo'[r] => attStatus'[<<r, n>>] = "absent"
    BY <2>1, <2>4, <2>5, <2>7 DEF AttemptMatchesRun
  <2> QED
    BY <2>3, <2>6, <2>8 DEF AttemptMatchesRun
<1>5. ASSUME NEW a \in Attempt, Recover(a)
      PROVE  AttemptMatchesRun'
  <2>1. PICK s \in AttemptStatus, q \in RunStatus :
          /\ s \in AttemptStatusFor[q]
          /\ FinishAttempt(a, s)
          /\ Transition(RunOf(a), q)
    BY <1>5, RecoverOutcome
  <2> QED
    BY <1>5, <2>1, MovingTogether
    DEF Recover, Recoverable, FinishAttempt, Transition
<1>6. ASSUME NEW a \in Attempt, Claim(a)
      PROVE  AttemptMatchesRun'
  <2>1. "running" \in RunStatus /\ "running" \in AttemptStatusFor["running"]
    BY DEF RunStatus, AttemptStatusFor
  <2> QED
    BY <1>6, <2>1, MovingTogether
    DEF Claim, Transition, ActiveAttempt
<1>7. ASSUME NEW a \in Attempt, NEW k \in Nat, Complete(a, k)
      PROVE  AttemptMatchesRun'
  <2>1. "completed" \in RunStatus /\ "completed" \in AttemptStatusFor["completed"]
    BY DEF RunStatus, AttemptStatusFor
  <2> QED
    BY <1>7, <2>1, MovingTogether
    DEF Complete, Authoritative, FinishAttempt, Transition, ActiveAttempt
<1>8. ASSUME NEW a \in Attempt, NEW k \in Nat, Fail(a, k)
      PROVE  AttemptMatchesRun'
  <2>1. "failed" \in RunStatus /\ "failed" \in AttemptStatusFor["failed"]
    BY DEF RunStatus, AttemptStatusFor
  <2> QED
    BY <1>8, <2>1, MovingTogether
    DEF Fail, Authoritative, FinishAttempt, Transition, ActiveAttempt
<1>9. ASSUME NEW a \in Attempt, NEW k \in Nat,
             NEW type \in {"approval", "input"},
             Pause(a, k, type)
      PROVE  AttemptMatchesRun'
  <2>1. "waiting_approval" \in RunStatus /\ "paused" \in AttemptStatusFor["waiting_approval"]
    BY DEF RunStatus, AttemptStatusFor
  <2>2. "waiting_input" \in RunStatus /\ "paused" \in AttemptStatusFor["waiting_input"]
    BY DEF RunStatus, AttemptStatusFor
  <2> QED
    BY <1>9, <2>1, <2>2, MovingTogether
    DEF Pause, Authoritative, FinishAttempt, Transition, ActiveAttempt
<1>10. ASSUME NEW a \in Attempt, NEW k \in Nat, AcknowledgeCancel(a, k)
      PROVE  AttemptMatchesRun'
  <2>1. "cancelled" \in RunStatus /\ "cancelled" \in AttemptStatusFor["cancelled"]
    BY DEF RunStatus, AttemptStatusFor
  <2> QED
    BY <1>10, <2>1, MovingTogether
    DEF AcknowledgeCancel, Authoritative, FinishAttempt, Transition, ActiveAttempt
<1>11. CASE BackgroundStep
  BY <1>11, BackgroundFrame DEF AttemptMatchesRun, NeverStarted, Latest
<1> QED
  BY <1>1, <1>2, <1>3, <1>4, <1>5, <1>6, <1>7, <1>8, <1>9, <1>10, <1>11,
     StepCases

\* The Attempt the Scheduler is about to insert does not exist yet.
LEMMA NewAttempt ==
  ASSUME TypeOK, AttemptsPaidFor, AttemptMatchesRun,
         NEW r \in Run, runStatus[r] = "queued"
  PROVE  /\ <<r, attemptNo[r] + 1>> \in Attempt
         /\ attStatus[<<r, attemptNo[r] + 1>>] = "absent"
<1>1. attemptNo[r] \in Nat /\ attemptNo[r] + 1 \in 1 .. MaxAttempts
  BY ConstantsAssumption DEF AttemptsPaidFor, MaxAttempts, TypeOK
<1>2. <<r, attemptNo[r] + 1>> \in Attempt
  BY <1>1 DEF Attempt
<1> QED
  BY <1>1, <1>2 DEF AttemptMatchesRun

\* Every step keeps the pauses in step with the waiting Runs.
LEMMA PauseStep ==
  ASSUME TypeOK, PauseMatchesStatus, [AnyStep]_vars
  PROVE  PauseMatchesStatus'
<1> USE DEF TypeOK, PauseMatchesStatus, UnresolvedPause, Waiting
<1>1. ASSUME NEW r \in Run, Admit(r)
      PROVE  PauseMatchesStatus'
  BY <1>1 DEF Admit, Insert, Transition
<1>2. ASSUME NEW r \in Run, CancelRun(r)
      PROVE  PauseMatchesStatus'
  BY <1>2 DEF CancelRun, Transition
<1>3. ASSUME NEW r \in Run, ResumeRun(r)
      PROVE  PauseMatchesStatus'
  BY <1>3 DEF ResumeRun, Transition
<1>4. ASSUME NEW r \in Run, NEW w \in Worker, Schedule(r, w)
      PROVE  PauseMatchesStatus'
  BY <1>4 DEF Schedule, Assign, Transition
<1>5. ASSUME NEW a \in Attempt, Recover(a)
      PROVE  PauseMatchesStatus'
  BY <1>5, AttemptShape DEF Recover, Recoverable, RecoveryCancels,
         RecoveryRetries, RecoveryFails, Transition
<1>6. ASSUME NEW a \in Attempt, Claim(a)
      PROVE  PauseMatchesStatus'
  BY <1>6, AttemptShape DEF Claim, Transition
<1>7. ASSUME NEW a \in Attempt, NEW k \in Nat, Complete(a, k)
      PROVE  PauseMatchesStatus'
  BY <1>7, AttemptShape DEF Complete, Authoritative, Transition
<1>8. ASSUME NEW a \in Attempt, NEW k \in Nat, Fail(a, k)
      PROVE  PauseMatchesStatus'
  BY <1>8, AttemptShape DEF Fail, Authoritative, Transition
<1>9. ASSUME NEW a \in Attempt, NEW k \in Nat,
             NEW type \in {"approval", "input"},
             Pause(a, k, type)
      PROVE  PauseMatchesStatus'
  <2>1. CASE type = "approval"
    BY <1>9, <2>1, AttemptShape DEF Pause, Authoritative, Transition
  <2>2. CASE type = "input"
    BY <1>9, <2>2, AttemptShape DEF Pause, Authoritative, Transition
  <2> QED BY <2>1, <2>2
<1>10. ASSUME NEW a \in Attempt, NEW k \in Nat, AcknowledgeCancel(a, k)
      PROVE  PauseMatchesStatus'
  BY <1>10, AttemptShape DEF AcknowledgeCancel, Authoritative, Transition
<1>11. CASE BackgroundStep
  BY <1>11, BackgroundFrame
<1> QED
  BY <1>1, <1>2, <1>3, <1>4, <1>5, <1>6, <1>7, <1>8, <1>9, <1>10, <1>11,
     StepCases

\* A session gets a Run in flight only when it has none.
LEMMA SessionStep ==
  ASSUME TypeOK, OneActiveRunPerSession, [AnyStep]_vars
  PROVE  OneActiveRunPerSession'
<1> USE DEF TypeOK, OneActiveRunPerSession, ActiveRun, Waiting, OtherActiveRun
<1>1. ASSUME NEW r \in Run, Admit(r)
      PROVE  OneActiveRunPerSession'
  BY <1>1 DEF Admit, Insert, Transition
<1>2. ASSUME NEW r \in Run, CancelRun(r)
      PROVE  OneActiveRunPerSession'
  BY <1>2 DEF CancelRun, Transition
<1>3. ASSUME NEW r \in Run, ResumeRun(r)
      PROVE  OneActiveRunPerSession'
  BY <1>3 DEF ResumeRun, Transition
<1>4. ASSUME NEW r \in Run, NEW w \in Worker, Schedule(r, w)
      PROVE  OneActiveRunPerSession'
  BY <1>4 DEF Schedule, Assign, Transition
<1>5. ASSUME NEW a \in Attempt, Recover(a)
      PROVE  OneActiveRunPerSession'
  BY <1>5, AttemptShape DEF Recover, Recoverable, RecoveryCancels,
         RecoveryRetries, RecoveryFails, Transition
<1>6. ASSUME NEW a \in Attempt, Claim(a)
      PROVE  OneActiveRunPerSession'
  BY <1>6, AttemptShape DEF Claim, Transition
<1>7. ASSUME NEW a \in Attempt, NEW k \in Nat, Complete(a, k)
      PROVE  OneActiveRunPerSession'
  BY <1>7, AttemptShape DEF Complete, Authoritative, Transition
<1>8. ASSUME NEW a \in Attempt, NEW k \in Nat, Fail(a, k)
      PROVE  OneActiveRunPerSession'
  BY <1>8, AttemptShape DEF Fail, Authoritative, Transition
<1>9. ASSUME NEW a \in Attempt, NEW k \in Nat,
             NEW type \in {"approval", "input"},
             Pause(a, k, type)
      PROVE  OneActiveRunPerSession'
  <2>1. PICK q \in Waiting : runStatus' = [runStatus EXCEPT ![RunOf(a)] = q]
    BY <1>9 DEF Pause, Transition
  <2>2. runStatus[RunOf(a)] = "running"
    BY <1>9 DEF Pause, Authoritative
  <2> QED BY <2>1, <2>2
<1>10. ASSUME NEW a \in Attempt, NEW k \in Nat, AcknowledgeCancel(a, k)
      PROVE  OneActiveRunPerSession'
  BY <1>10, AttemptShape DEF AcknowledgeCancel, Authoritative, Transition
<1>11. CASE BackgroundStep
  BY <1>11, BackgroundFrame
<1> QED
  BY <1>1, <1>2, <1>3, <1>4, <1>5, <1>6, <1>7, <1>8, <1>9, <1>10, <1>11,
     StepCases

\* Tokens are issued by the one claim and die with the execution.
LEMMA ClaimFenceStep ==
  ASSUME TypeOK, AttemptsPaidFor, AttemptMatchesRun, ClaimFence, [AnyStep]_vars
  PROVE  ClaimFence'
<1> USE DEF TypeOK, ClaimFence, ActiveAttempt
<1>1. ASSUME NEW r \in Run, Admit(r)
      PROVE  ClaimFence'
  BY <1>1 DEF Admit, Insert, Transition, attemptVars, outboxVars, workerVars
<1>2. ASSUME NEW r \in Run, CancelRun(r)
      PROVE  ClaimFence'
  BY <1>2 DEF CancelRun, Transition, attemptVars, workerVars
<1>3. ASSUME NEW r \in Run, ResumeRun(r)
      PROVE  ClaimFence'
  BY <1>3 DEF ResumeRun, Transition, attemptVars, outboxVars, workerVars
<1>4. ASSUME NEW r \in Run, NEW w \in Worker, Schedule(r, w)
      PROVE  ClaimFence'
  <2> DEFINE b == <<r, attemptNo[r] + 1>>
  <2>1. b \in Attempt /\ attStatus[b] = "absent"
    BY <1>4, NewAttempt DEF Schedule, Assign
  <2> QED
    BY <1>4, <2>1 DEF Schedule, Assign
<1>5. ASSUME NEW a \in Attempt, Recover(a)
      PROVE  ClaimFence'
  BY <1>5, AttemptShape DEF Recover, Recoverable, RecoveryCancels,
         RecoveryRetries, RecoveryFails, Transition, FinishAttempt,
         workerVars, Acked
<1>6. ASSUME NEW a \in Attempt, Claim(a)
      PROVE  ClaimFence'
  BY <1>6, AttemptShape DEF Claim, Transition, workerVars, Acked
<1>7. ASSUME NEW a \in Attempt, NEW k \in Nat, Complete(a, k)
      PROVE  ClaimFence'
  BY <1>7, AttemptShape DEF Complete, Authoritative, Transition,
         FinishAttempt, outboxVars, workerVars
<1>8. ASSUME NEW a \in Attempt, NEW k \in Nat, Fail(a, k)
      PROVE  ClaimFence'
  BY <1>8, AttemptShape DEF Fail, Authoritative, Transition, FinishAttempt,
         outboxVars, workerVars
<1>9. ASSUME NEW a \in Attempt, NEW k \in Nat,
             NEW type \in {"approval", "input"},
             Pause(a, k, type)
      PROVE  ClaimFence'
  BY <1>9, AttemptShape DEF Pause, Authoritative, Transition, FinishAttempt,
         outboxVars, workerVars
<1>10. ASSUME NEW a \in Attempt, NEW k \in Nat, AcknowledgeCancel(a, k)
      PROVE  ClaimFence'
  BY <1>10, AttemptShape DEF AcknowledgeCancel, Authoritative, Transition,
         FinishAttempt, workerVars, Acked
<1>11. CASE BackgroundStep
  <2>1. executing' \subseteq executing
    BY <1>11 DEF BackgroundStep, Renew, Abandon, ProcessStep, Register,
       Heartbeat, Drain, Stop, Crash, Tick, vars
  <2> QED BY <1>11, <2>1, BackgroundFrame
<1> QED
  BY <1>1, <1>2, <1>3, <1>4, <1>5, <1>6, <1>7, <1>8, <1>9, <1>10, <1>11,
     StepCases

\* Rows are acknowledged by the step that makes them moot.
LEMMA OutboxStep ==
  ASSUME TypeOK, AttemptsPaidFor, AttemptMatchesRun, OutboxMatchesFacts,
         [AnyStep]_vars
  PROVE  OutboxMatchesFacts'
<1> USE DEF TypeOK, OutboxMatchesFacts, ActiveAttempt, Waiting
<1>1. ASSUME NEW r \in Run, Admit(r)
      PROVE  OutboxMatchesFacts'
  BY <1>1 DEF Admit, Insert, Transition, attemptVars, outboxVars, workerVars
<1>2. ASSUME NEW r \in Run, CancelRun(r)
      PROVE  OutboxMatchesFacts'
  BY <1>2 DEF CancelRun, Transition, attemptVars, workerVars
<1>3. ASSUME NEW r \in Run, ResumeRun(r)
      PROVE  OutboxMatchesFacts'
  BY <1>3 DEF ResumeRun, Transition, attemptVars, outboxVars, workerVars
<1>4. ASSUME NEW r \in Run, NEW w \in Worker, Schedule(r, w)
      PROVE  OutboxMatchesFacts'
  BY <1>4 DEF Schedule, Assign, Transition, workerVars
<1>5. ASSUME NEW a \in Attempt, Recover(a)
      PROVE  OutboxMatchesFacts'
  <2>1. CASE runStatus[RunOf(a)] = "cancel_requested"
    BY <1>5, <2>1, AttemptShape
    DEF Recover, Recoverable, RecoveryCancels, Transition,
        FinishAttempt, Acked
  <2>2. CASE /\ runStatus[RunOf(a)] # "cancel_requested"
             /\ retryCount[RunOf(a)] < 1
    BY <1>5, <2>2, AttemptShape
    DEF Recover, Recoverable, RecoveryRetries, Transition,
        FinishAttempt, Acked
  <2>3. CASE /\ runStatus[RunOf(a)] # "cancel_requested"
             /\ ~(retryCount[RunOf(a)] < 1)
    BY <1>5, <2>3, AttemptShape
    DEF Recover, Recoverable, RecoveryFails, Transition,
        FinishAttempt, Acked
  <2> QED BY <2>1, <2>2, <2>3 DEF TypeOK
<1>6. ASSUME NEW a \in Attempt, Claim(a)
      PROVE  OutboxMatchesFacts'
  BY <1>6, AttemptShape DEF Claim, Transition, workerVars, Acked
<1>7. ASSUME NEW a \in Attempt, NEW k \in Nat, Complete(a, k)
      PROVE  OutboxMatchesFacts'
  BY <1>7, AttemptShape DEF Complete, Authoritative, Transition,
         FinishAttempt, outboxVars, workerVars
<1>8. ASSUME NEW a \in Attempt, NEW k \in Nat, Fail(a, k)
      PROVE  OutboxMatchesFacts'
  BY <1>8, AttemptShape DEF Fail, Authoritative, Transition, FinishAttempt,
         outboxVars, workerVars
<1>9. ASSUME NEW a \in Attempt, NEW k \in Nat,
             NEW type \in {"approval", "input"},
             Pause(a, k, type)
      PROVE  OutboxMatchesFacts'
  BY <1>9, AttemptShape DEF Pause, Authoritative, Transition, FinishAttempt,
         outboxVars, workerVars
<1>10. ASSUME NEW a \in Attempt, NEW k \in Nat, AcknowledgeCancel(a, k)
      PROVE  OutboxMatchesFacts'
  BY <1>10, AttemptShape DEF AcknowledgeCancel, Authoritative, Transition,
         FinishAttempt, workerVars, Acked
<1>11. CASE BackgroundStep
  BY <1>11, BackgroundFrame
<1> QED
  BY <1>1, <1>2, <1>3, <1>4, <1>5, <1>6, <1>7, <1>8, <1>9, <1>10, <1>11,
     StepCases

\* What a dead process executed is gone with it.
LEMMA ExecutorsAliveStep ==
  ASSUME TypeOK, AttemptsPaidFor, AttemptMatchesRun, ClaimFence,
         ExecutorsAlive, [AnyStep]_vars
  PROVE  ExecutorsAlive'
<1> USE DEF TypeOK, ExecutorsAlive, ActiveAttempt
<1>1. ASSUME NEW r \in Run, Admit(r)
      PROVE  ExecutorsAlive'
  BY <1>1 DEF Admit, Insert, Transition, attemptVars, outboxVars, workerVars
<1>2. ASSUME NEW r \in Run, CancelRun(r)
      PROVE  ExecutorsAlive'
  BY <1>2 DEF CancelRun, Transition, attemptVars, workerVars
<1>3. ASSUME NEW r \in Run, ResumeRun(r)
      PROVE  ExecutorsAlive'
  BY <1>3 DEF ResumeRun, Transition, attemptVars, outboxVars, workerVars
<1>4. ASSUME NEW r \in Run, NEW w \in Worker, Schedule(r, w)
      PROVE  ExecutorsAlive'
  <2> DEFINE b == <<r, attemptNo[r] + 1>>
  <2>1. b \in Attempt /\ attStatus[b] = "absent" /\ issued[b] = 0
    BY <1>4, NewAttempt DEF Schedule, Assign, ClaimFence
  <2> QED
    <3>1. \A e \in executing : e[1] \in Attempt /\ e[1] # b
      BY <2>1 DEF ClaimFence
    <3>2. \A a \in Attempt \ {b} : attWorker'[a] = attWorker[a] /\ attStatus'[a] = attStatus[a]
      BY <1>4, <2>1 DEF Schedule, Assign
    <3>3. attWorker'[b] = w /\ executing' = executing /\ process' = process
      BY <1>4, <2>1 DEF Schedule, Assign, workerVars
    <3> QED BY <3>1, <3>2, <3>3
<1>5. ASSUME NEW a \in Attempt, Recover(a)
      PROVE  ExecutorsAlive'
  BY <1>5, AttemptShape DEF Recover, Recoverable, RecoveryCancels,
         RecoveryRetries, RecoveryFails, Transition, FinishAttempt,
         workerVars, Acked
<1>6. ASSUME NEW a \in Attempt, Claim(a)
      PROVE  ExecutorsAlive'
  BY <1>6, AttemptShape DEF Claim, Transition, workerVars, Acked
<1>7. ASSUME NEW a \in Attempt, NEW k \in Nat, Complete(a, k)
      PROVE  ExecutorsAlive'
  BY <1>7, AttemptShape DEF Complete, Authoritative, Transition,
         FinishAttempt, outboxVars, workerVars
<1>8. ASSUME NEW a \in Attempt, NEW k \in Nat, Fail(a, k)
      PROVE  ExecutorsAlive'
  BY <1>8, AttemptShape DEF Fail, Authoritative, Transition, FinishAttempt,
         outboxVars, workerVars
<1>9. ASSUME NEW a \in Attempt, NEW k \in Nat,
             NEW type \in {"approval", "input"},
             Pause(a, k, type)
      PROVE  ExecutorsAlive'
  BY <1>9, AttemptShape DEF Pause, Authoritative, Transition, FinishAttempt,
         outboxVars, workerVars
<1>10. ASSUME NEW a \in Attempt, NEW k \in Nat, AcknowledgeCancel(a, k)
      PROVE  ExecutorsAlive'
  BY <1>10, AttemptShape DEF AcknowledgeCancel, Authoritative, Transition,
         FinishAttempt, workerVars, Acked
<1>11. CASE BackgroundStep
  <2>1. ASSUME NEW w \in Worker, NEW p \in {"up", "draining"},
               process[w] # "up" \/ p = "draining",
               process' = [process EXCEPT ![w] = p], executing' = executing
        PROVE  \A e \in executing' :
                 /\ attWorker[e[1]] \in Worker
                 /\ process'[attWorker[e[1]]] \in {"up", "draining"}
    BY <2>1
  <2>2. ASSUME NEW w \in Worker, Crash(w)
        PROVE  \A e \in executing' :
                 /\ attWorker[e[1]] \in Worker
                 /\ process'[attWorker[e[1]]] \in {"up", "draining"}
    BY <2>2 DEF Crash, HeldBy
  <2>3. CASE ProcessStep
    BY <1>11, <2>1, <2>2, <2>3, BackgroundFrame
    DEF ProcessStep, Register, Heartbeat, Drain, Stop
  <2>4. CASE ~ProcessStep
    BY <1>11, <2>4, BackgroundFrame
    DEF BackgroundStep, Renew, Abandon, Tick, vars, workerVars
  <2> QED BY <2>3, <2>4
<1> QED
  BY <1>1, <1>2, <1>3, <1>4, <1>5, <1>6, <1>7, <1>8, <1>9, <1>10, <1>11,
     StepCases

\* A step that adds no Run to those a tenant pays for keeps the quota.
LEMMA QuotaKept ==
  ASSUME TenantWithinQuota,
         NEW t \in Tenant,
         \A r \in Run : runStatus'[r] \in TenantCapacityStatus
                            => runStatus[r] \in TenantCapacityStatus
  PROVE  Cardinality(TenantActiveRuns(t))' <= MaxRunning[t]
<1>1. TenantActiveRuns(t)' \subseteq TenantActiveRuns(t)
  BY DEF TenantActiveRuns, TenantOfRun
<1>2. IsFiniteSet(TenantActiveRuns(t))
  BY ConstantsAssumption, FS_Subset DEF TenantActiveRuns
<1>3. /\ IsFiniteSet(TenantActiveRuns(t)')
      /\ Cardinality(TenantActiveRuns(t)') <= Cardinality(TenantActiveRuns(t))
  BY <1>1, <1>2, FS_Subset
<1>4. /\ Cardinality(TenantActiveRuns(t)') \in Nat
      /\ Cardinality(TenantActiveRuns(t)) \in Nat
      /\ MaxRunning[t] \in Nat
  BY <1>2, <1>3, FS_CardinalityType, ConstantsAssumption
<1>5. Cardinality(TenantActiveRuns(t)) <= MaxRunning[t]
  BY DEF TenantWithinQuota
<1> QED
  BY <1>3, <1>4, <1>5

\* Only the Scheduler adds a Run to those a tenant pays for.
LEMMA QuotaStep ==
  ASSUME TypeOK, TenantWithinQuota, [AnyStep]_vars
  PROVE  TenantWithinQuota'
<1>1. ASSUME NEW r \in Run, Admit(r)
      PROVE  TenantWithinQuota'
  <2>1. \A q \in Run : runStatus'[q] \in TenantCapacityStatus
                         => runStatus[q] \in TenantCapacityStatus
    BY <1>1 DEF Admit, Insert,
       Transition, TenantCapacityStatus, TypeOK
  <2> QED BY <2>1, QuotaKept DEF TenantWithinQuota
<1>2. ASSUME NEW r \in Run, CancelRun(r)
      PROVE  TenantWithinQuota'
  <2>1. \A q \in Run : runStatus'[q] \in TenantCapacityStatus
                         => runStatus[q] \in TenantCapacityStatus
    BY <1>2 DEF CancelRun,
       Transition, TenantCapacityStatus, TypeOK
  <2> QED BY <2>1, QuotaKept DEF TenantWithinQuota
<1>3. ASSUME NEW r \in Run, ResumeRun(r)
      PROVE  TenantWithinQuota'
  <2>1. \A q \in Run : runStatus'[q] \in TenantCapacityStatus
                         => runStatus[q] \in TenantCapacityStatus
    BY <1>3 DEF ResumeRun,
       Transition, TenantCapacityStatus, TypeOK
  <2> QED BY <2>1, QuotaKept DEF TenantWithinQuota
<1>4. ASSUME NEW r \in Run, NEW w \in Worker, Schedule(r, w)
      PROVE  TenantWithinQuota'
  <2> SUFFICES ASSUME NEW t \in Tenant
               PROVE  Cardinality(TenantActiveRuns(t))' <= MaxRunning[t]
    BY DEF TenantWithinQuota
  <2>1. CASE t # TenantOfRun(r)
    <3>1. TenantActiveRuns(t)' = TenantActiveRuns(t)
      BY <1>4, <2>1
      DEF Schedule, Assign, Transition, TenantActiveRuns, TenantOfRun, TypeOK
    <3> QED BY <3>1 DEF TenantWithinQuota
  <2>2. CASE t = TenantOfRun(r)
    <3>1. TenantActiveRuns(t)' = TenantActiveRuns(t) \union {r}
      BY <1>4, <2>2 DEF Schedule, Assign, Transition, TenantActiveRuns, TenantOfRun,
         TenantCapacityStatus, TypeOK
    <3>2. r \notin TenantActiveRuns(t)
      BY <1>4 DEF Schedule, Assign, TenantActiveRuns, TenantCapacityStatus
    <3>3. IsFiniteSet(TenantActiveRuns(t))
      BY ConstantsAssumption, FS_Subset DEF TenantActiveRuns
    <3>4. Cardinality(TenantActiveRuns(t)') = Cardinality(TenantActiveRuns(t)) + 1
      BY <3>1, <3>2, <3>3, FS_AddElement
    <3>5. Cardinality(TenantActiveRuns(t)) < MaxRunning[t]
      BY <1>4, <2>2 DEF Schedule, Assign, TenantHasSlot
    <3>6. Cardinality(TenantActiveRuns(t)) \in Nat /\ MaxRunning[t] \in Nat
      BY <3>3, FS_CardinalityType, ConstantsAssumption
    <3> QED BY <3>4, <3>5, <3>6
  <2> QED BY <2>1, <2>2
<1>5. ASSUME NEW a \in Attempt, Recover(a)
      PROVE  TenantWithinQuota'
  <2>1. \A q \in Run : runStatus'[q] \in TenantCapacityStatus
                         => runStatus[q] \in TenantCapacityStatus
    BY <1>5, AttemptShape
    DEF Recover, RecoveryCancels, RecoveryRetries, RecoveryFails,
       Transition, TenantCapacityStatus, TypeOK
  <2> QED BY <2>1, QuotaKept DEF TenantWithinQuota
<1>6. ASSUME NEW a \in Attempt, Claim(a)
      PROVE  TenantWithinQuota'
  <2>1. \A q \in Run : runStatus'[q] \in TenantCapacityStatus
                         => runStatus[q] \in TenantCapacityStatus
    BY <1>6, AttemptShape DEF Claim,
       Transition, TenantCapacityStatus, TypeOK
  <2> QED BY <2>1, QuotaKept DEF TenantWithinQuota
<1>7. ASSUME NEW a \in Attempt, NEW k \in Nat, Complete(a, k)
      PROVE  TenantWithinQuota'
  <2>1. \A q \in Run : runStatus'[q] \in TenantCapacityStatus
                         => runStatus[q] \in TenantCapacityStatus
    BY <1>7, AttemptShape DEF Complete,
       Transition, TenantCapacityStatus, TypeOK
  <2> QED BY <2>1, QuotaKept DEF TenantWithinQuota
<1>8. ASSUME NEW a \in Attempt, NEW k \in Nat, Fail(a, k)
      PROVE  TenantWithinQuota'
  <2>1. \A q \in Run : runStatus'[q] \in TenantCapacityStatus
                         => runStatus[q] \in TenantCapacityStatus
    BY <1>8, AttemptShape DEF Fail,
       Transition, TenantCapacityStatus, TypeOK
  <2> QED BY <2>1, QuotaKept DEF TenantWithinQuota
<1>9. ASSUME NEW a \in Attempt, NEW k \in Nat,
             NEW type \in {"approval", "input"},
             Pause(a, k, type)
      PROVE  TenantWithinQuota'
  <2>1. \A q \in Run : runStatus'[q] \in TenantCapacityStatus
                         => runStatus[q] \in TenantCapacityStatus
    BY <1>9, AttemptShape DEF Pause,
       Transition, TenantCapacityStatus, TypeOK
  <2> QED BY <2>1, QuotaKept DEF TenantWithinQuota
<1>10. ASSUME NEW a \in Attempt, NEW k \in Nat, AcknowledgeCancel(a, k)
      PROVE  TenantWithinQuota'
  <2>1. \A q \in Run : runStatus'[q] \in TenantCapacityStatus
                         => runStatus[q] \in TenantCapacityStatus
    BY <1>10, AttemptShape DEF AcknowledgeCancel,
       Transition, TenantCapacityStatus, TypeOK
  <2> QED BY <2>1, QuotaKept DEF TenantWithinQuota
<1>11. CASE BackgroundStep
  BY <1>11, BackgroundFrame
  DEF TenantWithinQuota, TenantActiveRuns, TenantOfRun
<1> QED
  BY <1>1, <1>2, <1>3, <1>4, <1>5, <1>6, <1>7, <1>8, <1>9, <1>10, <1>11,
     StepCases

\* The Attempts are finitely many.
LEMMA AttemptFinite == IsFiniteSet(Attempt)
<1>1. MaxAttempts \in Nat
  BY ConstantsAssumption DEF MaxAttempts
<1>2. IsFiniteSet(1 .. MaxAttempts)
  BY <1>1, FS_Interval
<1> QED BY <1>2, ConstantsAssumption, FS_Product DEF Attempt

\* A step that hands a Worker no Attempt keeps it within its capacity.
LEMMA CapacityKept ==
  ASSUME WorkerNotOversold, NEW w \in Worker,
         LiveAttempts(w)' \subseteq LiveAttempts(w)
  PROVE  Cardinality(LiveAttempts(w))' <= Capacity[w]
<1>1. IsFiniteSet(LiveAttempts(w))
  BY AttemptFinite, FS_Subset DEF LiveAttempts
<1>2. /\ IsFiniteSet(LiveAttempts(w)')
      /\ Cardinality(LiveAttempts(w)') <= Cardinality(LiveAttempts(w))
  BY <1>1, FS_Subset
<1>3. /\ Cardinality(LiveAttempts(w)') \in Nat
      /\ Cardinality(LiveAttempts(w)) \in Nat
      /\ Capacity[w] \in Nat
  BY <1>1, <1>2, FS_CardinalityType, ConstantsAssumption
<1> QED
  BY <1>2, <1>3 DEF WorkerNotOversold

\* Only the Scheduler hands an Attempt to a Worker, and one that has a slot.
LEMMA CapacityStep ==
  ASSUME TypeOK, AttemptsPaidFor, AttemptMatchesRun, WorkerNotOversold,
         [AnyStep]_vars
  PROVE  WorkerNotOversold'
<1>1. ASSUME NEW r \in Run, Admit(r)
      PROVE  WorkerNotOversold'
  <2>1. \A w \in Worker : LiveAttempts(w)' \subseteq LiveAttempts(w)
    BY <1>1 DEF Admit, Insert, attemptVars, LiveAttempts, ActiveAttempt, TypeOK
  <2> QED BY <2>1, CapacityKept DEF WorkerNotOversold
<1>2. ASSUME NEW r \in Run, CancelRun(r)
      PROVE  WorkerNotOversold'
  <2>1. \A w \in Worker : LiveAttempts(w)' \subseteq LiveAttempts(w)
    BY <1>2 DEF CancelRun, attemptVars, LiveAttempts, ActiveAttempt, TypeOK
  <2> QED BY <2>1, CapacityKept DEF WorkerNotOversold
<1>3. ASSUME NEW r \in Run, ResumeRun(r)
      PROVE  WorkerNotOversold'
  <2>1. \A w \in Worker : LiveAttempts(w)' \subseteq LiveAttempts(w)
    BY <1>3 DEF ResumeRun, attemptVars, LiveAttempts, ActiveAttempt, TypeOK
  <2> QED BY <2>1, CapacityKept DEF WorkerNotOversold
<1>4. ASSUME NEW r \in Run, NEW w \in Worker, Schedule(r, w)
      PROVE  WorkerNotOversold'
  <2> DEFINE b == <<r, attemptNo[r] + 1>>
  <2>1. b \in Attempt /\ attStatus[b] = "absent"
    BY <1>4, NewAttempt DEF Schedule, Assign
  <2>2. LiveAttempts(w)' = LiveAttempts(w) \union {b}
    <3>1. attWorker'[b] = w /\ attStatus'[b] = "assigned" /\ lease'[b] > 0
      BY <1>4, <2>1, ConstantsAssumption DEF Schedule, Assign, TypeOK
    <3>2. \A a \in Attempt \ {b} : /\ attWorker'[a] = attWorker[a]
                                  /\ attStatus'[a] = attStatus[a]
                                  /\ lease'[a] = lease[a]
      BY <1>4, <2>1 DEF Schedule, Assign, TypeOK
    <3> QED BY <2>1, <3>1, <3>2 DEF LiveAttempts, ActiveAttempt
  <2>3. ASSUME NEW v \in Worker, v # w
        PROVE  LiveAttempts(v)' \subseteq LiveAttempts(v)
    BY <1>4, <2>1, <2>3 DEF Schedule, Assign, LiveAttempts, TypeOK
  <2>4. b \notin LiveAttempts(w)
    BY <2>1 DEF LiveAttempts, ActiveAttempt
  <2>5. IsFiniteSet(LiveAttempts(w))
    BY AttemptFinite, FS_Subset DEF LiveAttempts
  <2>6. Cardinality(LiveAttempts(w)') = Cardinality(LiveAttempts(w)) + 1
    BY <2>2, <2>4, <2>5, FS_AddElement
  <2>7. Cardinality(LiveAttempts(w)) < Capacity[w]
    BY <1>4 DEF Schedule, Assign, Schedulable
  <2>8. Cardinality(LiveAttempts(w)) \in Nat /\ Capacity[w] \in Nat
    BY <2>5, FS_CardinalityType, ConstantsAssumption
  <2>9. Cardinality(LiveAttempts(w)') <= Capacity[w]
    BY <2>6, <2>7, <2>8
  <2> QED BY <2>3, <2>9, CapacityKept DEF WorkerNotOversold
<1>5. ASSUME NEW a \in Attempt, Recover(a)
      PROVE  WorkerNotOversold'
  <2>1. \A w \in Worker : LiveAttempts(w)' \subseteq LiveAttempts(w)
    BY <1>5 DEF Recover, RecoveryCancels, RecoveryRetries,
       RecoveryFails, FinishAttempt, LiveAttempts, ActiveAttempt, TypeOK
  <2> QED BY <2>1, CapacityKept DEF WorkerNotOversold
<1>6. ASSUME NEW a \in Attempt, Claim(a)
      PROVE  WorkerNotOversold'
  <2>1. \A w \in Worker : LiveAttempts(w)' \subseteq LiveAttempts(w)
    BY <1>6 DEF Claim, LiveAttempts, ActiveAttempt, TypeOK
  <2> QED BY <2>1, CapacityKept DEF WorkerNotOversold
<1>7. ASSUME NEW a \in Attempt, NEW k \in Nat, Complete(a, k)
      PROVE  WorkerNotOversold'
  <2>1. \A w \in Worker : LiveAttempts(w)' \subseteq LiveAttempts(w)
    BY <1>7 DEF Complete, FinishAttempt, LiveAttempts, ActiveAttempt, TypeOK
  <2> QED BY <2>1, CapacityKept DEF WorkerNotOversold
<1>8. ASSUME NEW a \in Attempt, NEW k \in Nat, Fail(a, k)
      PROVE  WorkerNotOversold'
  <2>1. \A w \in Worker : LiveAttempts(w)' \subseteq LiveAttempts(w)
    BY <1>8 DEF Fail, FinishAttempt, LiveAttempts, ActiveAttempt, TypeOK
  <2> QED BY <2>1, CapacityKept DEF WorkerNotOversold
<1>9. ASSUME NEW a \in Attempt, NEW k \in Nat,
             NEW type \in {"approval", "input"},
             Pause(a, k, type)
      PROVE  WorkerNotOversold'
  <2>1. \A w \in Worker : LiveAttempts(w)' \subseteq LiveAttempts(w)
    BY <1>9 DEF Pause, FinishAttempt, LiveAttempts, ActiveAttempt, TypeOK
  <2> QED BY <2>1, CapacityKept DEF WorkerNotOversold
<1>10. ASSUME NEW a \in Attempt, NEW k \in Nat, AcknowledgeCancel(a, k)
      PROVE  WorkerNotOversold'
  <2>1. \A w \in Worker : LiveAttempts(w)' \subseteq LiveAttempts(w)
    BY <1>10
    DEF AcknowledgeCancel, FinishAttempt, LiveAttempts, ActiveAttempt, TypeOK
  <2> QED BY <2>1, CapacityKept DEF WorkerNotOversold
<1>11. CASE BackgroundStep
  <2>1. \A a \in Attempt : lease'[a] > 0 => lease[a] > 0
    <3>1. CASE Tick
      BY <3>1, ConstantsAssumption DEF Tick, TypeOK
    <3>2. CASE ~Tick
      BY <1>11, <3>2 DEF BackgroundStep, Renew, Authoritative, Abandon,
         ProcessStep, Register, Heartbeat, Drain, Stop, Crash, attemptVars,
         vars, TypeOK
    <3> QED BY <3>1, <3>2
  <2>2. \A w \in Worker : LiveAttempts(w)' \subseteq LiveAttempts(w)
    BY <1>11, <2>1, BackgroundFrame DEF LiveAttempts
  <2> QED BY <2>2, CapacityKept DEF WorkerNotOversold
<1> QED
  BY <1>1, <1>2, <1>3, <1>4, <1>5, <1>6, <1>7, <1>8, <1>9, <1>10, <1>11,
     StepCases

-----------------------------------------------------------------------------
(* The invariants.                                                         *)

\* Nothing exists yet.
LEMMA InitFacts ==
  Init => Facts
<1> SUFFICES ASSUME Init PROVE Facts
  OBVIOUS
<1>1. TypeOK
  BY ConstantsAssumption
  DEF Init, TypeOK, RunStatus, AttemptStatus, MaxAttempts
<1>2. AttemptsPaidFor /\ PauseMatchesStatus /\ OneActiveRunPerSession
  BY DEF Init, AttemptsPaidFor, PauseMatchesStatus, UnresolvedPause,
     OneActiveRunPerSession, ActiveRun, Waiting
<1>3. AttemptMatchesRun
  BY ConstantsAssumption
  DEF Init, AttemptMatchesRun, NeverStarted, Attempt, MaxAttempts
<1>4. ClaimFence /\ OutboxMatchesFacts /\ ExecutorsAlive
  BY DEF Init, ClaimFence, OutboxMatchesFacts, ExecutorsAlive
<1>5. TenantWithinQuota
  <2> SUFFICES ASSUME NEW t \in Tenant
               PROVE  Cardinality(TenantActiveRuns(t)) <= MaxRunning[t]
    BY DEF TenantWithinQuota
  <2>1. TenantActiveRuns(t) = {}
    BY DEF Init, TenantActiveRuns, TenantCapacityStatus
  <2> QED BY <2>1, FS_EmptySet, ConstantsAssumption
<1>6. WorkerNotOversold
  <2> SUFFICES ASSUME NEW w \in Worker
               PROVE  Cardinality(LiveAttempts(w)) <= Capacity[w]
    BY DEF WorkerNotOversold
  <2>1. LiveAttempts(w) = {}
    BY DEF Init, LiveAttempts, ActiveAttempt
  <2> QED BY <2>1, FS_EmptySet, ConstantsAssumption
<1> QED BY <1>1, <1>2, <1>3, <1>4, <1>5, <1>6 DEF Facts

\* Together the parts are inductive.
LEMMA FactsStep ==
  Facts /\ [AnyStep]_vars => Facts'
  BY AttemptsPaidForStep, TypeStep, AttemptMatchesRunStep, PauseStep,
     SessionStep, ClaimFenceStep, OutboxStep, ExecutorsAliveStep, QuotaStep,
     CapacityStep DEF Facts

\* Facts is inductive.
LEMMA Invariance == Spec => []Facts
  BY InitFacts, FactsStep, CreatedIsAdmitted, PTL DEF Spec

\* Every row keeps the shape its table and its bounds allow.
THEOREM TypeCorrect == Spec => []TypeOK
<1>1. Facts => TypeOK
  BY DEF Facts
<1> QED BY <1>1, Invariance, PTL

\* The Attempt of a Run and the Run never disagree, and at most one Attempt of
\* a Run is live, whatever crashes, expires or is delivered twice.
THEOREM AttemptAndRunAgree == Spec => []AttemptMatchesRun
<1>1. Facts => AttemptMatchesRun
  BY DEF Facts
<1> QED BY <1>1, Invariance, PTL

\* No Run is executed more often than once, once per resumed pause and once for
\* its retry.
THEOREM ExecutionsAreBounded == Spec => []AttemptsPaidFor
<1>1. Facts => AttemptsPaidFor
  BY DEF Facts
<1> QED BY <1>1, Invariance, PTL

\* A claim succeeds at most once and its token dies with the execution.
THEOREM ClaimsAreFenced == Spec => []ClaimFence
<1>1. Facts => ClaimFence
  BY DEF Facts
<1> QED BY <1>1, Invariance, PTL

\* A notification is pending exactly while its effect is still owed.
THEOREM OutboxIsExact == Spec => []OutboxMatchesFacts
<1>1. Facts => OutboxMatchesFacts
  BY DEF Facts
<1> QED BY <1>1, Invariance, PTL

\* A waiting Run can be resumed, and no queued Run is held back by a pause.
THEOREM PausesMatch == Spec => []PauseMatchesStatus
<1>1. Facts => PauseMatchesStatus
  BY DEF Facts
<1> QED BY <1>1, Invariance, PTL

\* The tables tell one story after every transaction.
THEOREM TablesStayInStep == Spec => []TablesAgree
<1>1. Facts => TablesAgree
  BY DEF Facts, TablesAgree
<1> QED BY <1>1, Invariance, PTL

\* A session has at most one Run in flight.
THEOREM SessionsAreSequential == Spec => []OneActiveRunPerSession
<1>1. Facts => OneActiveRunPerSession
  BY DEF Facts
<1> QED BY <1>1, Invariance, PTL

\* No tenant exceeds its running quota, for any number of Runs and Workers.
THEOREM QuotaHolds == Spec => []TenantWithinQuota
<1>1. Facts => TenantWithinQuota
  BY DEF Facts
<1> QED BY <1>1, Invariance, PTL

\* No Worker holds more unexpired Attempts than its capacity.
THEOREM CapacityHolds == Spec => []WorkerNotOversold
<1>1. Facts => WorkerNotOversold
  BY DEF Facts
<1> QED BY <1>1, Invariance, PTL
-----------------------------------------------------------------------------
(* What a step may never do.                                               *)

\* A transaction about one Attempt leaves the other Runs alone.
LEMMA UntouchedByOther ==
  ASSUME TypeOK, NEW a \in Attempt, runStatus[RunOf(a)] \notin Terminal,
         \E q : runStatus' = [runStatus EXCEPT ![RunOf(a)] = q],
         \E n : retryCount' = [retryCount EXCEPT ![RunOf(a)] = n] \/ UNCHANGED retryCount,
         UNCHANGED attemptNo,
         \E n : pauseNo' = [pauseNo EXCEPT ![RunOf(a)] = n] \/ UNCHANGED pauseNo,
         \E p : pause' = [pause EXCEPT ![RunOf(a)] = p] \/ UNCHANGED pause,
         \E s : attStatus' = [attStatus EXCEPT ![a] = s],
         \E k : token' = [token EXCEPT ![a] = k]
  PROVE  TerminalRunsUntouched
<1> SUFFICES ASSUME NEW r \in Run, runStatus[r] \in Terminal
             PROVE  /\ UNCHANGED <<runStatus[r], retryCount[r], attemptNo[r], pauseNo[r], pause[r]>>
                    /\ \A n \in 1 .. MaxAttempts : UNCHANGED <<attStatus[<<r, n>>], token[<<r, n>>]>>
  BY DEF TerminalRunsUntouched
<1>1. r # RunOf(a) /\ RunOf(a) \in Run
  BY AttemptShape
<1>2. ASSUME NEW n \in 1 .. MaxAttempts
      PROVE  <<r, n>> \in Attempt /\ <<r, n>> # a
  BY <1>1, AttemptShape DEF Attempt, RunOf
<1>3. UNCHANGED <<runStatus[r], retryCount[r], attemptNo[r], pauseNo[r], pause[r]>>
  BY <1>1 DEF TypeOK
<1>4. \A n \in 1 .. MaxAttempts : UNCHANGED <<attStatus[<<r, n>>], token[<<r, n>>]>>
  BY <1>2 DEF TypeOK
<1> QED BY <1>3, <1>4

\* No step writes about a terminal Run.
LEMMA TerminalStep ==
  ASSUME Facts, [AnyStep]_vars
  PROVE  TerminalRunsUntouched
<1> USE DEF Facts
<1>1. ASSUME NEW r \in Run, Admit(r)
      PROVE  TerminalRunsUntouched
  BY <1>1
  DEF Admit, Insert, Transition, attemptVars, TerminalRunsUntouched, Terminal, TypeOK
<1>2. ASSUME NEW r \in Run, CancelRun(r)
      PROVE  TerminalRunsUntouched
  BY <1>2
  DEF CancelRun, Transition, attemptVars, TerminalRunsUntouched, Terminal, Waiting, TypeOK
<1>3. ASSUME NEW r \in Run, ResumeRun(r)
      PROVE  TerminalRunsUntouched
  BY <1>3
  DEF ResumeRun, Transition, attemptVars, TerminalRunsUntouched, Terminal, TypeOK
<1>4. ASSUME NEW r \in Run, NEW w \in Worker, Schedule(r, w)
      PROVE  TerminalRunsUntouched
  <2>1. <<r, attemptNo[r] + 1>> \in Attempt
    BY <1>4, NewAttempt DEF Schedule, Assign
  <2> QED
    BY <1>4, <2>1
    DEF Schedule, Assign, Transition, TerminalRunsUntouched, Terminal, TypeOK
<1>5. ASSUME NEW a \in Attempt, Recover(a)
      PROVE  TerminalRunsUntouched
  <2>1. attStatus[a] \in ActiveAttempt
    BY <1>5 DEF Recover, Recoverable, ActiveAttempt
  <2>2. runStatus[RunOf(a)] \notin Terminal
    BY <2>1, AttemptShape, LiveIsLatest
    DEF Terminal, AttemptStatusFor, ActiveAttempt
  <2> QED
    BY <1>5, <2>2, AttemptShape, UntouchedByOther
    DEF Recover, Recoverable, RecoveryCancels, RecoveryRetries, RecoveryFails, FinishAttempt, Transition
<1>6. ASSUME NEW a \in Attempt, Claim(a)
      PROVE  TerminalRunsUntouched
  <2>1. attStatus[a] \in ActiveAttempt
    BY <1>6 DEF Claim, ActiveAttempt
  <2>2. runStatus[RunOf(a)] \notin Terminal
    BY <2>1, AttemptShape, LiveIsLatest
    DEF Terminal, AttemptStatusFor, ActiveAttempt
  <2> QED
    BY <1>6, <2>2, AttemptShape, UntouchedByOther
    DEF Claim, Transition
<1>7. ASSUME NEW a \in Attempt, NEW k \in Nat, Complete(a, k)
      PROVE  TerminalRunsUntouched
  <2>1. attStatus[a] \in ActiveAttempt
    BY <1>7 DEF Complete, Authoritative, ActiveAttempt
  <2>2. runStatus[RunOf(a)] \notin Terminal
    BY <2>1, AttemptShape, LiveIsLatest
    DEF Terminal, AttemptStatusFor, ActiveAttempt
  <2> QED
    BY <1>7, <2>2, AttemptShape, UntouchedByOther
    DEF Complete, Authoritative, FinishAttempt, Transition
<1>8. ASSUME NEW a \in Attempt, NEW k \in Nat, Fail(a, k)
      PROVE  TerminalRunsUntouched
  <2>1. attStatus[a] \in ActiveAttempt
    BY <1>8 DEF Fail, Authoritative, ActiveAttempt
  <2>2. runStatus[RunOf(a)] \notin Terminal
    BY <2>1, AttemptShape, LiveIsLatest
    DEF Terminal, AttemptStatusFor, ActiveAttempt
  <2> QED
    BY <1>8, <2>2, AttemptShape, UntouchedByOther
    DEF Fail, Authoritative, FinishAttempt, Transition
<1>9. ASSUME NEW a \in Attempt, NEW k \in Nat,
             NEW type \in {"approval", "input"},
             Pause(a, k, type)
      PROVE  TerminalRunsUntouched
  <2>1. attStatus[a] \in ActiveAttempt
    BY <1>9 DEF Pause, Authoritative, ActiveAttempt
  <2>2. runStatus[RunOf(a)] \notin Terminal
    BY <2>1, AttemptShape, LiveIsLatest
    DEF Terminal, AttemptStatusFor, ActiveAttempt
  <2> QED
    BY <1>9, <2>2, AttemptShape, UntouchedByOther
    DEF Pause, Authoritative, FinishAttempt, Transition
<1>10. ASSUME NEW a \in Attempt, NEW k \in Nat, AcknowledgeCancel(a, k)
      PROVE  TerminalRunsUntouched
  <2>1. attStatus[a] \in ActiveAttempt
    BY <1>10 DEF AcknowledgeCancel, Authoritative, ActiveAttempt
  <2>2. runStatus[RunOf(a)] \notin Terminal
    BY <2>1, AttemptShape, LiveIsLatest
    DEF Terminal, AttemptStatusFor, ActiveAttempt
  <2> QED
    BY <1>10, <2>2, AttemptShape, UntouchedByOther
    DEF AcknowledgeCancel, Authoritative, FinishAttempt, Transition
<1>11. CASE BackgroundStep
  BY <1>11, BackgroundFrame DEF TerminalRunsUntouched
<1> QED
  BY <1>1, <1>2, <1>3, <1>4, <1>5, <1>6, <1>7, <1>8, <1>9, <1>10, <1>11,
     StepCases

\* No step takes a cancelled Run anywhere but to its end.
LEMMA CancelStep ==
  ASSUME TypeOK, [AnyStep]_vars
  PROVE  CancelledRunsOnlyStop
<1> USE DEF TypeOK, CancelledRunsOnlyStop
<1>1. ASSUME NEW r \in Run, Admit(r)
      PROVE  CancelledRunsOnlyStop
  BY <1>1 DEF Admit, Insert, Transition
<1>2. ASSUME NEW r \in Run, CancelRun(r)
      PROVE  CancelledRunsOnlyStop
  BY <1>2 DEF CancelRun, Transition, Waiting
<1>3. ASSUME NEW r \in Run, ResumeRun(r)
      PROVE  CancelledRunsOnlyStop
  BY <1>3 DEF ResumeRun, Transition
<1>4. ASSUME NEW r \in Run, NEW w \in Worker, Schedule(r, w)
      PROVE  CancelledRunsOnlyStop
  BY <1>4 DEF Schedule, Assign, Transition
<1>5. ASSUME NEW a \in Attempt, Recover(a)
      PROVE  CancelledRunsOnlyStop
  <2>1. CASE runStatus[RunOf(a)] = "cancel_requested"
    BY <1>5, <2>1, AttemptShape
    DEF Recover, Recoverable, RecoveryCancels, Transition
  <2>2. CASE /\ runStatus[RunOf(a)] # "cancel_requested"
             /\ retryCount[RunOf(a)] < 1
    BY <1>5, <2>2, AttemptShape
    DEF Recover, Recoverable, RecoveryRetries, Transition
  <2>3. CASE /\ runStatus[RunOf(a)] # "cancel_requested"
             /\ ~(retryCount[RunOf(a)] < 1)
    BY <1>5, <2>3, AttemptShape
    DEF Recover, Recoverable, RecoveryFails, Transition
  <2> QED BY <2>1, <2>2, <2>3 DEF TypeOK
<1>6. ASSUME NEW a \in Attempt, Claim(a)
      PROVE  CancelledRunsOnlyStop
  BY <1>6, AttemptShape DEF Claim, Transition
<1>7. ASSUME NEW a \in Attempt, NEW k \in Nat, Complete(a, k)
      PROVE  CancelledRunsOnlyStop
  BY <1>7, AttemptShape DEF Complete, Authoritative, Transition
<1>8. ASSUME NEW a \in Attempt, NEW k \in Nat, Fail(a, k)
      PROVE  CancelledRunsOnlyStop
  BY <1>8, AttemptShape DEF Fail, Authoritative, Transition
<1>9. ASSUME NEW a \in Attempt, NEW k \in Nat,
             NEW type \in {"approval", "input"},
             Pause(a, k, type)
      PROVE  CancelledRunsOnlyStop
  BY <1>9, AttemptShape DEF Pause, Authoritative, Transition
<1>10. ASSUME NEW a \in Attempt, NEW k \in Nat, AcknowledgeCancel(a, k)
      PROVE  CancelledRunsOnlyStop
  BY <1>10, AttemptShape DEF AcknowledgeCancel, Authoritative, Transition
<1>11. CASE BackgroundStep
  BY <1>11, BackgroundFrame
<1> QED
  BY <1>1, <1>2, <1>3, <1>4, <1>5, <1>6, <1>7, <1>8, <1>9, <1>10, <1>11,
     StepCases

\* The newest Attempt of a Run in flight has no outcome yet.
LEMMA NoOutcomeYet ==
  ASSUME Facts, NEW r \in Run, runStatus[r] \in {"running", "cancel_requested"}
  PROVE  /\ Latest(r) \in Attempt
         /\ attStatus[Latest(r)] \in ActiveAttempt
<1>1. attStatus[Latest(r)] \in AttemptStatusFor[runStatus[r]]
  BY DEF Facts, AttemptMatchesRun, NeverStarted
<1>2. attStatus[Latest(r)] \in ActiveAttempt
  BY <1>1 DEF AttemptStatusFor, ActiveAttempt
<1>3. attemptNo[r] \in 1 .. MaxAttempts
  BY ConstantsAssumption
  DEF Facts, TypeOK, AttemptsPaidFor, Waiting, MaxAttempts
<1> QED BY <1>2, <1>3 DEF Latest, Attempt

\* An outcome the lease holder writes satisfies OutcomesNeedLease.
LEMMA DecidedByHolder ==
  ASSUME Facts, NEW a \in Attempt, NEW k \in Nat,
         Authoritative(a, k, "running"),
         \E s : attStatus' = [attStatus EXCEPT ![a] = s]
  PROVE  OutcomesNeedLease
<1> SUFFICES ASSUME NEW r \in Run,
                    runStatus[r] \in {"running", "cancel_requested"},
                    attStatus'[Latest(r)] \in {"completed", "failed", "paused"}
             PROVE  /\ lease[Latest(r)] > 0
                    /\ <<Latest(r), token[Latest(r)]>> \in executing
                    /\ process[attWorker[Latest(r)]] \in {"up", "draining"}
  BY DEF OutcomesNeedLease
<1>1. Latest(r) \in Attempt /\ attStatus[Latest(r)] \in ActiveAttempt
  BY NoOutcomeYet
<1>2. Latest(r) = a
  BY <1>1 DEF Facts, TypeOK, ActiveAttempt
<1>3. <<a, k>> \in executing /\ token[a] = k /\ lease[a] > 0
  BY DEF Authoritative
<1>4. process[attWorker[a]] \in {"up", "draining"}
  BY <1>3 DEF Facts, ExecutorsAlive
<1> QED BY <1>2, <1>3, <1>4

\* A step that gives no Attempt an outcome satisfies it trivially.
LEMMA NoOutcome ==
  ASSUME Facts,
         \A a \in Attempt : attStatus'[a] \in {"completed", "failed", "paused"}
                               => attStatus'[a] = attStatus[a]
  PROVE  OutcomesNeedLease
  BY NoOutcomeYet DEF OutcomesNeedLease, ActiveAttempt

\* No step but that of a lease holder gives an outcome.
LEMMA LeaseStep ==
  ASSUME Facts, [AnyStep]_vars
  PROVE  OutcomesNeedLease
<1> USE DEF Facts
<1>1. ASSUME NEW r \in Run, Admit(r)
      PROVE  OutcomesNeedLease
  BY <1>1, NoOutcome DEF Admit, Insert, attemptVars
<1>2. ASSUME NEW r \in Run, CancelRun(r)
      PROVE  OutcomesNeedLease
  BY <1>2, NoOutcome DEF CancelRun, attemptVars
<1>3. ASSUME NEW r \in Run, ResumeRun(r)
      PROVE  OutcomesNeedLease
  BY <1>3, NoOutcome DEF ResumeRun, attemptVars
<1>4. ASSUME NEW r \in Run, NEW w \in Worker, Schedule(r, w)
      PROVE  OutcomesNeedLease
  BY <1>4, NoOutcome DEF Schedule, Assign, TypeOK
<1>5. ASSUME NEW a \in Attempt, Recover(a)
      PROVE  OutcomesNeedLease
  BY <1>5, NoOutcome DEF Recover, RecoveryCancels, RecoveryRetries,
     RecoveryFails, FinishAttempt, TypeOK
<1>6. ASSUME NEW a \in Attempt, Claim(a)
      PROVE  OutcomesNeedLease
  BY <1>6, NoOutcome DEF Claim, TypeOK
<1>7. ASSUME NEW a \in Attempt, NEW k \in Nat, Complete(a, k)
      PROVE  OutcomesNeedLease
  BY <1>7, DecidedByHolder DEF Complete, FinishAttempt
<1>8. ASSUME NEW a \in Attempt, NEW k \in Nat, Fail(a, k)
      PROVE  OutcomesNeedLease
  BY <1>8, DecidedByHolder DEF Fail, FinishAttempt
<1>9. ASSUME NEW a \in Attempt, NEW k \in Nat,
             NEW type \in {"approval", "input"},
             Pause(a, k, type)
      PROVE  OutcomesNeedLease
  BY <1>9, DecidedByHolder DEF Pause, FinishAttempt
<1>10. ASSUME NEW a \in Attempt, NEW k \in Nat, AcknowledgeCancel(a, k)
      PROVE  OutcomesNeedLease
  BY <1>10, NoOutcome DEF AcknowledgeCancel, FinishAttempt, TypeOK
<1>11. CASE BackgroundStep
  BY <1>11, BackgroundFrame, NoOutcome
<1> QED
  BY <1>1, <1>2, <1>3, <1>4, <1>5, <1>6, <1>7, <1>8, <1>9, <1>10, <1>11,
     StepCases


\* A terminal Run, its Attempts and its counters are never written again.
THEOREM TerminalRunsStay == Spec => TerminalIsFinal
<1>1. Facts /\ [AnyStep]_vars => [TerminalRunsUntouched]_vars
  BY TerminalStep DEF Facts
<1> QED BY <1>1, Invariance, CreatedIsAdmitted, PTL DEF Spec, TerminalIsFinal

\* A recorded cancellation wins over every result, retry and recovery.
THEOREM CancellationIsFinal == Spec => CancelIsFinal
<1>1. Facts /\ [AnyStep]_vars => [CancelledRunsOnlyStop]_vars
  BY CancelStep DEF Facts
<1> QED BY <1>1, Invariance, CreatedIsAdmitted, PTL DEF Spec, CancelIsFinal

\* Only the live process that holds the unexpired claim commits an outcome.
THEOREM LeaseHolderDecides == Spec => OnlyLeaseHolderDecides
<1>1. Facts /\ [AnyStep]_vars => [OutcomesNeedLease]_vars
  BY LeaseStep DEF Facts
<1> QED BY <1>1, Invariance, CreatedIsAdmitted, PTL DEF Spec, OnlyLeaseHolderDecides

-----------------------------------------------------------------------------
(* The life of an Attempt.                                                 *)

\* The statuses an Attempt may go on to.
NextAttemptStatus ==
  [s \in AttemptStatus |->
     CASE s = "absent" -> {"assigned"}
       [] s = "assigned" -> {"running", "lost", "cancelled"}
       [] s = "running" -> AttemptStatus \ {"absent", "assigned", "running"}
       [] OTHER -> {}]

\* Whatever the API, the Scheduler and the Workers do, an Attempt goes forward
\* through its life and never back: it has one Worker for good, it is claimed
\* only out of "assigned", and once it is over it has no token, gets none and
\* is never renewed.  A Worker, its tool ledger and its stream rely on this.
AttemptsMoveOn ==
  \A a \in Attempt :
    /\ attStatus'[a] = attStatus[a] \/ attStatus'[a] \in NextAttemptStatus[attStatus[a]]
    /\ attStatus[a] # "absent" => attWorker'[a] = attWorker[a]
    /\ issued'[a] # issued[a] => attStatus[a] = "assigned" /\ attStatus'[a] = "running"
    /\ attStatus[a] \notin ActiveAttempt \union {"absent"} =>
         UNCHANGED <<token[a], issued[a]>> /\ lease'[a] <= lease[a]

\* The end of an Attempt that is live.
Ending(a, s) ==
  /\ attStatus[a] \in ActiveAttempt
  /\ s \in NextAttemptStatus[attStatus[a]] \ ActiveAttempt
  /\ FinishAttempt(a, s)

\* What a step does to the Attempts: it assigns, claims, ends or renews one,
\* lets the leases run, or does nothing to any.
LEMMA AttemptSteps ==
  ASSUME TypeOK, [AnyStep]_vars
  PROVE  \/ \E r \in Run, w \in Worker : Schedule(r, w)
         \/ \E a \in Attempt : Claim(a)
         \/ \E a \in Attempt, s \in AttemptStatus : Ending(a, s)
         \/ \E a \in Attempt, k \in Nat : Renew(a, k)
         \/ Tick
         \/ UNCHANGED attemptVars
<1> USE DEF NextAttemptStatus, AttemptStatus, ActiveAttempt
<1>1. ASSUME NEW a \in Attempt, Recover(a)
      PROVE  \E s \in AttemptStatus : Ending(a, s)
  <2>1. attStatus[a] \in {"assigned", "running"}
    BY <1>1 DEF Recover, Recoverable
  <2>2. FinishAttempt(a, "cancelled") \/ FinishAttempt(a, "lost")
    BY <1>1 DEF Recover, RecoveryCancels, RecoveryRetries, RecoveryFails
  <2>3. Ending(a, "cancelled") \/ Ending(a, "lost")
    BY <2>1, <2>2 DEF Ending
  <2> QED BY <2>3
<1>2. ASSUME NEW a \in Attempt, NEW k \in Nat,
             \/ Complete(a, k) \/ Fail(a, k)
             \/ \E type \in {"approval", "input"} : Pause(a, k, type)
             \/ AcknowledgeCancel(a, k)
      PROVE  \E s \in AttemptStatus : Ending(a, s)
  <2>1. attStatus[a] = "running"
    BY <1>2 DEF Complete, Fail, Pause, AcknowledgeCancel, Authoritative
  <2>2. \E s \in {"completed", "failed", "paused", "cancelled"} : FinishAttempt(a, s)
    BY <1>2 DEF Complete, Fail, Pause, AcknowledgeCancel
  <2>3. \E s \in {"completed", "failed", "paused", "cancelled"} : Ending(a, s)
    BY <2>1, <2>2 DEF Ending
  <2> QED BY <2>3
<1>3. ASSUME NEW r \in Run, Admit(r) \/ CancelRun(r) \/ ResumeRun(r)
      PROVE  UNCHANGED attemptVars
  BY <1>3 DEF Admit, Insert, CancelRun, ResumeRun
<1>4. ASSUME \/ \E a \in Attempt, k \in Nat : Abandon(a, k)
             \/ ProcessStep
             \/ UNCHANGED vars
      PROVE  UNCHANGED attemptVars
  BY <1>4 DEF Abandon, ProcessStep, Register, Heartbeat, Drain, Stop, Crash, vars
<1> QED BY <1>1, <1>2, <1>3, <1>4, StepCases DEF BackgroundStep

\* Attempts only go forward.
LEMMA MoveOnStep ==
  ASSUME Facts, [AnyStep]_vars
  PROVE  AttemptsMoveOn
<1> USE DEF Facts, TypeOK
<1>1. ASSUME NEW r \in Run, NEW w \in Worker, Schedule(r, w)
      PROVE  AttemptsMoveOn
  <2> DEFINE b == <<r, attemptNo[r] + 1>>
  <2>1. b \in Attempt /\ attStatus[b] = "absent"
    BY <1>1, NewAttempt DEF Schedule
  <2>2. attStatus'[b] = "assigned" /\ UNCHANGED <<token, issued>>
    BY <1>1, <2>1 DEF Schedule, Assign
  <2>3. ASSUME NEW a \in Attempt, a # b
        PROVE  attStatus'[a] = attStatus[a] /\ attWorker'[a] = attWorker[a] /\ lease'[a] = lease[a]
    BY <1>1, <2>3 DEF Schedule, Assign
  <2>4. \A a \in Attempt : lease[a] <= lease[a]
    BY ConstantsAssumption
  <2>5. "assigned" \in NextAttemptStatus["absent"]
    BY DEF NextAttemptStatus, AttemptStatus
  <2> HIDE DEF b
  <2> QED BY <2>1, <2>2, <2>3, <2>4, <2>5 DEF AttemptsMoveOn
<1>2. ASSUME NEW b \in Attempt, Claim(b)
      PROVE  AttemptsMoveOn
  <2>1. /\ attStatus[b] = "assigned" /\ attStatus'[b] = "running" /\ attWorker' = attWorker
        /\ \A a \in Attempt : a # b =>
             /\ attStatus'[a] = attStatus[a] /\ token'[a] = token[a]
             /\ issued'[a] = issued[a] /\ lease'[a] = lease[a]
    BY <1>2 DEF Claim
  <2>2. \A a \in Attempt : lease[a] <= lease[a]
    BY ConstantsAssumption
  <2>3. "running" \in NextAttemptStatus["assigned"]
    BY DEF NextAttemptStatus, AttemptStatus
  <2> QED BY <2>1, <2>2, <2>3 DEF AttemptsMoveOn, ActiveAttempt
<1>3. ASSUME NEW b \in Attempt, NEW s \in AttemptStatus, Ending(b, s)
      PROVE  AttemptsMoveOn
  <2>1. /\ attStatus[b] \in ActiveAttempt /\ attStatus'[b] = s
        /\ s \in NextAttemptStatus[attStatus[b]] /\ attWorker' = attWorker /\ issued' = issued
        /\ \A a \in Attempt : a # b =>
             attStatus'[a] = attStatus[a] /\ token'[a] = token[a] /\ lease'[a] = lease[a]
    BY <1>3 DEF Ending, FinishAttempt
  <2>2. \A a \in Attempt : lease[a] <= lease[a]
    BY ConstantsAssumption
  <2> QED BY <2>1, <2>2 DEF AttemptsMoveOn
<1>4. ASSUME NEW b \in Attempt, NEW k \in Nat, Renew(b, k)
      PROVE  AttemptsMoveOn
  <2>1. /\ attStatus[b] = "running" /\ UNCHANGED <<attStatus, attWorker, token, issued>>
        /\ \A a \in Attempt : a # b => lease'[a] = lease[a]
    BY <1>4 DEF Renew, Authoritative
  <2>2. \A a \in Attempt : lease[a] <= lease[a]
    BY ConstantsAssumption
  <2> QED BY <2>1, <2>2 DEF AttemptsMoveOn, ActiveAttempt
<1>5. CASE Tick
  <2>1. \A a \in Attempt : lease'[a] <= lease[a]
    BY <1>5, ConstantsAssumption DEF Tick
  <2> QED BY <1>5, <2>1 DEF Tick, AttemptsMoveOn
<1>6. CASE UNCHANGED attemptVars
  <2>1. \A a \in Attempt : lease[a] <= lease[a]
    BY ConstantsAssumption
  <2> QED BY <1>6, <2>1 DEF attemptVars, AttemptsMoveOn
<1> QED BY <1>1, <1>2, <1>3, <1>4, <1>5, <1>6, AttemptSteps

\* No step takes an Attempt back: what _finish_attempt, claim and the
\* Scheduler's insert do to run_attempts, for any number of them.
THEOREM AttemptsOnlyMoveOn == Spec => [][AttemptsMoveOn]_vars
<1>1. Facts /\ [AnyStep]_vars => [AttemptsMoveOn]_vars
  BY MoveOnStep
<1> QED BY <1>1, Invariance, CreatedIsAdmitted, PTL DEF Spec

-----------------------------------------------------------------------------
(* Why cancellations take effect and no Attempt is stranded.               *)
(*                                                                         *)
(* That the Scheduler does recover what it may recover is fairness; the    *)
(* rest is shown here: an Attempt that is not to be renewed has at most    *)
(* the ticks left that its lease has, after which recovery is allowed, and *)
(* remains so until the Attempt is over.                                   *)

\* Not claimed yet, or nobody may renew it: its Run is being cancelled, or
\* the process that had claimed it is gone.
OnItsLastLease(a) ==
  \/ attStatus[a] = "assigned"
  \/ attStatus[a] = "running" /\ runStatus[RunOf(a)] = "cancel_requested"
  \/ attStatus[a] = "running" /\ process[attWorker[a]] = "down"

\* An Attempt stays on its last lease until its status changes: the lease
\* is never extended and shortened by every tick; and a recovery is the end of
\* the Attempt, and of the Run if that is being cancelled.
LastLeases ==
  \A a \in Attempt :
    /\ OnItsLastLease(a) /\ attStatus'[a] = attStatus[a] =>
         /\ OnItsLastLease(a)'
         /\ lease'[a] <= lease[a]
         /\ Tick => lease'[a] = 0 \/ lease'[a] < lease[a]
    /\ Recover(a) =>
         /\ attStatus'[a] \notin ActiveAttempt
         /\ runStatus[RunOf(a)] = "cancel_requested" => runStatus'[RunOf(a)] = "cancelled"

\* A live Attempt whose lease has run out is one that recovery takes: no
\* status of its Run hides it from the query.  While a Run is being cancelled
\* its newest Attempt is on its last lease.
RecoveryIsDue ==
  /\ \A a \in Attempt : attStatus[a] \in ActiveAttempt /\ lease[a] = 0 => Recoverable(a)
  /\ \A r \in Run : runStatus[r] = "cancel_requested" =>
       Latest(r) \in Attempt /\ OnItsLastLease(Latest(r))

LEMMA DueNow ==
  ASSUME Facts
  PROVE  RecoveryIsDue
<1>1. ASSUME NEW a \in Attempt, attStatus[a] \in ActiveAttempt, lease[a] = 0
      PROVE  Recoverable(a)
  <2>1. attStatus[a] \in AttemptStatusFor[runStatus[RunOf(a)]] /\ RunOf(a) \in Run
    BY <1>1, LiveIsLatest, AttemptShape DEF Facts
  <2>2. runStatus[RunOf(a)] \in RunStatus
    BY <2>1 DEF Facts, TypeOK
  <2>3. runStatus[RunOf(a)] \in {"assigned", "running", "cancel_requested"}
    BY <1>1, <2>1, <2>2 DEF AttemptStatusFor, ActiveAttempt, RunStatus
  <2> QED BY <1>1, <2>3 DEF Recoverable
<1>2. ASSUME NEW r \in Run, runStatus[r] = "cancel_requested"
      PROVE  Latest(r) \in Attempt /\ OnItsLastLease(Latest(r))
  <2>1. Latest(r) \in Attempt /\ attStatus[Latest(r)] \in ActiveAttempt
    BY <1>2, NoOutcomeYet
  <2>2. RunOf(Latest(r)) = r
    BY DEF Latest, RunOf
  <2> QED BY <1>2, <2>1, <2>2 DEF OnItsLastLease, ActiveAttempt
<1> QED BY <1>1, <1>2 DEF RecoveryIsDue

\* Nobody brings a dead process back: a restarted one registers anew.
LEMMA DownForGood ==
  ASSUME TypeOK, [AnyStep]_vars, NEW w \in Worker, process[w] = "down"
  PROVE  process'[w] = "down"
<1>1. CASE ProcessStep
  BY <1>1 DEF ProcessStep, Register, Heartbeat, Drain, Stop, Crash, TypeOK
<1>2. CASE ~ProcessStep
  <2>1. process' = process
    BY <1>2 DEF AnyStep, Next, ApiStep, SchedulerStep, CommandStep, Finish, CreateRun, CancelRun,
         ResumeRun, Admit, Insert, Schedule, Assign, Recover, Claim, Renew, Complete, Fail, Pause,
         AcknowledgeCancel, Abandon, Tick, vars, workerVars
  <2> QED BY <2>1
<1> QED BY <1>1, <1>2

\* The lease of an Attempt on its last lease.
LEMMA LastLeaseRuns ==
  ASSUME Facts, [AnyStep]_vars, NEW a \in Attempt, OnItsLastLease(a),
         attStatus'[a] = attStatus[a]
  PROVE  /\ lease'[a] <= lease[a]
         /\ Tick => lease'[a] = 0 \/ lease'[a] < lease[a]
<1> USE DEF Facts, TypeOK
<1>1. lease[a] \in Nat /\ attStatus[a] \in ActiveAttempt
  BY ConstantsAssumption DEF OnItsLastLease, ActiveAttempt
<1>2. CASE Tick
  <2>1. lease'[a] = IF lease[a] > 0 THEN lease[a] - 1 ELSE 0
    BY <1>2 DEF Tick
  <2> QED BY <1>1, <2>1
<1>3. CASE ~Tick
  <2> SUFFICES lease'[a] = lease[a]
    BY <1>1, <1>3
  <2>1. ASSUME NEW r \in Run, NEW w \in Worker, Schedule(r, w)
        PROVE  lease'[a] = lease[a]
    <3>1. attStatus[<<r, attemptNo[r] + 1>>] = "absent"
      BY <2>1, NewAttempt DEF Schedule
    <3>2. a # <<r, attemptNo[r] + 1>>
      BY <1>1, <3>1 DEF ActiveAttempt
    <3> QED BY <2>1, <3>2 DEF Schedule, Assign
  <2>2. ASSUME NEW b \in Attempt, Claim(b)
        PROVE  lease'[a] = lease[a]
    <3>1. a # b
      BY <2>2 DEF Claim
    <3> QED BY <2>2, <3>1 DEF Claim
  <2>3. ASSUME NEW b \in Attempt, NEW s \in AttemptStatus, Ending(b, s)
        PROVE  lease'[a] = lease[a]
    <3>1. a # b
      BY <1>1, <2>3 DEF Ending, FinishAttempt
    <3> QED BY <2>3, <3>1 DEF Ending, FinishAttempt
  <2>4. ASSUME NEW b \in Attempt, NEW k \in Nat, Renew(b, k)
        PROVE  lease'[a] = lease[a]
    <3>1. /\ attStatus[b] = "running" /\ runStatus[RunOf(b)] = "running"
          /\ <<b, k>> \in executing
      BY <2>4 DEF Renew, Authoritative
    <3>2. process[attWorker[b]] \in {"up", "draining"}
      BY <3>1 DEF ExecutorsAlive
    <3>3. a # b
      BY <3>1, <3>2 DEF OnItsLastLease
    <3> QED BY <2>4, <3>3 DEF Renew
  <2>5. CASE UNCHANGED attemptVars
    BY <2>5 DEF attemptVars
  <2> QED BY <1>3, <2>1, <2>2, <2>3, <2>4, <2>5, AttemptSteps
<1> QED BY <1>2, <1>3

\* It stays the last one.
LEMMA LastLeaseStays ==
  ASSUME Facts, [AnyStep]_vars, NEW a \in Attempt, OnItsLastLease(a),
         attStatus'[a] = attStatus[a]
  PROVE  OnItsLastLease(a)'
<1>1. CASE attStatus[a] = "assigned"
  BY <1>1 DEF OnItsLastLease
<1>2. CASE attStatus[a] = "running" /\ runStatus[RunOf(a)] = "cancel_requested"
  <2> DEFINE r == RunOf(a)
  <2>1. r \in Run /\ a = Latest(r) /\ a[2] = attemptNo[r] /\ a[2] \in 1 .. MaxAttempts
    BY <1>2, AttemptShape, LiveIsLatest DEF Facts, ActiveAttempt
  <2>2. runStatus'[r] \in {"cancel_requested", "cancelled"} /\ attemptNo'[r] = attemptNo[r]
    BY <1>2, <2>1, CancelStep DEF Facts, CancelledRunsOnlyStop
  <2>3. AttemptMatchesRun'
    BY FactsStep DEF Facts
  <2>4. Latest(r)' = a /\ attemptNo'[r] # 0
    BY <2>1, <2>2, ConstantsAssumption DEF Latest, MaxAttempts
  <2>5. attStatus'[a] \in AttemptStatusFor[runStatus'[r]]
    BY <2>1, <2>3, <2>4 DEF AttemptMatchesRun, NeverStarted
  <2>6. runStatus'[r] = "cancel_requested"
    BY <1>2, <2>2, <2>5 DEF AttemptStatusFor
  <2> QED BY <1>2, <2>6 DEF OnItsLastLease
<1>3. CASE attStatus[a] = "running" /\ process[attWorker[a]] = "down"
  <2>1. attWorker[a] \in Worker
    BY <1>3 DEF Facts, ExecutorsAlive
  <2>2. attWorker'[a] = attWorker[a]
    BY <1>3, MoveOnStep DEF AttemptsMoveOn
  <2>3. process'[attWorker[a]] = "down"
    BY <1>3, <2>1, DownForGood DEF Facts
  <2> QED BY <1>3, <2>2, <2>3 DEF OnItsLastLease
<1> QED BY <1>1, <1>2, <1>3 DEF OnItsLastLease

\* The safety kernel of CancelTakesEffect and StrandedAttemptsResolve: the
\* lease of an Attempt nobody may renew runs down with every tick, and the
\* recovery that follows ends it.
THEOREM LastLeasesRunOut == Spec => [][LastLeases]_vars
<1>1. Facts /\ [AnyStep]_vars => [LastLeases]_vars
  <2> SUFFICES ASSUME Facts, [AnyStep]_vars, NEW a \in Attempt, Recover(a)
               PROVE  /\ attStatus'[a] \notin ActiveAttempt
                      /\ runStatus[RunOf(a)] = "cancel_requested"
                           => runStatus'[RunOf(a)] = "cancelled"
    BY LastLeaseRuns, LastLeaseStays DEF LastLeases
  <2>1. attStatus'[a] \notin ActiveAttempt
    BY DEF Recover, RecoveryCancels, RecoveryRetries, RecoveryFails, FinishAttempt, Facts, TypeOK,
         ActiveAttempt
  <2>2. runStatus[RunOf(a)] = "cancel_requested" => runStatus'[RunOf(a)] = "cancelled"
    BY AttemptShape DEF Recover, RecoveryCancels, Transition, Facts, TypeOK
  <2> QED BY <2>1, <2>2
<1> QED BY <1>1, Invariance, CreatedIsAdmitted, PTL DEF Spec

\* The other half of it: recovery is never held up by the status of a Run.
THEOREM RecoveryIsAlwaysDue == Spec => []RecoveryIsDue
  BY DueNow, Invariance, PTL

-----------------------------------------------------------------------------
(* Refinement.                                                             *)

\* The phases, one by one.
LEMMA PhaseTable ==
  /\ PhaseOf["absent"] = "absent"
  /\ PhaseOf["queued"] = "pending"
  /\ PhaseOf["assigned"] = "executing"
  /\ PhaseOf["running"] = "executing"
  /\ PhaseOf["waiting_approval"] = "waiting"
  /\ PhaseOf["waiting_input"] = "waiting"
  /\ PhaseOf["cancel_requested"] = "stopping"
  /\ PhaseOf["completed"] = "completed"
  /\ PhaseOf["failed"] = "failed"
  /\ PhaseOf["cancelled"] = "cancelled"
  BY DEF PhaseOf

\* Moving one Run in the tables moves its phase alone.
LEMMA PhaseMoves ==
  ASSUME TypeOK, NEW r \in Run, NEW q \in RunStatus,
         runStatus' = [runStatus EXCEPT ![r] = q]
  PROVE  Lifecycle!Move(r, PhaseOf[runStatus[r]], PhaseOf[q])
  BY DEF Lifecycle!Move, TypeOK

\* Every step is one step of the lifecycle or a stutter.
LEMMA LifecycleStep ==
  ASSUME TypeOK, [AnyStep]_vars
  PROVE  [Lifecycle!Next]_(Lifecycle!vars)
<1>1. ASSUME NEW r \in Run, Admit(r)
      PROVE  [Lifecycle!Next]_(Lifecycle!vars)
  <2>1. Lifecycle!Move(r, "absent", "pending")
    BY <1>1, PhaseMoves, PhaseTable DEF Admit, Insert, Transition, RunStatus
  <2> QED
    BY <1>1, <2>1
    DEF Admit, Insert, Lifecycle!Next, Lifecycle!RunStep, Lifecycle!Accept
<1>2. ASSUME NEW r \in Run, CancelRun(r)
      PROVE  [Lifecycle!Next]_(Lifecycle!vars)
  <2>1. \/ Lifecycle!Move(r, "pending", "cancelled")
        \/ Lifecycle!Move(r, "waiting", "cancelled")
        \/ Lifecycle!Move(r, "executing", "stopping")
    BY <1>2, PhaseMoves, PhaseTable
    DEF CancelRun, Transition, RunStatus, Waiting
  <2> QED
    BY <1>2, <2>1
    DEF CancelRun, Lifecycle!Next, Lifecycle!RunStep, Lifecycle!Cancel
<1>3. ASSUME NEW r \in Run, ResumeRun(r)
      PROVE  [Lifecycle!Next]_(Lifecycle!vars)
  <2>1. Lifecycle!Move(r, "waiting", "pending")
    BY <1>3, PhaseMoves, PhaseTable DEF ResumeRun, Transition, RunStatus
  <2> QED
    BY <1>3, <2>1
    DEF ResumeRun, Lifecycle!Next, Lifecycle!RunStep, Lifecycle!Resume
<1>4. ASSUME NEW r \in Run, NEW w \in Worker, Schedule(r, w)
      PROVE  [Lifecycle!Next]_(Lifecycle!vars)
  <2>1. Lifecycle!Move(r, "pending", "executing")
    BY <1>4, PhaseMoves, PhaseTable DEF Schedule, Assign, Transition, RunStatus
  <2> QED
    BY <1>4, <2>1
    DEF Schedule, Assign, Lifecycle!Next, Lifecycle!RunStep, Lifecycle!Dispatch
<1>5. ASSUME NEW a \in Attempt, Recover(a)
      PROVE  [Lifecycle!Next]_(Lifecycle!vars)
  <2> DEFINE r == RunOf(a)
  <2>1. r \in Run
    BY AttemptShape
  <2>2. CASE runStatus[r] = "cancel_requested"
    <3>1. Lifecycle!Move(r, "stopping", "cancelled")
      BY <1>5, <2>1, <2>2, PhaseMoves, PhaseTable
      DEF Recover, RecoveryCancels, Transition, RunStatus
    <3> QED
      BY <1>5, <2>1, <2>2, <3>1 DEF Recover, RecoveryCancels, Lifecycle!Next,
         Lifecycle!RunStep, Lifecycle!Stop
  <2>3. CASE runStatus[r] # "cancel_requested" /\ retryCount[r] < 1
    <3>1. Lifecycle!Move(r, "executing", "pending")
      BY <1>5, <2>1, <2>3, PhaseMoves, PhaseTable
      DEF Recover, Recoverable, RecoveryRetries, Transition, RunStatus
    <3>2. retryCount[r] = 0 /\ retryCount' = [retryCount EXCEPT ![r] = 1]
      BY <1>5, <2>1, <2>3 DEF Recover, RecoveryRetries, TypeOK
    <3> QED
      BY <2>1, <3>1, <3>2
      DEF Lifecycle!Next, Lifecycle!RunStep, Lifecycle!Restart
  <2>4. CASE runStatus[r] # "cancel_requested" /\ ~(retryCount[r] < 1)
    <3>1. Lifecycle!Move(r, "executing", "failed")
      BY <1>5, <2>1, <2>4, PhaseMoves, PhaseTable
      DEF Recover, Recoverable, RecoveryFails, Transition, RunStatus
    <3> QED
      BY <1>5, <2>1, <2>4, <3>1 DEF Recover, RecoveryFails, Lifecycle!Next,
         Lifecycle!RunStep, Lifecycle!Decide
  <2> QED BY <2>2, <2>3, <2>4
<1>6. ASSUME NEW a \in Attempt, Claim(a)
      PROVE  [Lifecycle!Next]_(Lifecycle!vars)
  <2>1. UNCHANGED Lifecycle!vars
    BY <1>6, AttemptShape DEF Claim, Transition, PhaseOf, Lifecycle!vars, TypeOK
  <2> QED BY <2>1
<1>7. ASSUME NEW a \in Attempt, NEW k \in Nat, Complete(a, k)
      PROVE  [Lifecycle!Next]_(Lifecycle!vars)
  <2>1. Lifecycle!Move(RunOf(a), "executing", "completed")
    BY <1>7, AttemptShape, PhaseMoves, PhaseTable
    DEF Complete, Authoritative, Transition, RunStatus
  <2> QED
    BY <1>7, <2>1, AttemptShape DEF Complete, Lifecycle!Next, Lifecycle!RunStep,
       Lifecycle!Decide
<1>8. ASSUME NEW a \in Attempt, NEW k \in Nat, Fail(a, k)
      PROVE  [Lifecycle!Next]_(Lifecycle!vars)
  <2>1. Lifecycle!Move(RunOf(a), "executing", "failed")
    BY <1>8, AttemptShape, PhaseMoves, PhaseTable
    DEF Fail, Authoritative, Transition, RunStatus
  <2> QED
    BY <1>8, <2>1, AttemptShape DEF Fail, Lifecycle!Next, Lifecycle!RunStep,
       Lifecycle!Decide
<1>9. ASSUME NEW a \in Attempt, NEW k \in Nat,
             NEW type \in {"approval", "input"},
             Pause(a, k, type)
      PROVE  [Lifecycle!Next]_(Lifecycle!vars)
  <2>1. Lifecycle!Move(RunOf(a), "executing", "waiting")
    BY <1>9, AttemptShape, PhaseMoves, PhaseTable
    DEF Pause, Authoritative, Transition, RunStatus
  <2> QED
    BY <1>9, <2>1, AttemptShape DEF Pause, Lifecycle!Next, Lifecycle!RunStep,
       Lifecycle!Suspend
<1>10. ASSUME NEW a \in Attempt, NEW k \in Nat, AcknowledgeCancel(a, k)
      PROVE  [Lifecycle!Next]_(Lifecycle!vars)
  <2>1. Lifecycle!Move(RunOf(a), "stopping", "cancelled")
    BY <1>10, AttemptShape, PhaseMoves, PhaseTable
    DEF AcknowledgeCancel, Authoritative, Transition, RunStatus
  <2> QED
    BY <1>10, <2>1, AttemptShape DEF AcknowledgeCancel, Lifecycle!Next,
       Lifecycle!RunStep, Lifecycle!Stop
<1>11. CASE BackgroundStep
  <2>1. UNCHANGED Lifecycle!vars
    BY <1>11, BackgroundFrame DEF Lifecycle!vars
  <2> QED BY <2>1
<1> QED
  BY <1>1, <1>2, <1>3, <1>4, <1>5, <1>6, <1>7, <1>8, <1>9, <1>10, <1>11,
     StepCases

\* The control plane implements the safety part of the promised lifecycle.
THEOREM RefinesLifecycle ==
  Spec => Lifecycle!Init /\ [][Lifecycle!Next]_(Lifecycle!vars)
<1>1. Init => Lifecycle!Init
  BY DEF Init, Lifecycle!Init, PhaseOf
<1>2. Facts /\ [AnyStep]_vars => [Lifecycle!Next]_(Lifecycle!vars)
  BY LifecycleStep DEF Facts
<1> QED BY <1>1, <1>2, Invariance, CreatedIsAdmitted, PTL DEF Spec
=============================================================================
