----------------------------- MODULE RunControl -----------------------------
(***************************************************************************)
(* The durable facts of the run control plane: the rows PostgreSQL holds   *)
(* for Runs, Attempts, Pauses, the transactional outbox and Workers, and   *)
(* the transactions of the API (RunService), the Scheduler                 *)
(* (SchedulingService), the Workers (AttemptService, WorkerRegistry) that  *)
(* change them.  Each action is one committed transaction: all of them     *)
(* lock the Attempt and then the Run (the Scheduler locks the Run and      *)
(* creates the Attempt), so they are serializable per Run.                 *)
(*                                                                         *)
(* Time is the remaining life of every lease and heartbeat, in ticks: a    *)
(* lease has expired ("lease_expires_at <= now") when 0 ticks are left.    *)
(*                                                                         *)
(* Left to other modules: the order in which the Scheduler picks tenants   *)
(* and Runs and the queue_reason column that biases it, the delivery of    *)
(* the outbox rows through Redis, the tool ledger.  Here a Run, a Worker   *)
(* are picked and a notification arrives in any order.                     *)
(***************************************************************************)
EXTENDS Naturals, FiniteSets

CONSTANTS
  Run,            \* the POST /runs requests, one per idempotency key
  Session,        \* chat sessions
  Tenant,
  Worker,         \* worker registrations: a restarted process registers anew
  NoWorker,       \* the worker_id of an Attempt that does not exist yet
  SessionOf,      \* the session of every Run
  TenantOf,       \* the tenant of every session
  MaxQueued,      \* tenants.max_queued_runs
  MaxRunning,     \* tenants.max_running_runs
  Capacity,       \* run_workers.capacity
  LeaseDuration,  \* ticks of an Attempt lease
  HeartbeatTTL,   \* ticks for which a heartbeat keeps a Worker schedulable
  MaxPauses       \* bound: pauses of one Run before its executor must finish

ASSUME ConstantsAssumption ==
  /\ IsFiniteSet(Run)
  /\ SessionOf \in [Run -> Session]
  /\ TenantOf \in [Session -> Tenant]
  /\ MaxQueued \in [Tenant -> Nat]
  /\ MaxRunning \in [Tenant -> Nat]
  /\ Capacity \in [Worker -> Nat \ {0}]
  /\ LeaseDuration \in Nat \ {0}
  /\ HeartbeatTTL \in Nat \ {0}
  /\ MaxPauses \in Nat
  /\ NoWorker \notin Worker

RunStatus == {"absent", "queued", "assigned", "running", "waiting_approval",
              "waiting_input", "cancel_requested", "completed", "failed",
              "cancelled"}
AttemptStatus == {"absent", "assigned", "running", "completed", "failed",
                  "lost", "cancelled", "paused"}

Waiting == {"waiting_approval", "waiting_input"}
Terminal == {"completed", "failed", "cancelled"}
ActiveRun == {"queued", "assigned", "running", "cancel_requested"} \union Waiting
ActiveAttempt == {"assigned", "running"}

\* The statuses that use up tenants.max_running_runs.
TenantCapacityStatus == {"assigned", "running", "cancel_requested"}

\* "absent" stands for a row that is not there; only an insert leaves it.
AllowedTransitions ==
  [absent           |-> {},
   queued           |-> {"assigned", "cancelled"},
   assigned         |-> {"running", "queued", "failed", "cancel_requested"},
   running          |-> {"completed", "failed", "queued", "waiting_approval",
                         "waiting_input", "cancel_requested"},
   waiting_approval |-> {"queued", "cancelled"},
   waiting_input    |-> {"queued", "cancelled"},
   cancel_requested |-> {"cancelled"},
   completed        |-> {},
   failed           |-> {},
   cancelled        |-> {}]

\* Every Attempt beyond the first follows a resumed pause or the one retry.
MaxAttempts == MaxPauses + 2
Attempt == Run \X (1 .. MaxAttempts)
RunOf(a) == a[1]

VARIABLES
  runStatus,    \* runs.status
  retryCount,   \* runs.retry_count
  attemptNo,    \* the highest run_attempts.attempt_no of a Run
  pauseNo,      \* the highest run_pauses.pause_no of a Run
  pause,        \* the latest pause: none, its type while unresolved, resolved
  attStatus,    \* run_attempts.status
  attWorker,    \* run_attempts.worker_id
  lease,        \* ticks left of run_attempts.lease_expires_at
  token,        \* run_attempts.claim_token, 0 when NULL
  issued,       \* claim tokens ever generated for an Attempt
  assignedMsg,  \* outbox row attempt.assigned: none, pending, acked
  cancelMsg,    \* outbox row attempt.cancel: none, pending, acked
  workerStatus, \* run_workers.status
  heartbeat,    \* ticks for which run_workers.heartbeat_at is still fresh
  process,      \* the operating system process behind a registration
  executing     \* <<attempt, token>> held in the memory of a worker process

runVars == <<runStatus, retryCount, attemptNo, pauseNo, pause>>
attemptVars == <<attStatus, attWorker, lease, token, issued>>
outboxVars == <<assignedMsg, cancelMsg>>
workerVars == <<workerStatus, heartbeat, process>>
vars == <<runVars, attemptVars, outboxVars, workerVars, executing>>

TypeOK ==
  /\ runStatus \in [Run -> RunStatus]
  /\ retryCount \in [Run -> 0 .. 1]
  /\ attemptNo \in [Run -> 0 .. MaxAttempts]
  /\ pauseNo \in [Run -> 0 .. MaxPauses]
  /\ pause \in [Run -> {"none", "approval", "input", "resolved"}]
  /\ attStatus \in [Attempt -> AttemptStatus]
  /\ attWorker \in [Attempt -> Worker \union {NoWorker}]
  /\ lease \in [Attempt -> 0 .. LeaseDuration]
  /\ token \in [Attempt -> Nat]
  /\ issued \in [Attempt -> Nat]
  /\ assignedMsg \in [Attempt -> {"none", "pending", "acked"}]
  /\ cancelMsg \in [Run -> {"none", "pending", "acked"}]
  /\ workerStatus \in [Worker -> {"absent", "online", "draining", "offline"}]
  /\ heartbeat \in [Worker -> 0 .. HeartbeatTTL]
  /\ process \in [Worker -> {"absent", "up", "draining", "down"}]
  /\ executing \subseteq Attempt \X Nat

Init ==
  /\ runStatus = [r \in Run |-> "absent"]
  /\ retryCount = [r \in Run |-> 0]
  /\ attemptNo = [r \in Run |-> 0]
  /\ pauseNo = [r \in Run |-> 0]
  /\ pause = [r \in Run |-> "none"]
  /\ attStatus = [a \in Attempt |-> "absent"]
  /\ attWorker = [a \in Attempt |-> NoWorker]
  /\ lease = [a \in Attempt |-> 0]
  /\ token = [a \in Attempt |-> 0]
  /\ issued = [a \in Attempt |-> 0]
  /\ assignedMsg = [a \in Attempt |-> "none"]
  /\ cancelMsg = [r \in Run |-> "none"]
  /\ workerStatus = [w \in Worker |-> "absent"]
  /\ heartbeat = [w \in Worker |-> 0]
  /\ process = [w \in Worker |-> "absent"]
  /\ executing = {}

-----------------------------------------------------------------------------
(* What the transactions read.                                             *)

Latest(r) == <<r, attemptNo[r]>>
TenantOfRun(r) == TenantOf[SessionOf[r]]

\* Mutant: a Run that waits for its user no longer blocks its session.
OtherRunNotWaiting(r) ==
  {q \in Run \ {r} : SessionOf[q] = SessionOf[r]
                     /\ runStatus[q] \in ActiveRun \ Waiting}

OtherActiveRun(r) ==
  {q \in Run \ {r} : SessionOf[q] = SessionOf[r] /\ runStatus[q] \in ActiveRun}

QueuedRuns(t) == {r \in Run : TenantOfRun(r) = t /\ runStatus[r] = "queued"}

TenantActiveRuns(t) ==
  {r \in Run : TenantOfRun(r) = t /\ runStatus[r] \in TenantCapacityStatus}

TenantHasSlot(t) == Cardinality(TenantActiveRuns(t)) < MaxRunning[t]

\* Attempts counted against the capacity of w: expired leases are not.
LiveAttempts(w) ==
  {a \in Attempt : /\ attWorker[a] = w
                   /\ attStatus[a] \in ActiveAttempt
                   /\ lease[a] > 0}

UnresolvedPause(r) == pause[r] \in {"approval", "input"}

Schedulable(w) ==
  /\ workerStatus[w] = "online"
  /\ heartbeat[w] > 0
  /\ Cardinality(LiveAttempts(w)) < Capacity[w]

\* Mutant: the expiry of the lease is not checked.
AuthoritativeAfterExpiry(a, k, required) ==
  /\ <<a, k>> \in executing
  /\ attStatus[a] = "running"
  /\ token[a] = k
  /\ runStatus[RunOf(a)] = required

\* AttemptService._require_authoritative: the command of the process that
\* holds token k for Attempt a is accepted.
Authoritative(a, k, required) ==
  /\ <<a, k>> \in executing
  /\ attStatus[a] = "running"
  /\ token[a] = k
  /\ lease[a] > 0
  /\ runStatus[RunOf(a)] = required

(* What they write.                                                        *)

Transition(r, target) ==
  /\ target \in AllowedTransitions[runStatus[r]]
  /\ runStatus' = [runStatus EXCEPT ![r] = target]

Acked(row) == IF row = "pending" THEN "acked" ELSE row

\* Mutant: the claim token outlives the Attempt.
FinishKeepingToken(a, status) ==
  /\ attStatus' = [attStatus EXCEPT ![a] = status]
  /\ lease' = [lease EXCEPT ![a] = 0]
  /\ UNCHANGED <<attWorker, token, issued>>

\* AttemptService._finish_attempt; the lease of a finished Attempt is never
\* read again, so its remaining ticks are dropped.
FinishAttempt(a, status) ==
  /\ attStatus' = [attStatus EXCEPT ![a] = status]
  /\ token' = [token EXCEPT ![a] = 0]
  /\ lease' = [lease EXCEPT ![a] = 0]
  /\ UNCHANGED <<attWorker, issued>>

-----------------------------------------------------------------------------
(* The API: POST /runs, /cancel and /resume.                               *)

\* What the transaction that accepts r writes.
Insert(r) ==
  /\ runStatus' = [runStatus EXCEPT ![r] = "queued"]
  /\ UNCHANGED <<retryCount, attemptNo, pauseNo, pause>>
  /\ UNCHANGED <<attemptVars, outboxVars, workerVars, executing>>

CreateRun(r) ==
  /\ runStatus[r] = "absent"
  /\ Cardinality(QueuedRuns(TenantOfRun(r))) < MaxQueued[TenantOfRun(r)]
  /\ OtherActiveRun(r) = {}
  /\ Insert(r)

\* A Run nobody executes is cancelled at once; for the others the intention
\* is recorded and the Attempt is told.
CancelRun(r) ==
  /\ \/ /\ runStatus[r] \in Waiting \union {"queued"}
        /\ Transition(r, "cancelled")
        /\ UNCHANGED cancelMsg
     \/ /\ runStatus[r] \in {"assigned", "running"}
        /\ attStatus[Latest(r)] \in ActiveAttempt
        /\ Transition(r, "cancel_requested")
        /\ cancelMsg' = [cancelMsg EXCEPT ![r] = "pending"]
  /\ UNCHANGED <<retryCount, attemptNo, pauseNo, pause>>
  /\ UNCHANGED <<attemptVars, assignedMsg, workerVars, executing>>

ResumeRun(r) ==
  /\ \/ runStatus[r] = "waiting_approval" /\ pause[r] = "approval"
     \/ runStatus[r] = "waiting_input" /\ pause[r] = "input"
  /\ pause' = [pause EXCEPT ![r] = "resolved"]
  /\ Transition(r, "queued")
  /\ UNCHANGED <<retryCount, attemptNo, pauseNo>>
  /\ UNCHANGED <<attemptVars, outboxVars, workerVars, executing>>

-----------------------------------------------------------------------------
(* The Scheduler.                                                          *)

\* What the transaction that assigns r to w writes.
Assign(r, w) ==
  /\ Transition(r, "assigned")
  /\ LET a == <<r, attemptNo[r] + 1>>
     IN  /\ attemptNo' = [attemptNo EXCEPT ![r] = @ + 1]
         /\ attStatus' = [attStatus EXCEPT ![a] = "assigned"]
         /\ attWorker' = [attWorker EXCEPT ![a] = w]
         /\ lease' = [lease EXCEPT ![a] = LeaseDuration]
         /\ assignedMsg' = [assignedMsg EXCEPT ![a] = "pending"]
  /\ UNCHANGED <<retryCount, pauseNo, pause, token, issued, cancelMsg>>
  /\ UNCHANGED <<workerVars, executing>>

Schedule(r, w) ==
  /\ runStatus[r] = "queued"
  /\ ~UnresolvedPause(r)
  /\ OtherActiveRun(r) = {}
  /\ TenantHasSlot(TenantOfRun(r))
  /\ Schedulable(w)
  /\ Assign(r, w)

RecoveryCancels(a) ==
  /\ FinishAttempt(a, "cancelled")
  /\ Transition(RunOf(a), "cancelled")
  /\ cancelMsg' = [cancelMsg EXCEPT ![RunOf(a)] = Acked(@)]
  /\ UNCHANGED retryCount

RecoveryRetries(a) ==
  /\ FinishAttempt(a, "lost")
  /\ Transition(RunOf(a), "queued")
  /\ retryCount' = [retryCount EXCEPT ![RunOf(a)] = @ + 1]
  /\ UNCHANGED cancelMsg

RecoveryFails(a) ==
  /\ FinishAttempt(a, "lost")
  /\ Transition(RunOf(a), "failed")
  /\ UNCHANGED <<retryCount, cancelMsg>>

\* Mutants: the query that finds the expired Attempts forgets a case.
RecoverableUnlessCancelled(a) ==
  /\ attStatus[a] \in ActiveAttempt
  /\ lease[a] = 0
  /\ runStatus[RunOf(a)] \in {"assigned", "running"}

RecoverableIfClaimed(a) ==
  /\ attStatus[a] = "running"
  /\ lease[a] = 0
  /\ runStatus[RunOf(a)] \in {"assigned", "running", "cancel_requested"}

RecoverableIfUnclaimed(a) ==
  /\ attStatus[a] = "assigned"
  /\ lease[a] = 0
  /\ runStatus[RunOf(a)] \in {"assigned", "running", "cancel_requested"}

\* The Attempts whose lease has run out.
Recoverable(a) ==
  /\ attStatus[a] \in ActiveAttempt
  /\ lease[a] = 0
  /\ runStatus[RunOf(a)] \in {"assigned", "running", "cancel_requested"}

\* Mutant: a lost Attempt is retried without limit.
RecoverWithoutLimit(a) ==
  /\ Recoverable(a)
  /\ IF runStatus[RunOf(a)] = "cancel_requested" THEN RecoveryCancels(a)
     ELSE RecoveryRetries(a)
  /\ assignedMsg' = [assignedMsg EXCEPT ![a] = Acked(@)]
  /\ UNCHANGED <<attemptNo, pauseNo, pause, workerVars, executing>>

\* recover_expired_attempts, for one Attempt.
Recover(a) ==
  /\ Recoverable(a)
  /\ IF runStatus[RunOf(a)] = "cancel_requested" THEN RecoveryCancels(a)
     ELSE IF retryCount[RunOf(a)] < 1 THEN RecoveryRetries(a)
     ELSE RecoveryFails(a)
  /\ assignedMsg' = [assignedMsg EXCEPT ![a] = Acked(@)]
  /\ UNCHANGED <<attemptNo, pauseNo, pause, workerVars, executing>>

-----------------------------------------------------------------------------
(* The Worker's commands about the Attempts it was assigned.               *)

\* A delivered attempt.assigned notification, the first or a duplicate.  The
\* claim of a task that was already under way may still commit while the
\* process drains.
Claim(a) ==
  /\ assignedMsg[a] # "none"
  /\ attStatus[a] = "assigned"
  /\ process[attWorker[a]] \in {"up", "draining"}
  /\ token[a] = 0
  /\ lease[a] > 0
  /\ runStatus[RunOf(a)] = "assigned"
  /\ Transition(RunOf(a), "running")
  /\ attStatus' = [attStatus EXCEPT ![a] = "running"]
  /\ issued' = [issued EXCEPT ![a] = @ + 1]
  /\ token' = [token EXCEPT ![a] = issued[a] + 1]
  /\ lease' = [lease EXCEPT ![a] = LeaseDuration]
  /\ assignedMsg' = [assignedMsg EXCEPT ![a] = Acked(@)]
  /\ executing' = executing \union {<<a, issued[a] + 1>>}
  /\ UNCHANGED <<retryCount, attemptNo, pauseNo, pause, attWorker, cancelMsg>>
  /\ UNCHANGED workerVars

Renew(a, k) ==
  /\ Authoritative(a, k, "running")
  /\ lease' = [lease EXCEPT ![a] = LeaseDuration]
  /\ UNCHANGED <<runVars, attStatus, attWorker, token, issued>>
  /\ UNCHANGED <<outboxVars, workerVars, executing>>

\* Mutant: a result that is ready wins over a recorded cancellation.
CompleteDespiteCancel(a, k) ==
  /\ \/ Authoritative(a, k, "running")
     \/ Authoritative(a, k, "cancel_requested")
  /\ FinishAttempt(a, "completed")
  /\ runStatus' = [runStatus EXCEPT ![RunOf(a)] = "completed"]
  /\ executing' = executing \ {<<a, k>>}
  /\ UNCHANGED <<retryCount, attemptNo, pauseNo, pause, outboxVars, workerVars>>

\* complete_chat and complete_simulated.
Complete(a, k) ==
  /\ Authoritative(a, k, "running")
  /\ FinishAttempt(a, "completed")
  /\ Transition(RunOf(a), "completed")
  /\ executing' = executing \ {<<a, k>>}
  /\ UNCHANGED <<retryCount, attemptNo, pauseNo, pause, outboxVars, workerVars>>

\* fail_chat and fail.
Fail(a, k) ==
  /\ Authoritative(a, k, "running")
  /\ FinishAttempt(a, "failed")
  /\ Transition(RunOf(a), "failed")
  /\ executing' = executing \ {<<a, k>>}
  /\ UNCHANGED <<retryCount, attemptNo, pauseNo, pause, outboxVars, workerVars>>

\* pause_chat: the executor asks for an approval or for more input.
Pause(a, k, type) ==
  /\ pauseNo[RunOf(a)] < MaxPauses
  /\ Authoritative(a, k, "running")
  /\ pauseNo' = [pauseNo EXCEPT ![RunOf(a)] = @ + 1]
  /\ pause' = [pause EXCEPT ![RunOf(a)] = type]
  /\ FinishAttempt(a, "paused")
  /\ \/ type = "approval" /\ Transition(RunOf(a), "waiting_approval")
     \/ type = "input" /\ Transition(RunOf(a), "waiting_input")
  /\ executing' = executing \ {<<a, k>>}
  /\ UNCHANGED <<retryCount, attemptNo, outboxVars, workerVars>>

\* acknowledge_cancel and cancel_chat, once the attempt.cancel notification
\* has reached the process.
AcknowledgeCancel(a, k) ==
  /\ cancelMsg[RunOf(a)] # "none"
  /\ Authoritative(a, k, "cancel_requested")
  /\ FinishAttempt(a, "cancelled")
  /\ Transition(RunOf(a), "cancelled")
  /\ cancelMsg' = [cancelMsg EXCEPT ![RunOf(a)] = Acked(@)]
  /\ executing' = executing \ {<<a, k>>}
  /\ UNCHANGED <<retryCount, attemptNo, pauseNo, pause, assignedMsg, workerVars>>

\* The execution ends without a fact: its command was rejected, its renewal
\* failed, or an infrastructure error left the task.
Abandon(a, k) ==
  /\ <<a, k>> \in executing
  /\ executing' = executing \ {<<a, k>>}
  /\ UNCHANGED <<runVars, attemptVars, outboxVars, workerVars>>

-----------------------------------------------------------------------------
(* The life of a Worker process and the passing of time.                   *)

Register(w) ==
  /\ process[w] = "absent"
  /\ process' = [process EXCEPT ![w] = "up"]
  /\ workerStatus' = [workerStatus EXCEPT ![w] = "online"]
  /\ heartbeat' = [heartbeat EXCEPT ![w] = HeartbeatTTL]
  /\ UNCHANGED <<runVars, attemptVars, outboxVars, executing>>

Heartbeat(w) ==
  /\ process[w] = "up"
  /\ heartbeat' = [heartbeat EXCEPT ![w] = HeartbeatTTL]
  /\ UNCHANGED <<runVars, attemptVars, outboxVars, workerStatus, process, executing>>

\* RunWorker.stop, first half; a failure to write "draining" is suppressed.
Drain(w) ==
  /\ process[w] = "up"
  /\ process' = [process EXCEPT ![w] = "draining"]
  /\ \/ workerStatus' = [workerStatus EXCEPT ![w] = "draining"]
     \/ UNCHANGED workerStatus
  /\ UNCHANGED <<runVars, attemptVars, outboxVars, heartbeat, executing>>

HeldBy(w) == {e \in executing : attWorker[e[1]] = w}

\* RunWorker.stop, second half.  Cancelling the tasks left after the grace
\* period does not cancel the executions they wait for: those, and a Worker
\* whose "offline" could not be written, end with the process.
Stop(w) ==
  /\ process[w] = "draining"
  /\ workerStatus' = [workerStatus EXCEPT ![w] = "offline"]
  /\ UNCHANGED <<runVars, attemptVars, outboxVars, heartbeat, process, executing>>

\* The process exits or dies: what it held in memory is gone, its rows are not.
Crash(w) ==
  /\ process[w] \in {"up", "draining"}
  /\ process' = [process EXCEPT ![w] = "down"]
  /\ executing' = executing \ HeldBy(w)
  /\ UNCHANGED <<runVars, attemptVars, outboxVars, workerStatus, heartbeat>>

Tick ==
  /\ lease' = [a \in Attempt |-> IF lease[a] > 0 THEN lease[a] - 1 ELSE 0]
  /\ heartbeat' = [w \in Worker |-> IF heartbeat[w] > 0 THEN heartbeat[w] - 1 ELSE 0]
  /\ UNCHANGED <<runVars, attStatus, attWorker, token, issued>>
  /\ UNCHANGED <<outboxVars, workerStatus, process, executing>>

-----------------------------------------------------------------------------
Finish(a, k) ==
  \/ Complete(a, k)
  \/ Fail(a, k)
  \/ \E type \in {"approval", "input"} : Pause(a, k, type)
  \/ AcknowledgeCancel(a, k)
  \/ Abandon(a, k)

ApiStep == \E r \in Run : CreateRun(r) \/ CancelRun(r) \/ ResumeRun(r)

SchedulerStep ==
  \/ \E r \in Run, w \in Worker : Schedule(r, w)
  \/ \E a \in Attempt : Recover(a)

CommandStep ==
  \/ \E a \in Attempt : Claim(a)
  \/ \E e \in executing : Renew(e[1], e[2]) \/ Finish(e[1], e[2])

ProcessStep ==
  \E w \in Worker : Register(w) \/ Heartbeat(w) \/ Drain(w) \/ Stop(w) \/ Crash(w)

Next == ApiStep \/ SchedulerStep \/ CommandStep \/ ProcessStep \/ Tick

Spec == Init /\ [][Next]_vars

(***************************************************************************)
(* Fairness.  The Scheduler polls for ever, so an expired Attempt is       *)
(* recovered; time passes.  Nothing is assumed of a Worker or a user.      *)
(***************************************************************************)
Fairness ==
  /\ WF_vars(Tick)
  /\ \A a \in Attempt : WF_vars(Recover(a))

FairSpec == Spec /\ Fairness
-----------------------------------------------------------------------------
(* Safety.                                                                 *)

\* A session never has two Runs in flight, whatever sequence of creations,
\* pauses, retries and cancellations led there (run_service.py:120, and the
\* partial unique index of models/run.py).
OneActiveRunPerSession ==
  \A r, q \in Run :
    /\ r # q
    /\ SessionOf[r] = SessionOf[q]
    /\ runStatus[r] \in ActiveRun
    => runStatus[q] \notin ActiveRun

\* The status of the Attempt a Run's status calls for.
AttemptStatusFor ==
  [absent           |-> {},
   queued           |-> {"lost", "paused"},
   assigned         |-> {"assigned"},
   running          |-> {"running"},
   waiting_approval |-> {"paused"},
   waiting_input    |-> {"paused"},
   cancel_requested |-> {"assigned", "running"},
   completed        |-> {"completed"},
   failed           |-> {"failed", "lost"},
   cancelled        |-> {"lost", "paused", "cancelled"}]

NeverStarted(r) ==
  attemptNo[r] = 0 /\ runStatus[r] \in {"absent", "queued", "cancelled"}

\* The two tables that every command updates side by side agree: the newest
\* Attempt is in the state its Run is in, and all older Attempts ended by
\* being lost or paused.  So a Run has at most one live Attempt, and an
\* outcome is always the outcome of the newest Attempt.
AttemptMatchesRun ==
  \A r \in Run :
    /\ NeverStarted(r) \/ attStatus[Latest(r)] \in AttemptStatusFor[runStatus[r]]
    /\ \A n \in 1 .. MaxAttempts :
         /\ n < attemptNo[r] => attStatus[<<r, n>>] \in {"lost", "paused"}
         /\ n > attemptNo[r] => attStatus[<<r, n>>] = "absent"

\* Executions are paid for: one, one more per pause a human resumed, and one
\* more for the single automatic retry.  No interleaving of crashes,
\* recoveries and resumes starts an Attempt beyond that.
AttemptsPaidFor ==
  \A r \in Run :
    LET resumable == retryCount[r] + pauseNo[r]
    IN  CASE runStatus[r] \in {"absent", "queued"} \union Waiting -> attemptNo[r] = resumable
          [] runStatus[r] = "cancelled" -> attemptNo[r] \in {resumable, resumable + 1}
          [] OTHER -> attemptNo[r] = resumable + 1

\* At most one successful claim per Attempt, although its notification may be
\* delivered many times; a token is live exactly while the Attempt runs, and
\* nothing executes that was not claimed.
ClaimFence ==
  /\ \A a \in Attempt :
       /\ issued[a] <= 1
       /\ attStatus[a] \in {"absent", "assigned"} => issued[a] = 0
       /\ token[a] = (IF attStatus[a] = "running" THEN issued[a] ELSE 0)
       /\ attStatus[a] = "running" => issued[a] = 1
  /\ \A e \in executing : e[2] = 1 /\ issued[e[1]] = 1

\* Concurrent scheduling never takes a tenant over max_running_runs: a Run
\* keeps its slot while it is being cancelled and gives it back when it waits.
TenantWithinQuota ==
  \A t \in Tenant : Cardinality(TenantActiveRuns(t)) <= MaxRunning[t]

\* No Worker ever owns more unexpired Attempts than its capacity, through
\* claims, renewals and recoveries.
WorkerNotOversold ==
  \A w \in Worker : Cardinality(LiveAttempts(w)) <= Capacity[w]

\* The outbox asks for exactly what is still to be done: an assignment row
\* waits for delivery iff its Attempt is unclaimed, a cancel row iff the Run
\* is being cancelled.  No row is left to be retried for ever, none is
\* acknowledged before its effect.
OutboxMatchesFacts ==
  /\ \A a \in Attempt : assignedMsg[a] = "pending" <=> attStatus[a] = "assigned"
  /\ \A r \in Run : cancelMsg[r] = "pending" <=> runStatus[r] = "cancel_requested"

\* A Run waits iff it has an unresolved pause of the matching type, until a
\* user cancels it: a queued Run is never held back by an old pause, and a
\* waiting Run can always be resumed.
PauseMatchesStatus ==
  \A r \in Run :
    /\ runStatus[r] = "waiting_approval" => pause[r] = "approval"
    /\ runStatus[r] = "waiting_input" => pause[r] = "input"
    /\ UnresolvedPause(r) => runStatus[r] \in Waiting \union {"cancelled"}

\* The five tables that the transactions update together tell one story, at
\* every commit: Runs and Attempts, executions and what paid for them, claims
\* and tokens, the outbox and what is owed, pauses and waiting Runs.
TablesAgree ==
  /\ TypeOK
  /\ AttemptMatchesRun
  /\ AttemptsPaidFor
  /\ ClaimFence
  /\ OutboxMatchesFacts
  /\ PauseMatchesStatus

-----------------------------------------------------------------------------
(* What a step may never do.                                               *)

\* Nothing is ever written about a Run once it is terminal: not by a worker
\* that still executes it, not by a recovery, a retried cancel or a resume.
TerminalRunsUntouched ==
  \A r \in Run : runStatus[r] \in Terminal =>
    /\ UNCHANGED <<runStatus[r], retryCount[r], attemptNo[r], pauseNo[r], pause[r]>>
    /\ \A n \in 1 .. MaxAttempts : UNCHANGED <<attStatus[<<r, n>>], token[<<r, n>>]>>

TerminalIsFinal == [][TerminalRunsUntouched]_vars

\* Once a cancellation is recorded the Run is never executed again: the only
\* way out is "cancelled", with no new Attempt, no retry and no outcome, even
\* when the Worker dies at that moment.
CancelledRunsOnlyStop ==
  \A r \in Run : runStatus[r] = "cancel_requested" =>
    /\ runStatus'[r] \in {"cancel_requested", "cancelled"}
    /\ UNCHANGED <<retryCount[r], attemptNo[r]>>

CancelIsFinal == [][CancelledRunsOnlyStop]_vars

\* A result is written only by a process that still holds the live claim of
\* the newest Attempt: a Worker cut off for longer than its lease commits
\* nothing, whether or not the Scheduler has noticed.
OutcomesNeedLease ==
  \A r \in Run :
    /\ runStatus[r] \in {"running", "cancel_requested"}
    /\ attStatus'[Latest(r)] \in {"completed", "failed", "paused"}
    => /\ lease[Latest(r)] > 0
       /\ <<Latest(r), token[Latest(r)]>> \in executing
       /\ process[attWorker[Latest(r)]] \in {"up", "draining"}

OnlyLeaseHolderDecides == [][OutcomesNeedLease]_vars

-----------------------------------------------------------------------------
(* The promise to the client, RunLifecycle, and how it is kept: the phase  *)
(* is read off runs.status, a restart is an automatic retry.               *)

PhaseOf ==
  [absent           |-> "absent",
   queued           |-> "pending",
   assigned         |-> "executing",
   running          |-> "executing",
   waiting_approval |-> "waiting",
   waiting_input    |-> "waiting",
   cancel_requested |-> "stopping",
   completed        |-> "completed",
   failed           |-> "failed",
   cancelled        |-> "cancelled"]

Lifecycle == INSTANCE RunLifecycle WITH
  phase <- [r \in Run |-> PhaseOf[runStatus[r]]],
  restarts <- retryCount

\* The transactions of the API, the Scheduler and the Workers together behave,
\* for the client of a Run, like the lifecycle the design promises.
ImplementsLifecycle == Lifecycle!Spec

-----------------------------------------------------------------------------
(* Liveness.                                                               *)

\* A recorded cancellation always takes effect, even if the notification is
\* lost, the Worker is dead, or it keeps executing: it cannot renew any more.
CancelTakesEffect ==
  \A r \in Run : runStatus[r] = "cancel_requested" ~> runStatus[r] = "cancelled"

\* An assigned Attempt is claimed or taken back: a lost notification, or a
\* Worker that died or drained before the claim, never strands the Run.
AssignmentResolves ==
  \A a \in Attempt : attStatus[a] = "assigned" ~> attStatus[a] # "assigned"

\* The Attempts of a dead process are taken back.
DeadWorkerReleasesAttempts ==
  \A a \in Attempt :
    attStatus[a] = "running" /\ process[attWorker[a]] = "down" ~> attStatus[a] # "running"

\* No Attempt is stranded with a Worker: before its claim it is claimed or
\* taken back, after the death of the process it is taken back.
StrandedAttemptsResolve == AssignmentResolves /\ DeadWorkerReleasesAttempts

=============================================================================
