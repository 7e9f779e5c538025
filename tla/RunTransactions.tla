--------------------------- MODULE RunTransactions ---------------------------
(***************************************************************************)
(* The transactions of RunControl one statement at a time, under the row   *)
(* locks the code takes (SELECT ... FOR UPDATE, READ COMMITTED).  RunControl *)
(* takes each of them as one step; here several sessions of the API, of    *)
(* the Schedulers and of the Workers interleave between a read and the     *)
(* write that relies on it, wait for each other's rows, and may be rolled  *)
(* back at any moment.                                                     *)
(*                                                                         *)
(* A statement reads what is committed when it runs.  A command that has   *)
(* locked the Attempt and the Run reads the clock, decides on those rows   *)
(* alone, writes and commits: one step.  So is a transaction that locks a  *)
(* single row and decides on it, taken when nobody holds the row.          *)
(***************************************************************************)
EXTENDS RunControl

CONSTANTS
  Creator,    \* database sessions that serve POST /runs
  Canceller,  \* ... POST /runs/{id}/cancel
  Scheduler,  \* ... SchedulingService.schedule_once
  Recoverer,  \* ... SchedulingService.recover_expired_attempts
  Commander   \* ... the commands of the Workers

Client == Creator \union Canceller \union Scheduler \union Recoverer \union Commander

\* A name stands for a session while it serves one kind of transaction, and
\* there is a request to serve.
ASSUME TransactionsAssumption ==
  /\ Run # {}
  /\ Creator \intersect (Canceller \union Scheduler \union Recoverer \union Commander) = {}
  /\ Canceller \intersect (Scheduler \union Recoverer \union Commander) = {}
  /\ Scheduler \intersect (Recoverer \union Commander) = {}
  /\ Recoverer \intersect Commander = {}

VARIABLES
  pc,      \* the statement a session is about to run, "idle" between transactions
  run,     \* the Run its transaction is about
  batch,   \* the Attempts it has locked or is about to lock
  worker,  \* the Worker it has locked, for a Scheduler
  held     \* the rows it has locked

txVars == <<pc, run, batch, worker, held>>
allVars == <<vars, txVars>>

TenantRow(t) == <<"tenants", t>>
CursorRow(t) == <<"run_tenant_scheduling", t>>
RunRow(r) == <<"runs", r>>
AttemptRow(a) == <<"run_attempts", a>>
WorkerRow(w) == <<"run_workers", w>>

Row == {TenantRow(t) : t \in Tenant} \union {CursorRow(t) : t \in Tenant}
       \union {RunRow(r) : r \in Run} \union {AttemptRow(a) : a \in Attempt}
       \union {WorkerRow(w) : w \in Worker}

Statement == {"idle", "lock tenant", "check session", "insert",
              "lock attempt", "lock run", "check", "lock worker", "recount",
              "assign", "recover"}

\* Types, and what a lock is: one holder, until the transaction ends.
TxTypeOK ==
  /\ pc \in [Client -> Statement]
  /\ run \in [Client -> Run]
  /\ batch \in [Client -> SUBSET Attempt]
  /\ worker \in [Client -> Worker \union {NoWorker}]
  /\ held \in [Client -> SUBSET Row]
  /\ \A c, d \in Client : c # d => held[c] \intersect held[d] = {}
  /\ \A c \in Client : pc[c] = "idle" => held[c] = {}

TxInit ==
  /\ Init
  /\ pc = [c \in Client |-> "idle"]
  /\ run = [c \in Client |-> CHOOSE r \in Run : TRUE]
  /\ batch = [c \in Client |-> {}]
  /\ worker = [c \in Client |-> NoWorker]
  /\ held = [c \in Client |-> {}]

Free(row) == \A c \in Client : row \notin held[c]
FreeFor(c, row) == \A d \in Client \ {c} : row \notin held[d]

ActiveAttemptsOf(r) == {a \in Attempt : RunOf(a) = r /\ attStatus[a] \in ActiveAttempt}

Goto(c, statement) == pc' = [pc EXCEPT ![c] = statement]

\* Commit or roll back: the locks go, nothing is remembered.
EndTransaction(c) ==
  /\ pc' = [pc EXCEPT ![c] = "idle"]
  /\ run' = [run EXCEPT ![c] = CHOOSE r \in Run : TRUE]
  /\ batch' = [batch EXCEPT ![c] = {}]
  /\ worker' = [worker EXCEPT ![c] = NoWorker]
  /\ held' = [held EXCEPT ![c] = {}]

\* A rejected command, an exception, a lost connection or a dead process.  A
\* COMMIT that has begun is not undone.
Rollback(c) ==
  /\ pc[c] \notin {"idle", "recover"}
  /\ EndTransaction(c)
  /\ UNCHANGED vars

-----------------------------------------------------------------------------
(* RunService.create_run.                                                  *)

\* The first look for the idempotency key, without a lock: a request that
\* finds its Run is answered with it.
BeginCreate(c, r) ==
  /\ pc[c] = "idle"
  /\ runStatus[r] = "absent"
  /\ run' = [run EXCEPT ![c] = r]
  /\ Goto(c, "lock tenant")
  /\ UNCHANGED <<vars, batch, worker, held>>

\* Mutant: the key is not looked up again under the lock.
LockTenantOnly(c) ==
  LET t == TenantOfRun(run[c])
  IN  /\ pc[c] = "lock tenant"
      /\ Free(TenantRow(t))
      /\ Cardinality(QueuedRuns(t)) < MaxQueued[t]
      /\ held' = [held EXCEPT ![c] = @ \union {TenantRow(t)}]
      /\ Goto(c, "check session")
      /\ UNCHANGED <<vars, run, batch, worker>>

\* Under the lock of the tenant the key is looked up again and the quota of
\* queued Runs is checked.
LockTenant(c) ==
  LET t == TenantOfRun(run[c])
  IN  /\ pc[c] = "lock tenant"
      /\ Free(TenantRow(t))
      /\ runStatus[run[c]] = "absent"
      /\ Cardinality(QueuedRuns(t)) < MaxQueued[t]
      /\ held' = [held EXCEPT ![c] = @ \union {TenantRow(t)}]
      /\ Goto(c, "check session")
      /\ UNCHANGED <<vars, run, batch, worker>>

CheckSession(c) ==
  /\ pc[c] = "check session"
  /\ OtherActiveRun(run[c]) = {}
  /\ Goto(c, "insert")
  /\ UNCHANGED <<vars, run, batch, worker, held>>

InsertRun(c) ==
  /\ pc[c] = "insert"
  /\ Insert(run[c])
  /\ EndTransaction(c)

CreateTransaction(c) ==
  \/ \E r \in Run : BeginCreate(c, r)
  \/ LockTenant(c)
  \/ CheckSession(c)
  \/ InsertRun(c)

-----------------------------------------------------------------------------
(* RunService.cancel_run.                                                  *)

\* Mutant: the Run is locked first.
DiscoverUnderLock(c, r) ==
  /\ pc[c] = "idle"
  /\ runStatus[r] # "absent"
  /\ Free(RunRow(r))
  /\ held' = [held EXCEPT ![c] = {RunRow(r)}]
  /\ run' = [run EXCEPT ![c] = r]
  /\ batch' = [batch EXCEPT ![c] = ActiveAttemptsOf(r)]
  /\ Goto(c, IF batch'[c] = {} THEN "lock run" ELSE "lock attempt")
  /\ UNCHANGED <<vars, worker>>

\* Without a lock, which Attempt is active?
Discover(c, r) ==
  /\ pc[c] = "idle"
  /\ runStatus[r] # "absent"
  /\ run' = [run EXCEPT ![c] = r]
  /\ batch' = [batch EXCEPT ![c] = ActiveAttemptsOf(r)]
  /\ Goto(c, IF batch'[c] = {} THEN "lock run" ELSE "lock attempt")
  /\ UNCHANGED <<vars, worker, held>>

\* Attempts are always locked before their Run.
LockDiscovered(c) ==
  /\ pc[c] = "lock attempt"
  /\ \A a \in batch[c] : Free(AttemptRow(a))
  /\ held' = [held EXCEPT ![c] = @ \union {AttemptRow(a) : a \in batch[c]}]
  /\ Goto(c, "lock run")
  /\ UNCHANGED <<vars, run, batch, worker>>

\* Mutant: what was discovered is not looked at again.
StableAlways(c) == run[c] \in Run

\* What was discovered still holds when the Run is locked, or the transaction
\* starts again: it never locks an Attempt while it holds the Run.
Stable(c) ==
  /\ batch[c] = {} => ActiveAttemptsOf(run[c]) = {}
  /\ runStatus[run[c]] \in {"assigned", "running"} => batch[c] \subseteq ActiveAttemptsOf(run[c])

\* What a cancellation writes about a Run in this status; nothing about one
\* that is terminal or being cancelled already.
RecordCancel(c) ==
  LET r == run[c]
  IN  \/ /\ runStatus[r] \in Terminal \union {"cancel_requested"}
         /\ UNCHANGED <<runStatus, cancelMsg>>
      \/ /\ runStatus[r] \in Waiting \union {"queued"}
         /\ Transition(r, "cancelled")
         /\ UNCHANGED cancelMsg
      \/ /\ runStatus[r] \in {"assigned", "running"}
         /\ Transition(r, "cancel_requested")
         /\ cancelMsg' = [cancelMsg EXCEPT ![r] = IF batch[c] = {} THEN @ ELSE "pending"]

LockAndCancel(c) ==
  /\ pc[c] = "lock run"
  /\ FreeFor(c, RunRow(run[c]))
  /\ Stable(c)
  /\ RecordCancel(c)
  /\ EndTransaction(c)
  /\ UNCHANGED <<retryCount, attemptNo, pauseNo, pause>>
  /\ UNCHANGED <<attemptVars, assignedMsg, workerVars, executing>>

CancelTransaction(c) ==
  \/ \E r \in Run : Discover(c, r)
  \/ LockDiscovered(c)
  \/ LockAndCancel(c)

-----------------------------------------------------------------------------
(* SchedulingService.schedule_once.  Its locks on cursors and Workers skip *)
(* the rows that others hold; only the one on the Run waits.               *)

\* Mutant: the cursor of the tenant is read but not locked.
PickRunUnlocked(c, r) ==
  /\ pc[c] = "idle"
  /\ runStatus[r] = "queued"
  /\ ~UnresolvedPause(r)
  /\ run' = [run EXCEPT ![c] = r]
  /\ Goto(c, "lock run")
  /\ UNCHANGED <<vars, batch, worker, held>>

\* A tenant nobody schedules for, and a queued Run of it.
PickRun(c, r) ==
  /\ pc[c] = "idle"
  /\ Free(CursorRow(TenantOfRun(r)))
  /\ runStatus[r] = "queued"
  /\ ~UnresolvedPause(r)
  /\ held' = [held EXCEPT ![c] = {CursorRow(TenantOfRun(r))}]
  /\ run' = [run EXCEPT ![c] = r]
  /\ Goto(c, "lock run")
  /\ UNCHANGED <<vars, batch, worker>>

\* PostgreSQL evaluates the WHERE clause again on the row it waited for.
LockRun(c) ==
  /\ pc[c] = "lock run"
  /\ Free(RunRow(run[c]))
  /\ runStatus[run[c]] = "queued"
  /\ held' = [held EXCEPT ![c] = @ \union {RunRow(run[c])}]
  /\ Goto(c, "check")
  /\ UNCHANGED <<vars, run, batch, worker>>

CheckEligibility(c) ==
  /\ pc[c] = "check"
  /\ ~UnresolvedPause(run[c])
  /\ OtherActiveRun(run[c]) = {}
  /\ TenantHasSlot(TenantOfRun(run[c]))
  /\ Goto(c, "lock worker")
  /\ UNCHANGED <<vars, run, batch, worker, held>>

\* Mutant: the Worker is read but not locked.
LockWorkerNot(c, w) ==
  /\ pc[c] = "lock worker"
  /\ Schedulable(w)
  /\ worker' = [worker EXCEPT ![c] = w]
  /\ Goto(c, "recount")
  /\ UNCHANGED <<vars, run, batch, held>>

\* Whichever Worker the ranking proposed: what counts is read again below.
LockWorker(c, w) ==
  /\ pc[c] = "lock worker"
  /\ Free(WorkerRow(w))
  /\ held' = [held EXCEPT ![c] = @ \union {WorkerRow(w)}]
  /\ worker' = [worker EXCEPT ![c] = w]
  /\ Goto(c, "recount")
  /\ UNCHANGED <<vars, run, batch>>

Recount(c) ==
  /\ pc[c] = "recount"
  /\ Schedulable(worker[c])
  /\ Goto(c, "assign")
  /\ UNCHANGED <<vars, run, batch, worker, held>>

AssignRun(c) ==
  /\ pc[c] = "assign"
  /\ Assign(run[c], worker[c])
  /\ EndTransaction(c)

ScheduleTransaction(c) ==
  \/ \E r \in Run : PickRun(c, r)
  \/ LockRun(c)
  \/ CheckEligibility(c)
  \/ \E w \in Worker : LockWorker(c, w)
  \/ Recount(c)
  \/ AssignRun(c)

-----------------------------------------------------------------------------
(* SchedulingService.recover_expired_attempts.  The rows of a batch become *)
(* visible one after the other here, with all its locks held: more orders  *)
(* than one COMMIT allows.                                                 *)

LockExpired(c) ==
  LET expired == {a \in Attempt : /\ attStatus[a] \in ActiveAttempt
                                  /\ lease[a] = 0
                                  /\ Free(AttemptRow(a))}
  IN  /\ pc[c] = "idle"
      /\ expired # {}
      /\ batch' = [batch EXCEPT ![c] = expired]
      /\ held' = [held EXCEPT ![c] = {AttemptRow(a) : a \in expired}]
      /\ Goto(c, "lock run")
      /\ UNCHANGED <<vars, run, worker>>

LockRunOf(c, a) ==
  /\ pc[c] = "lock run"
  /\ a \in batch[c]
  /\ Free(RunRow(RunOf(a)))
  /\ held' = [held EXCEPT ![c] = @ \union {RunRow(RunOf(a))}]
  /\ Goto(c, IF \A b \in batch[c] : RunRow(RunOf(b)) \in held'[c] THEN "recover" ELSE "lock run")
  /\ UNCHANGED <<vars, run, batch, worker>>

RecoverNext(c, a) ==
  /\ pc[c] = "recover"
  /\ a \in batch[c]
  /\ Recover(a) \/ (~Recoverable(a) /\ UNCHANGED vars)
  /\ IF batch[c] = {a}
     THEN EndTransaction(c)
     ELSE /\ batch' = [batch EXCEPT ![c] = @ \ {a}]
          /\ UNCHANGED <<pc, run, worker, held>>

RecoveryTransaction(c) ==
  \/ LockExpired(c)
  \/ \E a \in Attempt : LockRunOf(c, a) \/ RecoverNext(c, a)

-----------------------------------------------------------------------------
(* AttemptService: the commands of the Workers.                            *)

\* Mutant: a command locks the Run before the Attempt.
LockRunFirst(c, a) ==
  /\ pc[c] = "idle"
  /\ attStatus[a] # "absent"
  /\ Free(RunRow(RunOf(a)))
  /\ batch' = [batch EXCEPT ![c] = {a}]
  /\ held' = [held EXCEPT ![c] = {RunRow(RunOf(a))}]
  /\ run' = [run EXCEPT ![c] = RunOf(a)]
  /\ Goto(c, "lock attempt")
  /\ UNCHANGED <<vars, worker>>

LockAttempt(c, a) ==
  /\ pc[c] = "idle"
  /\ attStatus[a] # "absent"
  /\ Free(AttemptRow(a))
  /\ batch' = [batch EXCEPT ![c] = {a}]
  /\ held' = [held EXCEPT ![c] = {AttemptRow(a)}]
  /\ run' = [run EXCEPT ![c] = RunOf(a)]
  /\ Goto(c, "lock run")
  /\ UNCHANGED <<vars, worker>>

LockAndCommand(c) ==
  /\ pc[c] = "lock run"
  /\ Free(RunRow(run[c]))
  /\ \E a \in batch[c] :
       \/ Claim(a)
       \/ \E e \in executing :
            /\ e[1] = a
            /\ \/ Renew(a, e[2])
               \/ Complete(a, e[2])
               \/ Fail(a, e[2])
               \/ \E type \in {"approval", "input"} : Pause(a, e[2], type)
               \/ AcknowledgeCancel(a, e[2])
  /\ EndTransaction(c)

CommandTransaction(c) ==
  \/ \E a \in Attempt : LockAttempt(c, a)
  \/ LockAndCommand(c)

-----------------------------------------------------------------------------
\* resume_run locks the Run only.
ResumeTransaction(r) ==
  /\ Free(RunRow(r))
  /\ ResumeRun(r)
  /\ UNCHANGED txVars

\* What happens outside the database, and the updates of a Worker's own row,
\* which wait for a Scheduler that holds it.  The clock stands still between
\* the recount of a Worker and the commit that follows at once.
Environment ==
  /\ \/ \E w \in Worker : Register(w) \/ Crash(w)
     \/ \E w \in Worker : Free(WorkerRow(w)) /\ (Heartbeat(w) \/ Drain(w) \/ Stop(w))
     \/ \E e \in executing : Abandon(e[1], e[2])
     \/ (\A c \in Scheduler : pc[c] # "assign") /\ Tick
  /\ UNCHANGED txVars

TxNext ==
  \/ \E c \in Creator : CreateTransaction(c)
  \/ \E c \in Canceller : CancelTransaction(c)
  \/ \E c \in Scheduler : ScheduleTransaction(c)
  \/ \E c \in Recoverer : RecoveryTransaction(c)
  \/ \E c \in Commander : CommandTransaction(c)
  \/ \E c \in Client : Rollback(c)
  \/ \E r \in Run : ResumeTransaction(r)
  \/ Environment

TxSpec == TxInit /\ [][TxNext]_allVars

-----------------------------------------------------------------------------
\* Every interleaving of these transactions has the effect of taking them
\* one at a time, as RunControl does: no stale read of a running quota, a
\* capacity, a session, an idempotency key or an active Attempt is committed.
\* The quota of queued Runs is a check at admission only: a Run that is requeued
\* between check and insert exceeds it, so instances leave room for that.
Serializable == Init /\ [][Next]_vars

\* The rows a session may be waiting for.
WantedRows(c) ==
  CASE pc[c] = "lock tenant" -> {TenantRow(TenantOfRun(run[c]))}
    [] pc[c] = "lock attempt" -> {AttemptRow(a) : a \in batch[c]}
    [] pc[c] = "lock run" -> IF c \in Recoverer
                             THEN {RunRow(RunOf(a)) : a \in batch[c]} \ held[c]
                             ELSE {RunRow(run[c])} \ held[c]
    [] OTHER -> {}

\* No set of sessions waits for each other's rows: Attempts before Runs, one
\* Run at a time, and never an Attempt by the holder of its Run.
NoDeadlock ==
  \A D \in SUBSET Client :
    D # {} => \E c \in D : \A d \in D \ {c} : WantedRows(c) \intersect held[d] = {}

\* The locks of the transactions: each row has one holder, what is locked is
\* given back with the transaction, and no circle of waiting closes.
LocksHold == TxTypeOK /\ NoDeadlock

=============================================================================
