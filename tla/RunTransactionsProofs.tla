------------------------ MODULE RunTransactionsProofs ------------------------
(***************************************************************************)
(* Proofs about RunTransactions, for any number of database sessions, Runs *)
(* and Workers: the transactions of the control plane, interleaved one     *)
(* statement at a time, do what RunControl does in one step each.          *)
(*                                                                         *)
(* The inductive invariant says for each kind of session which rows it has *)
(* locked at each of its statements, and what it has read that must still  *)
(* hold (ClientOrderly).  Respects(c) is what the locks of c protect it    *)
(* from: every commit of another session is shown to respect them, which   *)
(* is what makes the reads of c stable.  NoDeadlock follows from who may   *)
(* hold what.                                                              *)
(***************************************************************************)
EXTENDS RunTransactions, RunControlProofs

CreatorOrderly(c) ==
  LET row == TenantRow(TenantOfRun(run[c]))
  IN  /\ pc[c] \in {"idle", "lock tenant", "check session", "insert"}
      /\ pc[c] \in {"idle", "lock tenant"} => held[c] = {}
      /\ pc[c] \in {"check session", "insert"} =>
           held[c] = {row} /\ runStatus[run[c]] = "absent"
      /\ pc[c] = "insert" => OtherActiveRun(run[c]) = {}

CancellerOrderly(c) ==
  /\ pc[c] \in {"idle", "lock attempt", "lock run"}
  /\ pc[c] \in {"idle", "lock attempt"} => held[c] = {}
  /\ pc[c] = "lock run" => held[c] = {AttemptRow(a) : a \in batch[c]}

\* The cursor from the start, the Run once it is locked, then a Worker.
SchedulerOrderly(c) ==
  LET cursor == CursorRow(TenantOfRun(run[c]))
      onRun == {"check", "lock worker"}
      onWorker == {"recount", "assign"}
  IN  /\ pc[c] \in {"idle", "lock run"} \union onRun \union onWorker
      /\ pc[c] = "idle" => held[c] = {}
      /\ pc[c] = "lock run" => held[c] = {cursor}
      /\ pc[c] \in onRun => held[c] = {cursor, RunRow(run[c])}
      /\ pc[c] \in onWorker =>
           /\ worker[c] \in Worker
           /\ held[c] = {cursor, RunRow(run[c]), WorkerRow(worker[c])}
      /\ pc[c] \in onRun \union onWorker => runStatus[run[c]] = "queued"
      /\ pc[c] \in {"lock worker"} \union onWorker =>
           TenantHasSlot(TenantOfRun(run[c]))
      /\ pc[c] = "assign" => Schedulable(worker[c])

\* The Attempts first, then their Runs; all of both when it recovers.
RecovererOrderly(c) ==
  /\ pc[c] \in {"idle", "lock run", "recover"}
  /\ pc[c] = "idle" => batch[c] = {}
  /\ held[c] \subseteq {AttemptRow(a) : a \in Attempt} \union {RunRow(r) : r \in Run}
  /\ \A a \in batch[c] : AttemptRow(a) \in held[c] /\ attStatus[a] \in ActiveAttempt
  /\ pc[c] = "lock run" =>
       \A r \in Run : RunRow(r) \in held[c] => \E a \in batch[c] : RunOf(a) = r
  /\ pc[c] = "recover" => \A a \in batch[c] : RunRow(RunOf(a)) \in held[c]

CommanderOrderly(c) ==
  /\ pc[c] \in {"idle", "lock run"}
  /\ held[c] = {AttemptRow(a) : a \in batch[c]}
  /\ \A a \in batch[c] : RunOf(a) = run[c]

ClientOrderly(c) ==
  /\ c \in Creator => CreatorOrderly(c)
  /\ c \in Canceller => CancellerOrderly(c)
  /\ c \in Scheduler => SchedulerOrderly(c)
  /\ c \in Recoverer => RecovererOrderly(c)
  /\ c \in Commander => CommanderOrderly(c)

TxInvariant ==
  /\ Facts
  /\ TxTypeOK
  /\ \A c \in Client : ClientOrderly(c)

-----------------------------------------------------------------------------
(* Rows.                                                                   *)

LEMMA EveryRow ==
  /\ \A r \in Run : /\ RunRow(r) \in Row
                    /\ TenantOfRun(r) \in Tenant
                    /\ TenantRow(TenantOfRun(r)) \in Row
                    /\ CursorRow(TenantOfRun(r)) \in Row
  /\ \A a \in Attempt : AttemptRow(a) \in Row /\ RunOf(a) \in Run
  /\ \A w \in Worker : WorkerRow(w) \in Row
<1>1. \A r \in Run : TenantOfRun(r) \in Tenant
  BY ConstantsAssumption DEF TenantOfRun
<1> QED BY <1>1, AttemptShape DEF Row

LEMMA RowsDiffer ==
  /\ \A x, y : TenantRow(x) = TenantRow(y) => x = y
  /\ \A x, y : CursorRow(x) = CursorRow(y) => x = y
  /\ \A x, y : RunRow(x) = RunRow(y) => x = y
  /\ \A x, y : AttemptRow(x) = AttemptRow(y) => x = y
  /\ \A x, y : WorkerRow(x) = WorkerRow(y) => x = y
  /\ \A x, y : /\ TenantRow(x) # CursorRow(y)
               /\ TenantRow(x) # RunRow(y)
               /\ TenantRow(x) # AttemptRow(y)
               /\ TenantRow(x) # WorkerRow(y)
  /\ \A x, y : /\ CursorRow(x) # RunRow(y)
               /\ CursorRow(x) # AttemptRow(y)
               /\ CursorRow(x) # WorkerRow(y)
  /\ \A x, y : RunRow(x) # AttemptRow(y) /\ RunRow(x) # WorkerRow(y)
  /\ \A x, y : AttemptRow(x) # WorkerRow(y)
  BY DEF TenantRow, CursorRow, RunRow, AttemptRow, WorkerRow

\* One holder.
LEMMA HeldAlone ==
  ASSUME TxTypeOK, NEW c \in Client, NEW d \in Client, c # d,
         NEW row \in held[d]
  PROVE  row \notin held[c]
  BY DEF TxTypeOK

-----------------------------------------------------------------------------
(* What locks protect.                                                     *)

RespectsRuns(c) ==
  /\ \A r \in Run : RunRow(r) \in held[c] /\ runStatus[r] # "absent" =>
       runStatus'[r] = runStatus[r]
  /\ \A r \in Run : TenantRow(TenantOfRun(r)) \in held[c] /\ runStatus[r] \notin ActiveRun =>
       runStatus'[r] = runStatus[r]
  /\ \A t \in Tenant : CursorRow(t) \in held[c] =>
       TenantActiveRuns(t)' \subseteq TenantActiveRuns(t)

RespectsWorkers(c) ==
  \A w \in Worker :
    /\ c \in Scheduler
    /\ pc[c] = "assign"
    /\ WorkerRow(w) \in held[c]
    /\ Schedulable(w)
    => Schedulable(w)'

RespectsAttempts(c) ==
  \A a \in Attempt : AttemptRow(a) \in held[c] /\ attStatus[a] \in ActiveAttempt =>
    attStatus'[a] \in ActiveAttempt

Respects(c) == RespectsRuns(c) /\ RespectsWorkers(c) /\ RespectsAttempts(c)

\* Nothing about c itself is written.
Idles(c) == UNCHANGED <<pc[c], run[c], batch[c], worker[c], held[c]>>

LEMMA SlotStays ==
  ASSUME NEW t \in Tenant, TenantActiveRuns(t)' \subseteq TenantActiveRuns(t),
         TenantHasSlot(t)
  PROVE  TenantHasSlot(t)'
<1>1. IsFiniteSet(TenantActiveRuns(t))
  BY ConstantsAssumption, FS_Subset DEF TenantActiveRuns
<1>2. /\ IsFiniteSet(TenantActiveRuns(t)')
      /\ Cardinality(TenantActiveRuns(t)') <= Cardinality(TenantActiveRuns(t))
  BY <1>1, FS_Subset
<1>3. /\ Cardinality(TenantActiveRuns(t)') \in Nat
      /\ Cardinality(TenantActiveRuns(t)) \in Nat
      /\ MaxRunning[t] \in Nat
  BY <1>1, <1>2, FS_CardinalityType, ConstantsAssumption
<1> QED BY <1>2, <1>3 DEF TenantHasSlot

\* A session whose locks are respected finds what it has read.
LEMMA Undisturbed ==
  ASSUME Facts, TxTypeOK, NEW c \in Client, ClientOrderly(c), Respects(c), Idles(c)
  PROVE  ClientOrderly(c)'
<1> USE DEF Respects, Idles
<1>1. run[c] \in Run /\ TenantOfRun(run[c]) \in Tenant
  BY EveryRow DEF TxTypeOK
<1>2. ASSUME c \in Creator
      PROVE  CreatorOrderly(c)'
  <2>1. CreatorOrderly(c)
    BY <1>2 DEF ClientOrderly
  <2>2. CASE pc[c] \in {"check session", "insert"}
    <3>1. TenantRow(TenantOfRun(run[c])) \in held[c] /\ runStatus[run[c]] = "absent"
      BY <2>1, <2>2 DEF CreatorOrderly
    <3>2. runStatus'[run[c]] = "absent"
      BY <1>1, <3>1 DEF RespectsRuns, ActiveRun, Waiting
    <3>3. OtherActiveRun(run[c]) = {} => OtherActiveRun(run[c])' = {}
      <4> SUFFICES ASSUME OtherActiveRun(run[c]) = {},
                          NEW q \in Run \ {run[c]}, SessionOf[q] = SessionOf[run[c]]
                   PROVE  runStatus'[q] \notin ActiveRun
        BY DEF OtherActiveRun
      <4>1. runStatus[q] \notin ActiveRun
        BY DEF OtherActiveRun
      <4>2. TenantOfRun(q) = TenantOfRun(run[c])
        BY DEF TenantOfRun
      <4> QED BY <3>1, <4>1, <4>2 DEF RespectsRuns
    <3> QED BY <2>1, <2>2, <3>2, <3>3 DEF CreatorOrderly, TenantOfRun
  <2> QED BY <2>1, <2>2 DEF CreatorOrderly
<1>3. ASSUME c \in Canceller
      PROVE  CancellerOrderly(c)'
  BY <1>3 DEF ClientOrderly, CancellerOrderly
<1>4. ASSUME c \in Scheduler
      PROVE  SchedulerOrderly(c)'
  <2> DEFINE t == TenantOfRun(run[c])
  <2>1. SchedulerOrderly(c) /\ t' = t
    BY <1>4 DEF ClientOrderly, TenantOfRun
  <2>2. ASSUME pc[c] \in {"check", "lock worker", "recount", "assign"}
        PROVE  runStatus'[run[c]] = "queued"
    <3>1. RunRow(run[c]) \in held[c] /\ runStatus[run[c]] = "queued"
      BY <2>1, <2>2 DEF SchedulerOrderly
    <3> QED BY <1>1, <3>1 DEF RespectsRuns
  <2>3. ASSUME pc[c] \in {"lock worker", "recount", "assign"}
        PROVE  TenantHasSlot(t)'
    <3>1. CursorRow(t) \in held[c] /\ TenantHasSlot(t)
      BY <2>1, <2>3 DEF SchedulerOrderly
    <3> HIDE DEF t
    <3>2. TenantActiveRuns(t)' \subseteq TenantActiveRuns(t)
      BY <1>1, <2>1, <3>1 DEF RespectsRuns, TenantActiveRuns, t
    <3> QED BY <1>1, <2>1, <3>1, <3>2, SlotStays DEF TenantHasSlot, t
  <2>4. ASSUME pc[c] = "assign"
        PROVE  Schedulable(worker[c])'
    <3>1. WorkerRow(worker[c]) \in held[c] /\ worker[c] \in Worker /\ Schedulable(worker[c])
      BY <2>1, <2>4 DEF SchedulerOrderly
    <3> QED
      BY <1>4, <2>4, <3>1 DEF RespectsWorkers, Schedulable, LiveAttempts
  <2> QED BY <2>1, <2>2, <2>3, <2>4 DEF SchedulerOrderly
<1>5. ASSUME c \in Recoverer
      PROVE  RecovererOrderly(c)'
  <2>1. RecovererOrderly(c) /\ batch[c] \subseteq Attempt
    BY <1>5 DEF ClientOrderly, TxTypeOK
  <2> QED BY <2>1 DEF RecovererOrderly, RespectsAttempts
<1>6. ASSUME c \in Commander
      PROVE  CommanderOrderly(c)'
  BY <1>6 DEF ClientOrderly, CommanderOrderly
<1> QED BY <1>2, <1>3, <1>4, <1>5, <1>6 DEF ClientOrderly

-----------------------------------------------------------------------------
(* What commits do to the other sessions.                                  *)

\* A transition of a Run that is nobody else's, other than its assignment.
LEMMA RunMoves ==
  ASSUME TypeOK, NEW c, NEW r \in Run, RunRow(r) \notin held[c],
         NEW q, q # "assigned", Transition(r, q)
  PROVE  RespectsRuns(c)
<1>1. /\ runStatus[r] \in ActiveRun
      /\ q \in TenantCapacityStatus => runStatus[r] \in TenantCapacityStatus
  BY DEF Transition, AllowedTransitions, TypeOK, RunStatus, ActiveRun, Waiting,
     TenantCapacityStatus
<1>2. \A p \in Run : runStatus'[p] = IF p = r THEN q ELSE runStatus[p]
  BY DEF Transition, TypeOK
<1>3. \A t \in Tenant : TenantActiveRuns(t)' \subseteq TenantActiveRuns(t)
  BY <1>1, <1>2 DEF TenantActiveRuns, TenantOfRun
<1> QED BY <1>1, <1>2, <1>3 DEF RespectsRuns

LEMMA RunsStay ==
  ASSUME UNCHANGED runStatus, NEW c
  PROVE  RespectsRuns(c)
  BY DEF RespectsRuns, TenantActiveRuns, TenantOfRun

\* A Worker with a slot keeps it if it gets no Attempt and loses no heartbeat.
LEMMA WorkerStays ==
  ASSUME NEW w \in Worker,
         LiveAttempts(w)' \subseteq LiveAttempts(w),
         workerStatus[w] = "online" => workerStatus'[w] = "online",
         heartbeat[w] > 0 => heartbeat'[w] > 0,
         Schedulable(w)
  PROVE  Schedulable(w)'
<1>1. IsFiniteSet(LiveAttempts(w))
  BY AttemptFinite, FS_Subset DEF LiveAttempts
<1>2. /\ IsFiniteSet(LiveAttempts(w)')
      /\ Cardinality(LiveAttempts(w)') <= Cardinality(LiveAttempts(w))
  BY <1>1, FS_Subset
<1>3. /\ Cardinality(LiveAttempts(w)') \in Nat
      /\ Cardinality(LiveAttempts(w)) \in Nat
      /\ Capacity[w] \in Nat
  BY <1>1, <1>2, FS_CardinalityType, ConstantsAssumption
<1> QED BY <1>2, <1>3 DEF Schedulable

\* A transaction about one Attempt, which nobody else has locked, that does not
\* bring it to life.
LEMMA AttemptMoves ==
  ASSUME NEW c, NEW a \in Attempt, AttemptRow(a) \notin held[c],
         UNCHANGED <<workerVars, attWorker>>,
         \A b \in Attempt \ {a} : attStatus'[b] = attStatus[b] /\ lease'[b] = lease[b],
         attStatus'[a] \in ActiveAttempt /\ lease'[a] > 0 =>
           attStatus[a] \in ActiveAttempt /\ lease[a] > 0
  PROVE  RespectsWorkers(c) /\ RespectsAttempts(c)
<1>1. \A w \in Worker : LiveAttempts(w)' \subseteq LiveAttempts(w)
  BY DEF LiveAttempts
<1>2. \A w \in Worker : Schedulable(w) => Schedulable(w)'
  BY <1>1, WorkerStays DEF workerVars
<1> QED BY <1>2 DEF RespectsWorkers, RespectsAttempts

LEMMA AttemptsStay ==
  ASSUME NEW c, UNCHANGED <<workerVars, attemptVars>>
  PROVE  RespectsWorkers(c) /\ RespectsAttempts(c)
<1>1. \A w \in Worker : LiveAttempts(w)' \subseteq LiveAttempts(w)
  BY DEF LiveAttempts, attemptVars
<1>2. \A w \in Worker : Schedulable(w) => Schedulable(w)'
  BY <1>1, WorkerStays DEF workerVars
<1> QED BY <1>2 DEF RespectsWorkers, RespectsAttempts, attemptVars

LEMMA NothingDisturbs ==
  ASSUME UNCHANGED vars, NEW c
  PROVE  Respects(c)
  BY RunsStay, AttemptsStay DEF Respects, vars, runVars

\* An insert is the business of the holder of the tenant.
LEMMA InsertRespects ==
  ASSUME TypeOK, NEW c, NEW r \in Run, runStatus[r] = "absent",
         TenantRow(TenantOfRun(r)) \notin held[c], Insert(r)
  PROVE  Respects(c)
<1>1. \A p \in Run : runStatus'[p] = IF p = r THEN "queued" ELSE runStatus[p]
  BY DEF Insert, TypeOK
<1>2. \A t \in Tenant : TenantActiveRuns(t)' \subseteq TenantActiveRuns(t)
  BY <1>1 DEF TenantActiveRuns, TenantOfRun, TenantCapacityStatus
<1>3. RespectsRuns(c)
  BY <1>1, <1>2 DEF RespectsRuns
<1> QED BY <1>3, AttemptsStay DEF Insert, Respects

\* An assignment is that of the holder of the cursor, the Run and the Worker.
LEMMA AssignRespects ==
  ASSUME TypeOK, NEW c, NEW r \in Run, NEW w \in Worker,
         <<r, attemptNo[r] + 1>> \in Attempt,
         runStatus[r] = "queued",
         CursorRow(TenantOfRun(r)) \notin held[c],
         RunRow(r) \notin held[c],
         WorkerRow(w) \notin held[c],
         Assign(r, w)
  PROVE  Respects(c)
<1> DEFINE b == <<r, attemptNo[r] + 1>>
<1>1. \A p \in Run : runStatus'[p] = IF p = r THEN "assigned" ELSE runStatus[p]
  BY DEF Assign, Transition, TypeOK
<1>2. /\ attStatus'[b] = "assigned" /\ attWorker'[b] = w
      /\ \A a \in Attempt \ {b} : /\ attStatus'[a] = attStatus[a]
                                  /\ attWorker'[a] = attWorker[a]
                                  /\ lease'[a] = lease[a]
  BY DEF Assign, TypeOK
<1> HIDE DEF b
<1>3. \A t \in Tenant \ {TenantOfRun(r)} : TenantActiveRuns(t)' \subseteq TenantActiveRuns(t)
  BY <1>1 DEF TenantActiveRuns, TenantOfRun
<1>4. RespectsRuns(c)
  BY <1>1, <1>3 DEF RespectsRuns, ActiveRun
<1>5. \A v \in Worker \ {w} : LiveAttempts(v)' \subseteq LiveAttempts(v)
  BY <1>2 DEF LiveAttempts
<1>6. \A v \in Worker \ {w} : Schedulable(v) => Schedulable(v)'
  BY <1>5, WorkerStays DEF Assign, workerVars
<1>7. RespectsWorkers(c)
  BY <1>6 DEF RespectsWorkers
<1>8. RespectsAttempts(c)
  BY <1>2 DEF RespectsAttempts, ActiveAttempt
<1> QED BY <1>4, <1>7, <1>8 DEF Respects

\* Recovery writes about an Attempt and a Run that nobody else has locked.
LEMMA RecoverRespects ==
  ASSUME TypeOK, NEW c, NEW a \in Attempt, Recover(a),
         AttemptRow(a) \notin held[c], RunRow(RunOf(a)) \notin held[c]
  PROVE  Respects(c)
<1>1. PICK s \in {"cancelled", "lost"} : FinishAttempt(a, s)
  BY DEF Recover, RecoveryCancels, RecoveryRetries, RecoveryFails
<1>2. PICK q \in {"cancelled", "queued", "failed"} : Transition(RunOf(a), q)
  BY DEF Recover, RecoveryCancels, RecoveryRetries, RecoveryFails
<1>3. RespectsRuns(c)
  BY <1>2, AttemptShape, RunMoves
<1>4. /\ UNCHANGED <<workerVars, attWorker>>
      /\ attStatus'[a] = s
      /\ \A b \in Attempt \ {a} : attStatus'[b] = attStatus[b] /\ lease'[b] = lease[b]
  BY <1>1 DEF FinishAttempt, Recover, TypeOK
<1>5. RespectsWorkers(c) /\ RespectsAttempts(c)
  BY <1>4, AttemptMoves DEF ActiveAttempt
<1> QED BY <1>3, <1>5 DEF Respects

\* The commands of a Worker about Attempt a.
Command(a) ==
  \/ Claim(a)
  \/ \E k \in Nat :
       \/ Renew(a, k)
       \/ Complete(a, k)
       \/ Fail(a, k)
       \/ \E type \in {"approval", "input"} : Pause(a, k, type)
       \/ AcknowledgeCancel(a, k)

LEMMA CommandRespects ==
  ASSUME TypeOK, NEW c, NEW a \in Attempt, Command(a),
         AttemptRow(a) \notin held[c], RunRow(RunOf(a)) \notin held[c]
  PROVE  Respects(c)
<1> RunOf(a) \in Run
  BY AttemptShape
<1>1. CASE Claim(a)
  <2>1. RespectsRuns(c)
    BY <1>1, RunMoves DEF Claim
  <2>2. /\ UNCHANGED <<workerVars, attWorker>>
        /\ attStatus[a] \in ActiveAttempt /\ lease[a] > 0
        /\ \A b \in Attempt \ {a} : attStatus'[b] = attStatus[b] /\ lease'[b] = lease[b]
    BY <1>1 DEF Claim, TypeOK, ActiveAttempt
  <2> QED BY <2>1, <2>2, AttemptMoves DEF Respects
<1>2. ASSUME NEW k \in Nat, Renew(a, k)
      PROVE  Respects(c)
  <2>1. RespectsRuns(c)
    BY <1>2, RunsStay DEF Renew, runVars
  <2>2. /\ UNCHANGED <<workerVars, attWorker>>
        /\ attStatus[a] \in ActiveAttempt /\ lease[a] > 0
        /\ \A b \in Attempt \ {a} : attStatus'[b] = attStatus[b] /\ lease'[b] = lease[b]
    BY <1>2 DEF Renew, Authoritative, TypeOK, ActiveAttempt
  <2> QED BY <2>1, <2>2, AttemptMoves DEF Respects
<1>3. ASSUME NEW k \in Nat,
             \/ Complete(a, k) \/ Fail(a, k) \/ AcknowledgeCancel(a, k)
             \/ \E type \in {"approval", "input"} : Pause(a, k, type)
      PROVE  Respects(c)
  <2>1. PICK s \in {"completed", "failed", "paused", "cancelled"} : FinishAttempt(a, s)
    BY <1>3 DEF Complete, Fail, Pause, AcknowledgeCancel
  <2>2. PICK q \in {"completed", "failed", "waiting_approval", "waiting_input", "cancelled"} :
          Transition(RunOf(a), q)
    BY <1>3 DEF Complete, Fail, Pause, AcknowledgeCancel
  <2>3. RespectsRuns(c)
    BY <2>2, RunMoves
  <2>4. /\ UNCHANGED <<workerVars, attWorker>>
        /\ attStatus'[a] = s
        /\ \A b \in Attempt \ {a} : attStatus'[b] = attStatus[b] /\ lease'[b] = lease[b]
    BY <1>3, <2>1 DEF FinishAttempt, Complete, Fail, Pause, AcknowledgeCancel, TypeOK
  <2>5. RespectsWorkers(c) /\ RespectsAttempts(c)
    BY <2>4, AttemptMoves DEF ActiveAttempt
  <2> QED BY <2>3, <2>5 DEF Respects
<1> QED BY <1>1, <1>2, <1>3 DEF Command

\* Nobody waits to see a Worker register, beat or die, and no time passes
\* between a recount and its commit.
LEMMA EnvironmentRespects ==
  ASSUME TypeOK, TxTypeOK, NEW c \in Client, Environment
  PROVE  Respects(c)
<1>1. BackgroundStep
  BY DEF Environment, BackgroundStep, ProcessStep, TypeOK
<1>2. RespectsRuns(c) /\ RespectsAttempts(c)
  BY <1>1, BackgroundFrame, RunsStay DEF RespectsAttempts
<1>3. RespectsWorkers(c)
  <2> SUFFICES ASSUME NEW w \in Worker, c \in Scheduler, pc[c] = "assign",
                      WorkerRow(w) \in held[c], Schedulable(w)
               PROVE  Schedulable(w)'
    BY DEF RespectsWorkers
  <2>1. ~Free(WorkerRow(w)) /\ ~(\A d \in Scheduler : pc[d] # "assign")
    BY DEF Free
  <2>2. /\ UNCHANGED attemptVars
        /\ workerStatus[w] = "online" => workerStatus'[w] = "online"
        /\ heartbeat[w] > 0 => heartbeat'[w] > 0
    <3>1. ASSUME NEW v \in Worker, Register(v) \/ Crash(v)
          PROVE  /\ UNCHANGED attemptVars
                 /\ workerStatus[w] = "online" => workerStatus'[w] = "online"
                 /\ heartbeat[w] > 0 => heartbeat'[w] > 0
      BY <3>1, ConstantsAssumption DEF Register, Crash, TypeOK
    <3>2. ASSUME NEW v \in Worker, v # w, Heartbeat(v) \/ Drain(v) \/ Stop(v)
          PROVE  /\ UNCHANGED attemptVars
                 /\ workerStatus[w] = "online" => workerStatus'[w] = "online"
                 /\ heartbeat[w] > 0 => heartbeat'[w] > 0
      BY <3>2 DEF Heartbeat, Drain, Stop, TypeOK
    <3>3. ASSUME NEW e \in executing, Abandon(e[1], e[2])
          PROVE  UNCHANGED <<attemptVars, workerStatus, heartbeat>>
      BY <3>3 DEF Abandon, workerVars
    <3> QED BY <2>1, <3>1, <3>2, <3>3 DEF Environment
  <2>3. LiveAttempts(w)' \subseteq LiveAttempts(w)
    BY <2>2 DEF LiveAttempts, attemptVars
  <2> QED BY <2>2, <2>3, WorkerStays
<1> QED BY <1>2, <1>3 DEF Respects

-----------------------------------------------------------------------------
(* One statement of a session.                                             *)

\* What is shown of every step of session d.
GoodStep(d) ==
  /\ [AnyStep]_vars
  /\ TxTypeOK'
  /\ ClientOrderly(d)'
  /\ \A c \in Client \ {d} : Idles(c) /\ Respects(c)

LEMMA GoodStepKeeps ==
  ASSUME TxInvariant, NEW d \in Client, GoodStep(d)
  PROVE  TxInvariant'
<1>1. Facts'
  BY FactsStep DEF TxInvariant, GoodStep
<1>2. ASSUME NEW c \in Client \ {d}
      PROVE  ClientOrderly(c)'
  BY Undisturbed DEF TxInvariant, GoodStep
<1>3. (\A c \in Client : ClientOrderly(c))'
  BY <1>2 DEF GoodStep, Client
<1> QED BY <1>1, <1>3 DEF TxInvariant, GoodStep

\* A session is of one kind.
LEMMA OneKind ==
  /\ \A d \in Creator : CreatorOrderly(d) => ClientOrderly(d)
  /\ \A d \in Canceller : CancellerOrderly(d) => ClientOrderly(d)
  /\ \A d \in Scheduler : SchedulerOrderly(d) => ClientOrderly(d)
  /\ \A d \in Recoverer : RecovererOrderly(d) => ClientOrderly(d)
  /\ \A d \in Commander : CommanderOrderly(d) => ClientOrderly(d)
  BY TransactionsAssumption DEF ClientOrderly

LEMMA OneKindNext ==
  /\ \A d \in Creator : CreatorOrderly(d)' => ClientOrderly(d)'
  /\ \A d \in Canceller : CancellerOrderly(d)' => ClientOrderly(d)'
  /\ \A d \in Scheduler : SchedulerOrderly(d)' => ClientOrderly(d)'
  /\ \A d \in Recoverer : RecovererOrderly(d)' => ClientOrderly(d)'
  /\ \A d \in Commander : CommanderOrderly(d)' => ClientOrderly(d)'
  BY TransactionsAssumption DEF ClientOrderly

\* Session d alone gets on with its transaction.
MovesOn(d) ==
  /\ pc' = [pc EXCEPT ![d] = pc'[d]]
  /\ run' = [run EXCEPT ![d] = run'[d]]
  /\ batch' = [batch EXCEPT ![d] = batch'[d]]
  /\ worker' = [worker EXCEPT ![d] = worker'[d]]
  /\ held' = [held EXCEPT ![d] = held'[d]]

\* What it has locked now, nobody had.
LocksFreeRows(d) == held'[d] \subseteq Row /\ \A row \in held'[d] \ held[d] : Free(row)

LEMMA MovingOn ==
  ASSUME TxTypeOK, NEW d \in Client, MovesOn(d), LocksFreeRows(d),
         pc'[d] \in Statement \ {"idle"},
         run'[d] \in Run,
         batch'[d] \subseteq Attempt,
         worker'[d] \in Worker \union {NoWorker}
  PROVE  /\ TxTypeOK'
         /\ \A c \in Client \ {d} : Idles(c)
<1>1. \A c \in Client \ {d} : Idles(c)
  BY DEF MovesOn, Idles, TxTypeOK
<1>2. /\ pc' \in [Client -> Statement]
      /\ run' \in [Client -> Run]
      /\ batch' \in [Client -> SUBSET Attempt]
      /\ worker' \in [Client -> Worker \union {NoWorker}]
      /\ held' \in [Client -> SUBSET Row]
  BY DEF MovesOn, LocksFreeRows, TxTypeOK
<1>3. \A c, e \in Client : c # e => held'[c] \intersect held'[e] = {}
  BY <1>1 DEF TxTypeOK, Free, Idles, LocksFreeRows
<1>4. \A c \in Client : pc'[c] = "idle" => held'[c] = {}
  BY <1>1 DEF TxTypeOK, Idles
<1> QED BY <1>1, <1>2, <1>3, <1>4 DEF TxTypeOK

\* A statement that reads or locks, and changes no table.
LEMMA ReadingStep ==
  ASSUME UNCHANGED vars, TxTypeOK, NEW d \in Client, MovesOn(d), LocksFreeRows(d),
         pc'[d] \in Statement \ {"idle"},
         run'[d] \in Run,
         batch'[d] \subseteq Attempt,
         worker'[d] \in Worker \union {NoWorker},
         ClientOrderly(d)'
  PROVE  GoodStep(d)
  BY MovingOn, NothingDisturbs DEF GoodStep

LEMMA EndKeeps ==
  ASSUME TxTypeOK, NEW d \in Client, EndTransaction(d)
  PROVE  /\ TxTypeOK'
         /\ ClientOrderly(d)'
         /\ \A c \in Client \ {d} : Idles(c)
<1>1. /\ \A c \in Client \ {d} : Idles(c)
      /\ pc'[d] = "idle" /\ batch'[d] = {} /\ held'[d] = {}
  BY DEF EndTransaction, Idles, TxTypeOK
<1>2. (CHOOSE r \in Run : TRUE) \in Run
  BY TransactionsAssumption
<1>3. /\ pc' \in [Client -> Statement]
      /\ run' \in [Client -> Run]
      /\ batch' \in [Client -> SUBSET Attempt]
      /\ worker' \in [Client -> Worker \union {NoWorker}]
      /\ held' \in [Client -> SUBSET Row]
  BY <1>2 DEF EndTransaction, TxTypeOK, Statement
<1>4. \A c, e \in Client : c # e => held'[c] \intersect held'[e] = {}
  BY <1>1 DEF TxTypeOK, Idles
<1>5. \A c \in Client : pc'[c] = "idle" => held'[c] = {}
  BY <1>1 DEF TxTypeOK, Idles
<1>6. ClientOrderly(d)'
  BY <1>1 DEF ClientOrderly, CreatorOrderly, CancellerOrderly, SchedulerOrderly,
     RecovererOrderly, CommanderOrderly
<1> QED BY <1>1, <1>3, <1>4, <1>5, <1>6 DEF TxTypeOK

\* A commit, or a rollback.
LEMMA FinalStep ==
  ASSUME TxTypeOK, NEW d \in Client, EndTransaction(d), [AnyStep]_vars,
         \A c \in Client \ {d} : Respects(c)
  PROVE  GoodStep(d)
  BY EndKeeps DEF GoodStep

LEMMA RollbackStep ==
  ASSUME TxInvariant, NEW d \in Client, Rollback(d)
  PROVE  GoodStep(d)
  BY EndKeeps, FinalStep, NothingDisturbs DEF TxInvariant, Rollback

-----------------------------------------------------------------------------
(* create_run.                                                             *)

LEMMA CreateStep ==
  ASSUME TxInvariant, NEW d \in Creator, CreateTransaction(d)
  PROVE  GoodStep(d)
<1> d \in Client
  BY DEF Client
<1>1. /\ TypeOK /\ TxTypeOK /\ CreatorOrderly(d)
      /\ run[d] \in Run /\ batch[d] \in SUBSET Attempt
      /\ worker[d] \in Worker \union {NoWorker}
      /\ TenantRow(TenantOfRun(run[d])) \in Row
  BY EveryRow DEF TxInvariant, Facts, ClientOrderly, TxTypeOK
<1>2. ASSUME NEW r \in Run, BeginCreate(d, r)
      PROVE  GoodStep(d)
  <2>1. /\ MovesOn(d) /\ UNCHANGED <<vars, batch, worker, held>>
        /\ pc'[d] = "lock tenant" /\ run'[d] = r
    BY <1>1, <1>2 DEF BeginCreate, Goto, MovesOn, TxTypeOK
  <2>2. held'[d] = {}
    BY <1>1, <1>2, <2>1 DEF BeginCreate, CreatorOrderly
  <2>3. CreatorOrderly(d)'
    BY <2>1, <2>2 DEF CreatorOrderly
  <2> QED
    BY <1>1, <2>1, <2>2, <2>3, OneKindNext, ReadingStep DEF LocksFreeRows, Statement
<1>3. CASE LockTenant(d)
  <2> DEFINE row == TenantRow(TenantOfRun(run[d]))
  <2>1. /\ MovesOn(d) /\ UNCHANGED <<vars, run, batch, worker>>
        /\ pc'[d] = "check session" /\ held'[d] = held[d] \union {row}
        /\ Free(row)
    BY <1>1, <1>3 DEF LockTenant, Goto, MovesOn, TxTypeOK
  <2>2. held[d] = {} /\ runStatus'[run'[d]] = "absent"
    BY <1>1, <1>3, <2>1 DEF LockTenant, CreatorOrderly, vars, runVars
  <2>3. CreatorOrderly(d)'
    BY <2>1, <2>2 DEF CreatorOrderly, TenantOfRun
  <2> QED
    BY <1>1, <2>1, <2>2, <2>3, OneKindNext, ReadingStep DEF LocksFreeRows, Statement
<1>4. CASE CheckSession(d)
  <2>1. /\ MovesOn(d) /\ UNCHANGED <<vars, run, batch, worker, held>>
        /\ pc'[d] = "insert"
    BY <1>1, <1>4 DEF CheckSession, Goto, MovesOn, TxTypeOK
  <2>2. /\ held[d] = {TenantRow(TenantOfRun(run[d]))}
        /\ runStatus[run[d]] = "absent"
        /\ OtherActiveRun(run[d]) = {}
        /\ UNCHANGED runStatus
    BY <1>1, <1>4, <2>1 DEF CheckSession, CreatorOrderly, vars, runVars
  <2>3. CreatorOrderly(d)'
    BY <2>1, <2>2 DEF CreatorOrderly, TenantOfRun, OtherActiveRun
  <2> QED
    BY <1>1, <2>1, <2>2, <2>3, OneKindNext, ReadingStep DEF LocksFreeRows, Statement
<1>5. CASE InsertRun(d)
  <2>1. /\ runStatus[run[d]] = "absent" /\ OtherActiveRun(run[d]) = {}
        /\ TenantRow(TenantOfRun(run[d])) \in held[d]
    BY <1>1, <1>5 DEF InsertRun, CreatorOrderly
  <2>2. AnyStep
    BY <1>1, <1>5, <2>1 DEF InsertRun, AnyStep, Admit
  <2>3. \A c \in Client \ {d} : Respects(c)
    BY <1>1, <1>5, <2>1, HeldAlone, InsertRespects DEF InsertRun
  <2> QED BY <1>1, <1>5, <2>2, <2>3, FinalStep DEF InsertRun
<1> QED BY <1>2, <1>3, <1>4, <1>5 DEF CreateTransaction

-----------------------------------------------------------------------------
(* cancel_run.                                                             *)

\* What is recorded is what RunControl's CancelRun records, if anything.
LEMMA CancelRefines ==
  ASSUME Facts, NEW d \in Canceller, run[d] \in Run, LockAndCancel(d)
  PROVE  CancelRun(run[d]) \/ UNCHANGED vars
<1> DEFINE r == run[d]
<1>1. CASE runStatus[r] \in Terminal \union {"cancel_requested"}
  BY <1>1 DEF LockAndCancel, RecordCancel, Terminal, Waiting, vars, runVars, outboxVars
<1>2. CASE runStatus[r] \in Waiting \union {"queued"}
  BY <1>2 DEF LockAndCancel, RecordCancel, Terminal, Waiting, CancelRun
<1>3. CASE runStatus[r] \in {"assigned", "running"}
  <2>1. attStatus[Latest(r)] \in ActiveAttempt
    BY <1>3 DEF Facts, AttemptMatchesRun, NeverStarted, AttemptStatusFor, ActiveAttempt
  <2>2. Latest(r) \in Attempt
    <3>1. attemptNo[r] \in 1 .. MaxAttempts
      BY <1>3, ConstantsAssumption
      DEF Facts, TypeOK, AttemptsPaidFor, Waiting, MaxAttempts
    <3> QED BY <3>1 DEF Latest, Attempt
  <2>3. Latest(r) \in ActiveAttemptsOf(r)
    BY <2>1, <2>2 DEF ActiveAttemptsOf, Latest, RunOf
  <2>4. batch[d] # {}
    BY <2>3 DEF LockAndCancel, Stable
  <2> QED
    BY <1>3, <2>1, <2>4
    DEF LockAndCancel, RecordCancel, Terminal, Waiting, CancelRun
<1> QED
  BY <1>1, <1>2, <1>3 DEF LockAndCancel, RecordCancel

LEMMA CancelClientStep ==
  ASSUME TxInvariant, NEW d \in Canceller, CancelTransaction(d)
  PROVE  GoodStep(d)
<1> d \in Client
  BY DEF Client
<1>1. /\ Facts /\ TypeOK /\ TxTypeOK /\ CancellerOrderly(d)
      /\ run[d] \in Run /\ batch[d] \in SUBSET Attempt
      /\ worker[d] \in Worker \union {NoWorker}
  BY DEF TxInvariant, Facts, ClientOrderly, TxTypeOK
<1>2. ASSUME NEW r \in Run, Discover(d, r)
      PROVE  GoodStep(d)
  <2>1. /\ MovesOn(d) /\ UNCHANGED <<vars, worker, held>>
        /\ run'[d] = r /\ batch'[d] = ActiveAttemptsOf(r)
        /\ \/ pc'[d] = "lock run" /\ batch'[d] = {}
           \/ pc'[d] = "lock attempt"
    BY <1>1, <1>2 DEF Discover, Goto, MovesOn, TxTypeOK
  <2>2. batch'[d] \subseteq Attempt
    BY <2>1 DEF ActiveAttemptsOf
  <2>3. held'[d] = {}
    BY <1>1, <1>2, <2>1 DEF Discover, CancellerOrderly
  <2>4. CancellerOrderly(d)'
    BY <2>1, <2>3 DEF CancellerOrderly
  <2> QED
    BY <1>1, <2>1, <2>2, <2>3, <2>4, OneKindNext, ReadingStep
    DEF LocksFreeRows, Statement
<1>3. CASE LockDiscovered(d)
  <2>1. /\ MovesOn(d) /\ UNCHANGED <<vars, run, batch, worker>>
        /\ pc'[d] = "lock run"
        /\ held'[d] = held[d] \union {AttemptRow(a) : a \in batch[d]}
        /\ \A a \in batch[d] : Free(AttemptRow(a))
    BY <1>1, <1>3 DEF LockDiscovered, Goto, MovesOn, TxTypeOK
  <2>2. held[d] = {}
    BY <1>1, <1>3 DEF LockDiscovered, CancellerOrderly
  <2>3. LocksFreeRows(d)
    BY <1>1, <2>1, <2>2, EveryRow DEF LocksFreeRows
  <2>4. CancellerOrderly(d)'
    BY <2>1, <2>2 DEF CancellerOrderly
  <2> QED
    BY <1>1, <2>1, <2>3, <2>4, OneKindNext, ReadingStep DEF Statement
<1>4. CASE LockAndCancel(d)
  <2>1. [AnyStep]_vars
    BY <1>1, <1>4, CancelRefines DEF AnyStep, Next, ApiStep
  <2>2. ASSUME NEW c \in Client \ {d}
        PROVE  Respects(c)
    <3>1. RunRow(run[d]) \notin held[c]
      BY <1>4 DEF LockAndCancel, FreeFor
    <3>2. \/ UNCHANGED runStatus
          \/ \E q \in {"cancelled", "cancel_requested"} : Transition(run[d], q)
      BY <1>4 DEF LockAndCancel, RecordCancel
    <3>3. RespectsRuns(c)
      BY <1>1, <3>1, <3>2, RunMoves, RunsStay
    <3> QED BY <1>4, <3>3, AttemptsStay DEF LockAndCancel, Respects
  <2> QED BY <1>1, <1>4, <2>1, <2>2, FinalStep DEF LockAndCancel
<1> QED BY <1>2, <1>3, <1>4 DEF CancelTransaction

-----------------------------------------------------------------------------
(* schedule_once.                                                          *)

LEMMA ScheduleStep ==
  ASSUME TxInvariant, NEW d \in Scheduler, ScheduleTransaction(d)
  PROVE  GoodStep(d)
<1> d \in Client
  BY DEF Client
<1> DEFINE cursor == CursorRow(TenantOfRun(run[d]))
<1>1. /\ Facts /\ TypeOK /\ TxTypeOK /\ SchedulerOrderly(d)
      /\ run[d] \in Run /\ batch[d] \in SUBSET Attempt
      /\ worker[d] \in Worker \union {NoWorker}
      /\ cursor \in Row /\ RunRow(run[d]) \in Row
  BY EveryRow DEF TxInvariant, Facts, ClientOrderly, TxTypeOK
<1>2. ASSUME NEW r \in Run, PickRun(d, r)
      PROVE  GoodStep(d)
  <2>1. /\ MovesOn(d) /\ UNCHANGED <<vars, batch, worker>>
        /\ pc'[d] = "lock run" /\ run'[d] = r
        /\ held'[d] = {CursorRow(TenantOfRun(r))}
        /\ Free(CursorRow(TenantOfRun(r)))
    BY <1>1, <1>2 DEF PickRun, Goto, MovesOn, TxTypeOK
  <2>2. SchedulerOrderly(d)'
    BY <2>1 DEF SchedulerOrderly, TenantOfRun
  <2> QED
    BY <1>1, <2>1, <2>2, OneKindNext, ReadingStep, EveryRow
    DEF LocksFreeRows, Statement
<1>3. CASE LockRun(d)
  <2>1. /\ MovesOn(d) /\ UNCHANGED <<vars, run, batch, worker>>
        /\ pc'[d] = "check" /\ held'[d] = held[d] \union {RunRow(run[d])}
        /\ Free(RunRow(run[d]))
    BY <1>1, <1>3 DEF LockRun, Goto, MovesOn, TxTypeOK
  <2>2. held[d] = {cursor} /\ runStatus'[run'[d]] = "queued"
    BY <1>1, <1>3, <2>1 DEF LockRun, SchedulerOrderly, vars, runVars
  <2>3. SchedulerOrderly(d)'
    BY <2>1, <2>2 DEF SchedulerOrderly, TenantOfRun
  <2> QED
    BY <1>1, <2>1, <2>2, <2>3, OneKindNext, ReadingStep DEF LocksFreeRows, Statement
<1>4. CASE CheckEligibility(d)
  <2>1. /\ MovesOn(d) /\ UNCHANGED <<vars, run, batch, worker, held>>
        /\ pc'[d] = "lock worker"
    BY <1>1, <1>4 DEF CheckEligibility, Goto, MovesOn, TxTypeOK
  <2>2. /\ held[d] = {cursor, RunRow(run[d])}
        /\ runStatus'[run[d]] = "queued"
        /\ TenantHasSlot(TenantOfRun(run[d]))'
    BY <1>1, <1>4, <2>1
    DEF CheckEligibility, SchedulerOrderly, TenantHasSlot, TenantActiveRuns,
        TenantOfRun, vars, runVars
  <2>3. SchedulerOrderly(d)'
    BY <2>1, <2>2 DEF SchedulerOrderly, TenantOfRun
  <2> QED
    BY <1>1, <2>1, <2>2, <2>3, OneKindNext, ReadingStep DEF LocksFreeRows, Statement
<1>5. ASSUME NEW w \in Worker, LockWorker(d, w)
      PROVE  GoodStep(d)
  <2>1. /\ MovesOn(d) /\ UNCHANGED <<vars, run, batch>>
        /\ pc'[d] = "recount" /\ worker'[d] = w
        /\ held'[d] = held[d] \union {WorkerRow(w)}
        /\ Free(WorkerRow(w)) /\ WorkerRow(w) \in Row
    BY <1>1, <1>5, EveryRow DEF LockWorker, Goto, MovesOn, TxTypeOK
  <2>2. /\ held[d] = {cursor, RunRow(run[d])}
        /\ runStatus'[run[d]] = "queued"
        /\ TenantHasSlot(TenantOfRun(run[d]))'
    BY <1>1, <1>5, <2>1
    DEF LockWorker, SchedulerOrderly, TenantHasSlot, TenantActiveRuns,
        TenantOfRun, vars, runVars
  <2>3. SchedulerOrderly(d)'
    BY <2>1, <2>2 DEF SchedulerOrderly, TenantOfRun
  <2> QED
    BY <1>1, <2>1, <2>2, <2>3, OneKindNext, ReadingStep DEF LocksFreeRows, Statement
<1>6. CASE Recount(d)
  <2>1. /\ MovesOn(d) /\ UNCHANGED <<vars, run, batch, worker, held>>
        /\ pc'[d] = "assign" /\ Schedulable(worker[d])'
    BY <1>1, <1>6
    DEF Recount, Goto, MovesOn, TxTypeOK, Schedulable, LiveAttempts, vars,
        attemptVars, workerVars
  <2>2. /\ worker[d] \in Worker
        /\ held[d] = {cursor, RunRow(run[d]), WorkerRow(worker[d])}
        /\ runStatus'[run[d]] = "queued"
        /\ TenantHasSlot(TenantOfRun(run[d]))'
    BY <1>1, <1>6, <2>1
    DEF Recount, SchedulerOrderly, TenantHasSlot, TenantActiveRuns,
        TenantOfRun, vars, runVars
  <2>3. SchedulerOrderly(d)'
    BY <2>1, <2>2 DEF SchedulerOrderly, TenantOfRun, Schedulable, LiveAttempts
  <2> QED
    BY <1>1, <2>1, <2>2, <2>3, OneKindNext, ReadingStep, EveryRow
    DEF LocksFreeRows, Statement
<1>7. CASE AssignRun(d)
  <2>1. /\ runStatus[run[d]] = "queued" /\ worker[d] \in Worker
        /\ TenantHasSlot(TenantOfRun(run[d]))
        /\ Schedulable(worker[d])
        /\ cursor \in held[d] /\ RunRow(run[d]) \in held[d]
        /\ WorkerRow(worker[d]) \in held[d]
    BY <1>1, <1>7 DEF AssignRun, SchedulerOrderly
  <2>2. ~UnresolvedPause(run[d])
    BY <1>1, <2>1 DEF Facts, PauseMatchesStatus, Waiting
  <2>3. OtherActiveRun(run[d]) = {}
    BY <1>1, <2>1 DEF Facts, OneActiveRunPerSession, OtherActiveRun, ActiveRun
  <2>4. Schedule(run[d], worker[d])
    BY <1>7, <2>1, <2>2, <2>3 DEF AssignRun, Schedule
  <2>5. AnyStep
    BY <1>1, <2>1, <2>4 DEF AnyStep, Next, SchedulerStep
  <2>6. <<run[d], attemptNo[run[d]] + 1>> \in Attempt
    BY <1>1, <2>1, NewAttempt DEF Facts
  <2>7. \A c \in Client \ {d} : Respects(c)
    BY <1>1, <1>7, <2>1, <2>6, HeldAlone, AssignRespects DEF AssignRun
  <2> QED BY <1>1, <1>7, <2>5, <2>7, FinalStep DEF AssignRun
<1> QED BY <1>2, <1>3, <1>4, <1>5, <1>6, <1>7 DEF ScheduleTransaction

-----------------------------------------------------------------------------
(* recover_expired_attempts.                                               *)

LEMMA RecoverTableStep ==
  ASSUME TypeOK, NEW a \in Attempt, Recover(a), NEW b \in Attempt \ {a}
  PROVE  attStatus'[b] = attStatus[b]
  BY DEF Recover, RecoveryCancels, RecoveryRetries, RecoveryFails, FinishAttempt,
     TypeOK

LEMMA RecoveryStep ==
  ASSUME TxInvariant, NEW d \in Recoverer, RecoveryTransaction(d)
  PROVE  GoodStep(d)
<1> d \in Client
  BY DEF Client
<1>1. /\ Facts /\ TypeOK /\ TxTypeOK /\ RecovererOrderly(d)
      /\ run[d] \in Run /\ batch[d] \in SUBSET Attempt
      /\ worker[d] \in Worker \union {NoWorker}
      /\ held[d] \in SUBSET Row
  BY DEF TxInvariant, Facts, ClientOrderly, TxTypeOK
<1>2. CASE LockExpired(d)
  <2> DEFINE expired == {a \in Attempt : /\ attStatus[a] \in ActiveAttempt
                                         /\ lease[a] = 0
                                         /\ Free(AttemptRow(a))}
  <2>1. /\ MovesOn(d) /\ UNCHANGED <<vars, run, worker>>
        /\ pc'[d] = "lock run" /\ batch'[d] = expired
        /\ held'[d] = {AttemptRow(a) : a \in expired}
    BY <1>1, <1>2 DEF LockExpired, Goto, MovesOn, TxTypeOK
  <2>2. LocksFreeRows(d)
    BY <2>1, EveryRow DEF LocksFreeRows
  <2>3. RecovererOrderly(d)'
    BY <2>1, RowsDiffer DEF RecovererOrderly, vars, attemptVars
  <2> QED
    BY <1>1, <2>1, <2>2, <2>3, OneKindNext, ReadingStep DEF Statement
<1>3. ASSUME NEW a \in Attempt, LockRunOf(d, a)
      PROVE  GoodStep(d)
  <2>1. /\ MovesOn(d) /\ UNCHANGED <<vars, run, batch, worker>>
        /\ held'[d] = held[d] \union {RunRow(RunOf(a))}
        /\ Free(RunRow(RunOf(a))) /\ a \in batch[d]
        /\ \/ pc'[d] = "recover" /\ \A b \in batch[d] : RunRow(RunOf(b)) \in held'[d]
           \/ pc'[d] = "lock run"
    BY <1>1, <1>3 DEF LockRunOf, Goto, MovesOn, TxTypeOK
  <2>2. LocksFreeRows(d)
    BY <1>1, <2>1, EveryRow DEF LocksFreeRows
  <2>3. RunOf(a) \in Run /\ pc[d] = "lock run"
    BY <1>3, AttemptShape DEF LockRunOf
  <2>4. RecovererOrderly(d)'
    BY <1>1, <2>1, <2>3, RowsDiffer DEF RecovererOrderly, vars, attemptVars
  <2> QED
    BY <1>1, <2>1, <2>2, <2>4, OneKindNext, ReadingStep DEF Statement
<1>4. ASSUME NEW a \in Attempt, RecoverNext(d, a)
      PROVE  GoodStep(d)
  <2>1. /\ pc[d] = "recover" /\ a \in batch[d]
        /\ AttemptRow(a) \in held[d] /\ RunRow(RunOf(a)) \in held[d]
    BY <1>1, <1>4 DEF RecoverNext, RecovererOrderly
  <2>2. [AnyStep]_vars
    BY <1>4 DEF RecoverNext, AnyStep, Next, SchedulerStep
  <2>3. \A c \in Client \ {d} : Respects(c)
    <3>1. CASE Recover(a)
      BY <1>1, <2>1, <3>1, HeldAlone, RecoverRespects
    <3>2. CASE UNCHANGED vars
      BY <3>2, NothingDisturbs
    <3> QED BY <1>4, <3>1, <3>2 DEF RecoverNext
  <2>4. CASE batch[d] = {a}
    BY <1>1, <1>4, <2>2, <2>3, <2>4, FinalStep DEF RecoverNext
  <2>5. CASE batch[d] # {a}
    <3>1. /\ MovesOn(d) /\ UNCHANGED <<pc, run, worker, held>>
          /\ batch'[d] = batch[d] \ {a}
      BY <1>1, <1>4, <2>5 DEF RecoverNext, MovesOn, TxTypeOK
    <3>2. \A b \in batch[d] \ {a} : attStatus'[b] = attStatus[b]
      BY <1>1, <1>4, RecoverTableStep DEF RecoverNext, vars, attemptVars
    <3>3. RecovererOrderly(d)'
      BY <1>1, <2>1, <3>1, <3>2 DEF RecovererOrderly
    <3>4. TxTypeOK' /\ \A c \in Client \ {d} : Idles(c)
      BY <1>1, <2>1, <3>1, MovingOn DEF LocksFreeRows, Statement
    <3> QED BY <2>2, <2>3, <3>3, <3>4, OneKindNext DEF GoodStep
  <2> QED BY <2>4, <2>5
<1> QED BY <1>2, <1>3, <1>4 DEF RecoveryTransaction

-----------------------------------------------------------------------------
(* The commands of the Workers.                                            *)

LEMMA CommandClientStep ==
  ASSUME TxInvariant, NEW d \in Commander, CommandTransaction(d)
  PROVE  GoodStep(d)
<1> d \in Client
  BY DEF Client
<1>1. /\ Facts /\ TypeOK /\ TxTypeOK /\ CommanderOrderly(d)
      /\ run[d] \in Run /\ batch[d] \in SUBSET Attempt
      /\ worker[d] \in Worker \union {NoWorker}
  BY DEF TxInvariant, Facts, ClientOrderly, TxTypeOK
<1>2. ASSUME NEW a \in Attempt, LockAttempt(d, a)
      PROVE  GoodStep(d)
  <2>1. /\ MovesOn(d) /\ UNCHANGED <<vars, worker>>
        /\ pc'[d] = "lock run" /\ batch'[d] = {a} /\ run'[d] = RunOf(a)
        /\ held'[d] = {AttemptRow(a)} /\ Free(AttemptRow(a))
    BY <1>1, <1>2 DEF LockAttempt, Goto, MovesOn, TxTypeOK
  <2>2. CommanderOrderly(d)'
    BY <2>1 DEF CommanderOrderly
  <2> QED
    BY <1>1, <2>1, <2>2, OneKindNext, ReadingStep, EveryRow
    DEF LocksFreeRows, Statement
<1>3. CASE LockAndCommand(d)
  <2>1. PICK a \in batch[d] :
          \/ Claim(a)
          \/ \E e \in executing :
               /\ e[1] = a
               /\ \/ Renew(a, e[2])
                  \/ Complete(a, e[2])
                  \/ Fail(a, e[2])
                  \/ \E type \in {"approval", "input"} : Pause(a, e[2], type)
                  \/ AcknowledgeCancel(a, e[2])
    BY <1>3 DEF LockAndCommand
  <2>2. a \in Attempt /\ RunOf(a) = run[d] /\ AttemptRow(a) \in held[d]
    BY <1>1 DEF CommanderOrderly
  <2>3. AnyStep
    BY <2>1, <2>2 DEF AnyStep, Next, CommandStep, Finish
  <2>4. Command(a)
    <3>1. \A e \in executing : e[2] \in Nat
      BY <1>1 DEF TypeOK
    <3> QED BY <2>1, <3>1 DEF Command
  <2>5. \A c \in Client \ {d} : Respects(c)
    BY <1>1, <1>3, <2>2, <2>4, HeldAlone, CommandRespects DEF LockAndCommand, Free
  <2> QED BY <1>1, <1>3, <2>3, <2>5, FinalStep DEF LockAndCommand
<1> QED BY <1>2, <1>3 DEF CommandTransaction

-----------------------------------------------------------------------------
(* Steps of nobody's session.                                              *)

LEMMA ResumeStep ==
  ASSUME TxInvariant, NEW r \in Run, ResumeTransaction(r)
  PROVE  /\ [AnyStep]_vars
         /\ UNCHANGED txVars
         /\ \A c \in Client : Respects(c)
<1>1. AnyStep /\ UNCHANGED txVars
  BY DEF ResumeTransaction, AnyStep, Next, ApiStep
<1>2. ASSUME NEW c \in Client
      PROVE  Respects(c)
  <2>1. RespectsRuns(c)
    BY RunMoves DEF TxInvariant, Facts, ResumeTransaction, ResumeRun, Free
  <2> QED BY <2>1, AttemptsStay DEF ResumeTransaction, ResumeRun, Respects
<1> QED BY <1>1, <1>2

LEMMA EnvironmentStep ==
  ASSUME TxInvariant, Environment
  PROVE  /\ [AnyStep]_vars
         /\ UNCHANGED txVars
         /\ \A c \in Client : Respects(c)
<1>1. AnyStep /\ UNCHANGED txVars
  BY DEF Environment, AnyStep, Next, ProcessStep, CommandStep, Finish
<1> QED BY <1>1, EnvironmentRespects DEF TxInvariant, Facts

\* A step that no session takes leaves them all undisturbed.
LEMMA OutsideStep ==
  ASSUME TxInvariant, [AnyStep]_vars, UNCHANGED txVars,
         \A c \in Client : Respects(c)
  PROVE  TxInvariant'
<1>1. Facts'
  BY FactsStep DEF TxInvariant
<1>2. TxTypeOK'
  BY DEF TxInvariant, TxTypeOK, txVars
<1>3. ASSUME NEW c \in Client
      PROVE  ClientOrderly(c)'
  BY Undisturbed DEF TxInvariant, Idles, txVars
<1> QED BY <1>1, <1>2, <1>3 DEF TxInvariant

-----------------------------------------------------------------------------
(* The invariant and the refinement.                                       *)

LEMMA TxInvariantInit ==
  TxInit => TxInvariant
<1> SUFFICES ASSUME TxInit PROVE TxInvariant
  OBVIOUS
<1>1. Facts
  BY InitFacts DEF TxInit
<1>2. (CHOOSE r \in Run : TRUE) \in Run
  BY TransactionsAssumption
<1>3. TxTypeOK
  BY <1>2 DEF TxInit, TxTypeOK, Statement
<1>4. \A c \in Client : ClientOrderly(c)
  BY DEF TxInit, ClientOrderly, CreatorOrderly, CancellerOrderly,
     SchedulerOrderly, RecovererOrderly, CommanderOrderly
<1> QED BY <1>1, <1>3, <1>4 DEF TxInvariant

\* Every statement keeps the invariant and is a step of RunControl, or one
\* that RunControl does not see.
LEMMA TxStep ==
  TxInvariant /\ [TxNext]_allVars => TxInvariant' /\ [AnyStep]_vars
<1> SUFFICES ASSUME TxInvariant, [TxNext]_allVars
             PROVE  TxInvariant' /\ [AnyStep]_vars
  OBVIOUS
<1>1. ASSUME NEW d \in Client, GoodStep(d)
      PROVE  TxInvariant' /\ [AnyStep]_vars
  BY <1>1, GoodStepKeeps DEF GoodStep
<1>2. ASSUME [AnyStep]_vars, UNCHANGED txVars, \A c \in Client : Respects(c)
      PROVE  TxInvariant' /\ [AnyStep]_vars
  BY <1>2, OutsideStep
<1>3. CASE UNCHANGED allVars
  <2>1. UNCHANGED vars /\ UNCHANGED txVars
    BY <1>3 DEF allVars
  <2> QED BY <1>2, <2>1, NothingDisturbs
<1>4. ASSUME NEW r \in Run, ResumeTransaction(r)
      PROVE  TxInvariant' /\ [AnyStep]_vars
  BY <1>2, <1>4, ResumeStep
<1>5. CASE Environment
  BY <1>2, <1>5, EnvironmentStep
<1>6. ASSUME NEW d \in Client, Rollback(d)
      PROVE  TxInvariant' /\ [AnyStep]_vars
  BY <1>1, <1>6, RollbackStep
<1>7. ASSUME NEW d \in Creator, CreateTransaction(d)
      PROVE  TxInvariant' /\ [AnyStep]_vars
  BY <1>1, <1>7, CreateStep DEF Client
<1>8. ASSUME NEW d \in Canceller, CancelTransaction(d)
      PROVE  TxInvariant' /\ [AnyStep]_vars
  BY <1>1, <1>8, CancelClientStep DEF Client
<1>9. ASSUME NEW d \in Scheduler, ScheduleTransaction(d)
      PROVE  TxInvariant' /\ [AnyStep]_vars
  BY <1>1, <1>9, ScheduleStep DEF Client
<1>10. ASSUME NEW d \in Recoverer, RecoveryTransaction(d)
      PROVE  TxInvariant' /\ [AnyStep]_vars
  BY <1>1, <1>10, RecoveryStep DEF Client
<1>11. ASSUME NEW d \in Commander, CommandTransaction(d)
      PROVE  TxInvariant' /\ [AnyStep]_vars
  BY <1>1, <1>11, CommandClientStep DEF Client
<1> QED
  BY <1>3, <1>4, <1>5, <1>6, <1>7, <1>8, <1>9, <1>10, <1>11 DEF TxNext

LEMMA TxInvariance == TxSpec => []TxInvariant
  BY TxInvariantInit, TxStep, PTL DEF TxSpec

-----------------------------------------------------------------------------
(* Waiting.                                                                *)

\* Who may hold what, and where in its transaction.
LEMMA Holders ==
  ASSUME TxInvariant, NEW d \in Client
  PROVE  /\ \A t : TenantRow(t) \in held[d] => pc[d] \in {"check session", "insert"}
         /\ \A a : AttemptRow(a) \in held[d] => pc[d] \in {"lock run", "recover"}
         /\ \A r : RunRow(r) \in held[d] =>
              \/ pc[d] \in {"check", "lock worker", "recount", "assign", "recover"}
              \/ pc[d] = "lock run" /\ d \in Recoverer
<1>1. TxTypeOK /\ ClientOrderly(d)
  BY DEF TxInvariant
<1>2. CASE d \in Creator
  BY <1>1, <1>2, RowsDiffer DEF ClientOrderly, CreatorOrderly
<1>3. CASE d \in Canceller
  BY <1>1, <1>3, RowsDiffer DEF ClientOrderly, CancellerOrderly
<1>4. CASE d \in Scheduler
  <2>1. SchedulerOrderly(d)
    BY <1>1, <1>4 DEF ClientOrderly
  <2>2. \A row \in held[d] :
          \/ row = CursorRow(TenantOfRun(run[d]))
          \/ row = WorkerRow(worker[d])
          \/ /\ row = RunRow(run[d])
             /\ pc[d] \in {"check", "lock worker", "recount", "assign"}
    <3>1. CASE pc[d] \in {"idle", "lock run"}
      BY <2>1, <3>1 DEF SchedulerOrderly
    <3>2. CASE pc[d] \in {"check", "lock worker"}
      BY <2>1, <3>2 DEF SchedulerOrderly
    <3>3. CASE pc[d] \in {"recount", "assign"}
      <4>1. held[d] = {CursorRow(TenantOfRun(run[d])), RunRow(run[d]), WorkerRow(worker[d])}
        BY <2>1, <3>3 DEF SchedulerOrderly
      <4> QED BY <3>3, <4>1
    <3> QED BY <2>1, <3>1, <3>2, <3>3 DEF SchedulerOrderly
  <2> QED BY <2>2, RowsDiffer
<1>5. CASE d \in Recoverer
  <2>1. RecovererOrderly(d)
    BY <1>1, <1>5 DEF ClientOrderly
  <2>2. held[d] # {} => pc[d] \in {"lock run", "recover"}
    BY <1>1, <2>1 DEF RecovererOrderly, TxTypeOK
  <2>3. \A t : TenantRow(t) \notin held[d]
    <3>1. \A row \in held[d] : (\E a : row = AttemptRow(a)) \/ (\E r : row = RunRow(r))
      BY <2>1 DEF RecovererOrderly
    <3> QED BY <3>1, RowsDiffer
  <2> QED BY <1>5, <2>2, <2>3
<1>6. CASE d \in Commander
  <2>1. CommanderOrderly(d)
    BY <1>1, <1>6 DEF ClientOrderly
  <2>2. held[d] # {} => pc[d] = "lock run"
    BY <1>1, <2>1 DEF CommanderOrderly, TxTypeOK
  <2>3. \A row \in held[d] : \E a : row = AttemptRow(a)
    BY <2>1 DEF CommanderOrderly
  <2> QED BY <2>2, <2>3, RowsDiffer
<1> QED BY <1>2, <1>3, <1>4, <1>5, <1>6 DEF Client

\* Two recoveries never want the same Run: each has locked an active Attempt
\* of it, and a Run has only one.
LEMMA RecoverersApart ==
  ASSUME TxInvariant, NEW c \in Recoverer, NEW d \in Recoverer, c # d,
         pc[c] = "lock run", pc[d] = "lock run", NEW a \in batch[c]
  PROVE  RunRow(RunOf(a)) \notin held[d]
<1> SUFFICES ASSUME RunRow(RunOf(a)) \in held[d]
             PROVE  FALSE
  OBVIOUS
<1>1. /\ c \in Client /\ d \in Client /\ TxTypeOK /\ Facts
      /\ RecovererOrderly(c) /\ RecovererOrderly(d)
      /\ batch[c] \subseteq Attempt /\ batch[d] \subseteq Attempt
  BY DEF TxInvariant, ClientOrderly, Client, TxTypeOK
<1>2. RunOf(a) \in Run
  BY <1>1, AttemptShape
<1>3. PICK b \in batch[d] : RunOf(b) = RunOf(a)
  BY <1>1, <1>2 DEF RecovererOrderly
<1>4. /\ attStatus[a] \in ActiveAttempt /\ attStatus[b] \in ActiveAttempt
      /\ AttemptRow(a) \in held[c] /\ AttemptRow(b) \in held[d]
  BY <1>1, <1>3 DEF RecovererOrderly
<1>5. a = Latest(RunOf(a)) /\ b = Latest(RunOf(b))
  BY <1>1, <1>3, <1>4, LiveIsLatest DEF Facts
<1> QED BY <1>1, <1>3, <1>4, <1>5, HeldAlone

\* Someone in every set of sessions waits for nobody of the set.
LEMMA NobodyWaitsInACircle ==
  TxInvariant => NoDeadlock
<1> SUFFICES ASSUME TxInvariant, NEW D \in SUBSET Client, D # {}
             PROVE  \E c \in D : \A d \in D \ {c} : WantedRows(c) \intersect held[d] = {}
  BY DEF NoDeadlock
<1> DEFINE Waits(c) == pc[c] \in {"lock tenant", "lock attempt", "lock run"}
<1>1. CASE \E c \in D : ~Waits(c)
  <2>1. PICK c \in D : ~Waits(c)
    BY <1>1
  <2>2. WantedRows(c) = {}
    BY <2>1 DEF WantedRows
  <2> QED BY <2>2
<1>2. CASE (\A c \in D : Waits(c)) /\ \E c \in D : pc[c] = "lock tenant"
  <2>1. PICK c \in D : pc[c] = "lock tenant"
    BY <1>2
  <2>2. WantedRows(c) = {TenantRow(TenantOfRun(run[c]))}
    BY <2>1 DEF WantedRows
  <2>3. ASSUME NEW d \in D \ {c}
        PROVE  TenantRow(TenantOfRun(run[c])) \notin held[d]
    BY <1>2, Holders
  <2> QED BY <2>2, <2>3
<1>3. CASE (\A c \in D : Waits(c)) /\ \E c \in D : c \in Recoverer
  <2>1. PICK c \in D : c \in Recoverer
    BY <1>3
  <2>2. pc[c] = "lock run"
    BY <1>3, <2>1 DEF TxInvariant, ClientOrderly, RecovererOrderly
  <2>3. WantedRows(c) \subseteq {RunRow(RunOf(a)) : a \in batch[c]}
    BY <2>1, <2>2 DEF WantedRows
  <2>4. ASSUME NEW d \in D \ {c}, NEW a \in batch[c]
        PROVE  RunRow(RunOf(a)) \notin held[d]
    <3>1. CASE d \in Recoverer /\ pc[d] = "lock run"
      BY <2>1, <2>2, <3>1, RecoverersApart
    <3>2. CASE ~(d \in Recoverer /\ pc[d] = "lock run")
      BY <1>3, <3>2, Holders
    <3> QED BY <3>1, <3>2
  <2> QED BY <2>3, <2>4
<1>4. CASE /\ \A c \in D : Waits(c) /\ c \notin Recoverer
           /\ \E c \in D : pc[c] = "lock run"
  <2>1. PICK c \in D : pc[c] = "lock run"
    BY <1>4
  <2>2. WantedRows(c) \subseteq {RunRow(run[c])}
    BY <1>4, <2>1 DEF WantedRows
  <2>3. ASSUME NEW d \in D \ {c}
        PROVE  RunRow(run[c]) \notin held[d]
    BY <1>4, Holders
  <2> QED BY <2>2, <2>3
<1>5. CASE \A c \in D : pc[c] = "lock attempt"
  <2>1. PICK c \in D : TRUE
    OBVIOUS
  <2>2. WantedRows(c) = {AttemptRow(a) : a \in batch[c]}
    BY <1>5 DEF WantedRows
  <2>3. ASSUME NEW d \in D \ {c}, NEW a \in batch[c]
        PROVE  AttemptRow(a) \notin held[d]
    BY <1>5, Holders
  <2> QED BY <2>2, <2>3
<1> QED BY <1>1, <1>2, <1>3, <1>4, <1>5

-----------------------------------------------------------------------------
(* The theorems.                                                           *)

\* Every row has one holder, who gives it back with its transaction, and no
\* circle of sessions waits for each other's rows, for any number of sessions.
THEOREM LocksAlwaysHold == TxSpec => []LocksHold
<1>1. TxInvariant => LocksHold
  BY NobodyWaitsInACircle DEF LocksHold, TxInvariant
<1> QED BY <1>1, TxInvariance, PTL

\* The interleaved statements do what whole transactions do, except that a Run
\* may be admitted although its tenant has meanwhile filled its queue.
THEOREM TransactionsAreAtomic == TxSpec => Init /\ [][AnyStep]_vars
<1>1. TxInit => Init
  BY DEF TxInit
<1> QED BY <1>1, TxInvariance, TxStep, PTL DEF TxSpec

\* A tenant may queue all the Runs it has: no requeued Run fills its queue
\* between the check of an admission and its insert.
RoomForRequeued ==
  \A t \in Tenant : Cardinality({r \in Run : TenantOfRun(r) = t}) <= MaxQueued[t]

LEMMA AdmittedIsCreated ==
  ASSUME RoomForRequeued, NEW r \in Run, Admit(r)
  PROVE  CreateRun(r)
<1> DEFINE t == TenantOfRun(r)
           all == {q \in Run : TenantOfRun(q) = t}
<1>1. t \in Tenant /\ MaxQueued[t] \in Nat
  BY EveryRow, ConstantsAssumption
<1>2. IsFiniteSet(all)
  BY ConstantsAssumption, FS_Subset
<1>3. QueuedRuns(t) \in SUBSET (all \ {r})
  BY DEF QueuedRuns, Admit
<1>4. /\ IsFiniteSet(all \ {r})
      /\ Cardinality(all \ {r}) = Cardinality(all) - 1
  BY <1>2, FS_RemoveElement
<1>5. Cardinality(QueuedRuns(t)) <= Cardinality(all) - 1
  BY <1>3, <1>4, FS_Subset
<1>6. Cardinality(QueuedRuns(t)) \in Nat /\ Cardinality(all) \in Nat
  BY <1>2, <1>3, <1>4, FS_Subset, FS_CardinalityType
<1>7. Cardinality(all) <= MaxQueued[t]
  BY <1>1 DEF RoomForRequeued
<1>8. Cardinality(QueuedRuns(t)) < MaxQueued[t]
  BY <1>1, <1>5, <1>6, <1>7
<1> QED BY <1>8 DEF Admit, CreateRun

\* With that room every interleaving of the transactions is an execution of
\* RunControl: no stale read of a quota, a capacity, a session, a key or an
\* Attempt is ever committed.
THEOREM TransactionsSerialize ==
  ASSUME RoomForRequeued
  PROVE  TxSpec => Serializable
<1>1. [AnyStep]_vars => [Next]_vars
  BY AdmittedIsCreated DEF AnyStep, Next, ApiStep
<1> QED BY <1>1, TransactionsAreAtomic, PTL DEF Serializable

\* Statement by statement, too, a session has one Run in flight.
THEOREM SessionsStaySequential == TxSpec => []OneActiveRunPerSession
<1>1. TxInvariant => OneActiveRunPerSession
  BY DEF TxInvariant, Facts
<1> QED BY <1>1, TxInvariance, PTL

\* Statement by statement, too, no Worker is given more than it can hold.
THEOREM WorkersStayWithinCapacity == TxSpec => []WorkerNotOversold
<1>1. TxInvariant => WorkerNotOversold
  BY DEF TxInvariant, Facts
<1> QED BY <1>1, TxInvariance, PTL

\* The tables agree and the running quota holds at every commit.
THEOREM CommitsKeepTheTables == TxSpec => [](TablesAgree /\ TenantWithinQuota)
<1>1. TxInvariant => TablesAgree /\ TenantWithinQuota
  BY DEF TxInvariant, Facts, TablesAgree
<1> QED BY <1>1, TxInvariance, PTL

\* No interleaving touches a terminal Run, undoes a cancellation or lets
\* anybody but the holder of the lease decide an outcome.
THEOREM CommitsKeepThePromises ==
  TxSpec => TerminalIsFinal /\ CancelIsFinal /\ OnlyLeaseHolderDecides
<1>1. TxInvariant => Facts
  BY DEF TxInvariant
<1>2. Facts /\ [AnyStep]_vars =>
        /\ [TerminalRunsUntouched]_vars
        /\ [CancelledRunsOnlyStop]_vars
        /\ [OutcomesNeedLease]_vars
  BY TerminalStep, CancelStep, LeaseStep DEF Facts
<1> QED
  BY <1>1, <1>2, TxInvariance, TxStep, PTL
  DEF TxSpec, TerminalIsFinal, CancelIsFinal, OnlyLeaseHolderDecides
=============================================================================
