--------------------------- MODULE SchedulerQueue ---------------------------
(***************************************************************************)
(* In which order SchedulingService hands out the slots of the Workers:    *)
(* tenants take turns by run_tenant_scheduling.last_dispatched_at, the     *)
(* Runs of a tenant go by the time they were queued, with a head start for *)
(* resumed ones, and any number of Schedulers do so at the same time.  Its *)
(* other subject is the column runs.queue_reason, which says why a Run is  *)
(* queued, and which four parties write and two read.                      *)
(*                                                                         *)
(* RunControl has the tables in full; here a Run is only somewhere between *)
(* the queue and its end, and an absent Run stands for all Runs to come.   *)
(* A transaction of a Scheduler is cut where it depends on what others do: *)
(* the tenants it saw, the cursor it locked, the Run and Worker it locked. *)
(***************************************************************************)
EXTENDS Naturals, FiniteSets

CONSTANTS
  Run,         \* run ids, which are numbers: ids decide ties
  Tenant,
  TenantOf,    \* the tenant of a Run
  ByIdentity,  \* the places of the tenants in the order of their ids
  Scheduler,   \* Scheduler processes
  Nothing,     \* no tenant, no Run
  MaxRunning,  \* tenants.max_running_runs
  Slots,       \* what the capacities of the Workers add up to
  Boost,       \* resume_priority_boost_seconds, in ticks
  MaxAge,      \* bound: the clock stands still while a Run has waited so long
  MaxDisturbances  \* bound: Schedulers that die, Runs cancelled before they start

Turn == 1 .. Cardinality(Tenant)

ASSUME QueueAssumption ==
  /\ Run \subseteq Nat
  /\ IsFiniteSet(Tenant) /\ IsFiniteSet(Scheduler)
  /\ TenantOf \in [Run -> Tenant]
  /\ ByIdentity \in [Tenant -> Turn]
  /\ \A t, u \in Tenant : ByIdentity[t] = ByIdentity[u] => t = u
  /\ Nothing \notin Run \union Tenant
  /\ MaxRunning \in [Tenant -> Nat \ {0}]
  /\ {Slots, Boost} \subseteq Nat
  /\ MaxAge \in Nat /\ MaxAge > Boost
  /\ MaxDisturbances \in Nat

VARIABLES
  status,       \* runs.status, as far as the queue goes
  reason,       \* runs.queue_reason
  age,          \* ticks since runs.queued_at
  retried,      \* runs.retry_count = 1
  owed,         \* the latest pause was resolved after the latest Attempt
  turn,         \* the place of a tenant by last_dispatched_at, those never dispatched first
  pc,           \* where a Scheduler is
  seen,         \* the tenants it found to have work, with their places
  locked,       \* the tenant whose cursor it has locked
  inHand,       \* the Run it is placing, or could not place
  disturbances, \* so far
  overtaken     \* overtaken[t][u]: slots u got while t waited for its turn

runVars == <<status, reason, age, retried, owed>>
schedulerVars == <<pc, seen, locked, inHand>>
vars == <<runVars, turn, schedulerVars, disturbances, overtaken>>

\* The places of some of the tenants.
Snapshot == UNION {[S -> Turn] : S \in SUBSET Tenant}
NothingSeen == [t \in {} |-> 0]

TypeOK ==
  /\ status \in [Run -> {"absent", "queued", "assigned", "running", "waiting"}]
  /\ reason \in [Run -> {"none", "resume", "retry", "blocked"}]
  /\ age \in [Run -> 0 .. MaxAge]
  /\ retried \in [Run -> BOOLEAN]
  /\ owed \in [Run -> BOOLEAN]
  /\ turn \in [Tenant -> Turn]
  /\ pc \in [Scheduler -> {"idle", "seen", "locked", "placing", "stuck"}]
  /\ seen \in [Scheduler -> Snapshot]
  /\ locked \in [Scheduler -> Tenant \union {Nothing}]
  /\ inHand \in [Scheduler -> Run \union {Nothing}]
  /\ disturbances \in 0 .. MaxDisturbances
  /\ overtaken \in [Tenant -> [Tenant -> Nat]]

Init ==
  /\ status = [r \in Run |-> "absent"]
  /\ reason = [r \in Run |-> "none"]
  /\ age = [r \in Run |-> 0]
  /\ retried = [r \in Run |-> FALSE]
  /\ owed = [r \in Run |-> FALSE]
  /\ turn = ByIdentity
  /\ pc = [s \in Scheduler |-> "idle"]
  /\ seen = [s \in Scheduler |-> NothingSeen]
  /\ locked = [s \in Scheduler |-> Nothing]
  /\ inHand = [s \in Scheduler |-> Nothing]
  /\ disturbances = 0
  /\ overtaken = [t \in Tenant |-> [u \in Tenant |-> 0]]

-----------------------------------------------------------------------------
Queued(t) == {r \in Run : TenantOf[r] = t /\ status[r] = "queued"}
Active(t) == {r \in Run : TenantOf[r] = t /\ status[r] \in {"assigned", "running"}}

Placing == {s \in Scheduler : pc[s] = "placing"}

\* load_schedulable_workers finds a Worker with room, and _lock_eligible_worker
\* one that is not on its way to become full.
WorkerHasRoom ==
  Cardinality(UNION {Active(t) : t \in Tenant}) + Cardinality(Placing) < Slots

\* The row of the Run is locked by the Scheduler that places it.
RowLocked(r) == \E s \in Placing : inHand[s] = r

TenantHasRoom(t) == Cardinality(Active(t)) < MaxRunning[t]

LockedBySomeone(t) == \E s \in Scheduler : locked[s] = t

\* A tenant waits for its turn while it could be served and no Scheduler has
\* locked its cursor.  Every slot that another one gets overtakes it.
Waits(t) == Queued(t) # {} /\ TenantHasRoom(t) /\ ~LockedBySomeone(t)

Stand ==
  overtaken' = [t \in Tenant |-> IF Waits(t)' THEN overtaken[t] ELSE [u \in Tenant |-> 0]]

StandWhileServing(u) ==
  overtaken' = [t \in Tenant |-> IF t # u /\ Waits(t)' THEN [overtaken[t] EXCEPT ![u] = @ + 1]
                                 ELSE [v \in Tenant |-> 0]]

\* The Run enters the queue behind all others: queued_at is now.
EnterQueue(r, why) ==
  /\ status' = [status EXCEPT ![r] = "queued"]
  /\ reason' = [reason EXCEPT ![r] = why]
  /\ age' = [age EXCEPT ![r] = 0]

\* The Run ends: the next one under this name knows nothing of it.
Vanish(r) ==
  /\ status' = [status EXCEPT ![r] = "absent"]
  /\ reason' = [reason EXCEPT ![r] = "none"]
  /\ age' = [age EXCEPT ![r] = 0]
  /\ retried' = [retried EXCEPT ![r] = FALSE]
  /\ owed' = [owed EXCEPT ![r] = FALSE]

-----------------------------------------------------------------------------
(* The parties around the Schedulers.                                      *)

\* RunService.create_run.
Create(r) ==
  /\ status[r] = "absent"
  /\ EnterQueue(r, "none")
  /\ UNCHANGED <<retried, owed, turn, schedulerVars, disturbances>>
  /\ Stand

\* A Run that nobody executes is cancelled.
Cancel(r) ==
  /\ status[r] \in {"queued", "waiting"}
  /\ ~RowLocked(r)
  /\ disturbances < MaxDisturbances
  /\ disturbances' = disturbances + 1
  /\ Vanish(r)
  /\ UNCHANGED <<turn, schedulerVars>>
  /\ Stand

\* AttemptService.load_chat_execution goes on from the pause, not from the prompt.
LoadsContinuation(r) == reason[r] = "resume"

\* The Worker claims the Attempt and loads what to execute.
Load(r) ==
  /\ status[r] = "assigned"
  /\ status' = [status EXCEPT ![r] = "running"]
  /\ owed' = [owed EXCEPT ![r] = FALSE]
  /\ UNCHANGED <<reason, age, retried, turn, schedulerVars, disturbances>>
  /\ Stand

\* AttemptService.pause_chat.
Pause(r) ==
  /\ status[r] = "running"
  /\ status' = [status EXCEPT ![r] = "waiting"]
  /\ UNCHANGED <<reason, age, retried, owed, turn, schedulerVars, disturbances>>
  /\ Stand

\* RunService.resume_run.
Resume(r) ==
  /\ status[r] = "waiting"
  /\ EnterQueue(r, "resume")
  /\ owed' = [owed EXCEPT ![r] = TRUE]
  /\ UNCHANGED <<retried, turn, schedulerVars, disturbances>>
  /\ Stand

\* The execution ends for good: result, failure or cancellation.
End(r) ==
  /\ status[r] \in {"assigned", "running"}
  /\ Vanish(r)
  /\ UNCHANGED <<turn, schedulerVars, disturbances>>
  /\ Stand

\* SchedulingService._apply_recovery gives the Run its retry.
Requeue(r) ==
  /\ status[r] \in {"assigned", "running"}
  /\ ~retried[r]
  /\ retried' = [retried EXCEPT ![r] = TRUE]
  /\ owed' = [owed EXCEPT ![r] = FALSE]
  /\ EnterQueue(r, "retry")
  /\ UNCHANGED <<turn, schedulerVars, disturbances>>
  /\ Stand

Tick ==
  /\ \A r \in Run : age[r] < MaxAge
  /\ age' = [r \in Run |-> IF status[r] = "queued" THEN age[r] + 1 ELSE 0]
  /\ UNCHANGED <<status, reason, retried, owed, turn, schedulerVars, disturbances, overtaken>>

-----------------------------------------------------------------------------
(* A Scheduler.                                                            *)

HasWork(t) == Queued(t) # {}

\* _lock_next_tenant_cursor, first half: the snapshot of its statement.
See(s) ==
  /\ pc[s] = "idle"
  /\ \E t \in Tenant : HasWork(t)
  /\ seen' = [seen EXCEPT ![s] = [t \in {u \in Tenant : HasWork(u)} |-> turn[t]]]
  /\ pc' = [pc EXCEPT ![s] = "seen"]
  /\ UNCHANGED <<runVars, turn, locked, inHand, disturbances, overtaken>>

Free(s) == {t \in DOMAIN seen[s] : ~LockedBySomeone(t)}

\* Second half: SKIP LOCKED, in the order of the snapshot.
LockCursor(s) ==
  /\ pc[s] = "seen"
  /\ IF Free(s) = {}
     THEN /\ pc' = [pc EXCEPT ![s] = "idle"]
          /\ seen' = [seen EXCEPT ![s] = NothingSeen]
          /\ UNCHANGED locked
     ELSE /\ pc' = [pc EXCEPT ![s] = "locked"]
          /\ \E t \in Free(s) :
               /\ \A u \in Free(s) : seen[s][t] <= seen[s][u]
               /\ locked' = [locked EXCEPT ![s] = t]
          /\ UNCHANGED seen
  /\ UNCHANGED <<runVars, turn, inHand, disturbances>>
  /\ Stand

\* Mutant: a resumed Run goes before all others.
EffectiveAgeUnlimited(r) == IF reason[r] = "resume" THEN age[r] + 2 * MaxAge ELSE age[r]

\* effective_queued_at, seen from now.
EffectiveAge(r) == IF reason[r] = "resume" THEN age[r] + Boost ELSE age[r]

Before(r, q) ==
  \/ EffectiveAge(r) > EffectiveAge(q)
  \/ EffectiveAge(r) = EffectiveAge(q) /\ r <= q

\* _lock_next_run: its one member.
NextRun(t) == {r \in Queued(t) : \A q \in Queued(t) : Before(r, q)}

\* Mutant: the tenant keeps its place.
SameTurn(t) == turn

\* Those behind it move up.
ToTheBack(t) ==
  [u \in Tenant |-> IF u = t THEN Cardinality(Tenant)
                    ELSE IF turn[u] > turn[t] THEN turn[u] - 1 ELSE turn[u]]

Unlocked(s) == [locked EXCEPT ![s] = Nothing]

\* There is nothing to do.
GoIdle(s) ==
  /\ pc' = [pc EXCEPT ![s] = "idle"]
  /\ locked' = Unlocked(s)
  /\ UNCHANGED inHand

\* No slot, no quota: roll back, and remember the Run.
GiveUpOn(s, r) ==
  /\ pc' = [pc EXCEPT ![s] = "stuck"]
  /\ locked' = Unlocked(s)
  /\ inHand' = [inHand EXCEPT ![s] = r]

\* The Run and a Worker are locked.
Take(s, r) ==
  /\ pc' = [pc EXCEPT ![s] = "placing"]
  /\ inHand' = [inHand EXCEPT ![s] = r]
  /\ UNCHANGED locked

\* The middle of _schedule_in_transaction.  A Worker that another Scheduler
\* has locked is skipped, even if it has room for both.
Decide(s) ==
  /\ pc[s] = "locked"
  /\ LET t == locked[s]
     IN  IF Queued(t) = {} THEN GoIdle(s)
         ELSE \E r \in NextRun(t) :
                \/ WorkerHasRoom /\ TenantHasRoom(t) /\ Take(s, r)
                \/ ~(WorkerHasRoom /\ TenantHasRoom(t)) /\ GiveUpOn(s, r)
                \/ Placing # {} /\ GiveUpOn(s, r)
  /\ seen' = [seen EXCEPT ![s] = NothingSeen]
  /\ UNCHANGED <<runVars, turn, disturbances>>
  /\ Stand

\* The end of _schedule_in_transaction: the slot goes to the Run.
Place(s) ==
  /\ pc[s] = "placing"
  /\ LET r == inHand[s]
         t == TenantOf[r]
     IN  /\ status' = [status EXCEPT ![r] = "assigned"]
         /\ age' = [age EXCEPT ![r] = 0]
         /\ reason' = [reason EXCEPT ![r] = "none"]
         /\ turn' = ToTheBack(t)
  /\ pc' = [pc EXCEPT ![s] = "idle"]
  /\ locked' = Unlocked(s)
  /\ inHand' = [inHand EXCEPT ![s] = Nothing]
  /\ UNCHANGED <<retried, owed, seen, disturbances>>
  /\ StandWhileServing(TenantOf[inHand[s]])

\* _persist_queue_block, a transaction of its own.
PersistBlock(s) ==
  /\ pc[s] = "stuck"
  /\ ~RowLocked(inHand[s])
  /\ reason' = IF status[inHand[s]] = "queued" THEN [reason EXCEPT ![inHand[s]] = "blocked"]
               ELSE reason
  /\ inHand' = [inHand EXCEPT ![s] = Nothing]
  /\ pc' = [pc EXCEPT ![s] = "idle"]
  /\ UNCHANGED <<status, age, retried, owed, turn, seen, locked, disturbances, overtaken>>

\* The process dies or the database fails: nothing is kept, nothing is locked.
Abort(s) ==
  /\ pc[s] # "idle"
  /\ disturbances < MaxDisturbances
  /\ disturbances' = disturbances + 1
  /\ pc' = [pc EXCEPT ![s] = "idle"]
  /\ seen' = [seen EXCEPT ![s] = NothingSeen]
  /\ locked' = [locked EXCEPT ![s] = Nothing]
  /\ inHand' = [inHand EXCEPT ![s] = Nothing]
  /\ UNCHANGED <<runVars, turn>>
  /\ Stand

-----------------------------------------------------------------------------
SchedulerStep(s) == See(s) \/ LockCursor(s) \/ Decide(s) \/ Place(s) \/ PersistBlock(s)

RunStep(r) ==
  Create(r) \/ Cancel(r) \/ Load(r) \/ Pause(r) \/ Resume(r) \/ End(r) \/ Requeue(r)

Next ==
  \/ \E s \in Scheduler : SchedulerStep(s) \/ Abort(s)
  \/ \E r \in Run : RunStep(r)
  \/ Tick

Spec == Init /\ [][Next]_vars

\* Schedulers poll for ever; an execution, once assigned, does not last for ever.
Fairness ==
  /\ WF_vars(Tick)
  /\ \A s \in Scheduler : WF_vars(SchedulerStep(s))
  /\ \A r \in Run : WF_vars(Load(r) \/ End(r))

FairSpec == Spec /\ Fairness

-----------------------------------------------------------------------------
\* No tenant overtakes another, waiting one more often than there are
\* Schedulers: one reads the cursors while another moves them, and finds a
\* tenant's turn still to come that has just been.
RoundRobin ==
  /\ TypeOK
  /\ \A t, u \in Tenant : overtaken[t][u] <= Cardinality(Scheduler)

\* Whatever becomes of its Schedulers, no Run that stays in the queue starves,
\* neither by other tenants nor by resumed Runs of its own.
NobodyStarves == \A r \in Run : (status[r] = "queued") ~> (status[r] # "queued")

\* A Run that a user has resumed goes on from its pause.
ResumedRunsContinue ==
  [][\A r \in Run :
       status[r] = "assigned" /\ status'[r] = "running" /\ owed[r] => LoadsContinuation(r)]_vars

=============================================================================
