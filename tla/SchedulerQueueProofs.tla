------------------------ MODULE SchedulerQueueProofs ------------------------
(***************************************************************************)
(* The turns of the tenants, for any number of Runs, tenants and           *)
(* Schedulers: how often a tenant that waits can be overtaken by another.  *)
(*                                                                         *)
(* Once u has overtaken t, t stands before u.  From then on a Scheduler    *)
(* that reads the cursors finds t first; only those that have read them    *)
(* before, or hold the cursor of u already, can still serve u, and each of *)
(* them once.                                                              *)
(***************************************************************************)
EXTENDS SchedulerQueue, FiniteSetTheorems, TLAPS

\* The Schedulers that may still serve u although t waits.
Overtakers(t, u) ==
  {s \in Scheduler :
     \/ pc[s] \in {"locked", "placing"} /\ locked[s] = u
     \/ /\ pc[s] = "seen" /\ u \in DOMAIN seen[s]
        /\ t \in DOMAIN seen[s] => seen[s][u] <= seen[s][t]}

\* No two tenants have the same place.
PlacesDiffer == \A t, u \in Tenant : turn[t] = turn[u] => t = u

\* A Run is placed under the cursor of its tenant.
CursorsFit ==
  \A s \in Scheduler : pc[s] = "placing" => inHand[s] \in Run /\ TenantOf[inHand[s]] = locked[s]

\* Whoever has been overtaken stands before those who did it, and every
\* further time takes one of the Schedulers that can still do it.
OvertakingIsSpent ==
  \A t, u \in Tenant : overtaken[t][u] > 0 =>
    /\ t # u
    /\ Waits(t)
    /\ turn[t] < turn[u]
    /\ overtaken[t][u] + Cardinality(Overtakers(t, u)) <= Cardinality(Scheduler)

QueueInvariant == TypeOK /\ PlacesDiffer /\ CursorsFit /\ OvertakingIsSpent

-----------------------------------------------------------------------------
(* Lemmas on the operators of the model.                                   *)

LEMMA TurnIsNat == Cardinality(Tenant) \in Nat /\ Turn \subseteq Nat \ {0}
BY FS_CardinalityType, QueueAssumption DEF Turn

\* A tenant that goes to the back leaves the others in their order.
LEMMA BackOfTheLine ==
  ASSUME NEW t \in Tenant, turn \in [Tenant -> Turn], PlacesDiffer
  PROVE  /\ ToTheBack(t) \in [Tenant -> Turn]
         /\ \A u, v \in Tenant : ToTheBack(t)[u] = ToTheBack(t)[v] => u = v
         /\ \A u, v \in Tenant :
              u # t /\ turn[u] < turn[v] => ToTheBack(t)[u] < ToTheBack(t)[v]
         /\ \A u \in Tenant : u # t => ToTheBack(t)[u] < ToTheBack(t)[t]
<1> DEFINE N == Cardinality(Tenant)
<1>1. N \in Nat /\ Turn = 1 .. N
  BY TurnIsNat DEF Turn
<1>2. \A u \in Tenant : turn[u] \in 1 .. N
  BY <1>1
<1>3. \A u \in Tenant : u # t => turn[u] # turn[t]
  BY DEF PlacesDiffer
<1>4. ToTheBack(t) = [u \in Tenant |-> IF u = t THEN N
                        ELSE IF turn[u] > turn[t] THEN turn[u] - 1 ELSE turn[u]]
  BY DEF ToTheBack
<1>5. ToTheBack(t)[t] = N
  BY <1>4
<1>6. \A u \in Tenant : u # t =>
        ToTheBack(t)[u] = IF turn[u] > turn[t] THEN turn[u] - 1 ELSE turn[u]
  BY <1>4
<1> HIDE DEF N
<1>7. \A u \in Tenant : u # t => ToTheBack(t)[u] \in 1 .. N /\ ToTheBack(t)[u] < N
  BY <1>1, <1>2, <1>3, <1>6
<1>8. ToTheBack(t) \in [Tenant -> Turn]
  <2>1. N \in 1 .. N
    BY <1>1, <1>2
  <2> QED BY <2>1, <1>1, <1>4, <1>5, <1>7
<1>9. ASSUME NEW u \in Tenant, NEW v \in Tenant, ToTheBack(t)[u] = ToTheBack(t)[v] PROVE u = v
  <2>1. CASE u = t \/ v = t
    BY <2>1, <1>9, <1>5, <1>7, <1>1
  <2>2. CASE u # t /\ v # t
    <3>1. turn[u] = turn[v]
      BY <2>2, <1>9, <1>6, <1>2, <1>3, <1>1
    <3> QED BY <3>1 DEF PlacesDiffer
  <2> QED BY <2>1, <2>2
<1>10. ASSUME NEW u \in Tenant, NEW v \in Tenant, u # t, turn[u] < turn[v]
       PROVE  ToTheBack(t)[u] < ToTheBack(t)[v]
  BY <1>10, <1>1, <1>2, <1>3, <1>5, <1>6, <1>7
<1> QED BY <1>5, <1>7, <1>8, <1>9, <1>10

LEMMA SnapshotIsTyped ==
  /\ \A f \in Snapshot : DOMAIN f \subseteq Tenant /\ f \in [DOMAIN f -> Turn]
  /\ NothingSeen \in Snapshot
  /\ \A S \in SUBSET Tenant, f \in [Tenant -> Turn] : [t \in S |-> f[t]] \in Snapshot
<1>1. \A f \in Snapshot : DOMAIN f \subseteq Tenant /\ f \in [DOMAIN f -> Turn]
  BY DEF Snapshot
<1>2. \A S \in SUBSET Tenant : \A f \in [S -> Turn] : f \in Snapshot
  BY DEF Snapshot
<1>3. NothingSeen \in [{} -> Turn]
  BY DEF NothingSeen
<1> QED BY <1>1, <1>2, <1>3

LEMMA OvertakersAreFinite ==
  \A t, u \in Tenant : IsFiniteSet(Overtakers(t, u)) /\ Cardinality(Overtakers(t, u)) \in Nat
<1> SUFFICES ASSUME NEW t \in Tenant, NEW u \in Tenant
             PROVE  IsFiniteSet(Overtakers(t, u)) /\ Cardinality(Overtakers(t, u)) \in Nat
  OBVIOUS
<1>1. Overtakers(t, u) \subseteq Scheduler
  BY DEF Overtakers
<1> QED BY <1>1, FS_Subset, FS_CardinalityType, QueueAssumption

\* The steps that overtake nobody keep what has been overtaken in its bounds,
\* if they give no further Scheduler the chance.
LEMMA NobodyIsOvertaken ==
  ASSUME TypeOK, OvertakingIsSpent, turn' = turn,
         \/ Stand
         \/ overtaken' = overtaken /\ \A t \in Tenant : Waits(t) => Waits(t)',
         \A t, u \in Tenant :
           Waits(t) /\ turn[t] < turn[u] /\ Waits(t)' => Overtakers(t, u)' \subseteq Overtakers(t, u)
  PROVE  OvertakingIsSpent'
<1> SUFFICES ASSUME NEW t \in Tenant, NEW u \in Tenant, overtaken'[t][u] > 0
             PROVE  /\ t # u
                    /\ Waits(t)'
                    /\ turn'[t] < turn'[u]
                    /\ overtaken'[t][u] + Cardinality(Overtakers(t, u)') <= Cardinality(Scheduler)
  BY DEF OvertakingIsSpent
<1>1. overtaken'[t][u] = overtaken[t][u] /\ (Waits(t) => Waits(t)')
  <2>1. CASE Stand
    <3>1. overtaken'[t] = IF Waits(t)' THEN overtaken[t] ELSE [v \in Tenant |-> 0]
      BY <2>1 DEF Stand
    <3>2. CASE Waits(t)'
      BY <3>1, <3>2
    <3>3. CASE ~Waits(t)'
      <4>1. overtaken'[t][u] = 0
        BY <3>1, <3>3
      <4> QED BY <4>1
    <3> QED BY <3>2, <3>3
  <2>2. CASE ~Stand
    BY <2>2
  <2> QED BY <2>1, <2>2
<1>2. /\ t # u /\ Waits(t) /\ turn[t] < turn[u]
      /\ overtaken[t][u] + Cardinality(Overtakers(t, u)) <= Cardinality(Scheduler)
  BY <1>1 DEF OvertakingIsSpent
<1>3. Overtakers(t, u)' \subseteq Overtakers(t, u)
  BY <1>1, <1>2
<1>4. Cardinality(Overtakers(t, u)') <= Cardinality(Overtakers(t, u)) /\ Cardinality(Overtakers(t, u)') \in Nat
  BY <1>3, OvertakersAreFinite, FS_Subset, FS_CardinalityType
<1>5. overtaken[t][u] \in Nat /\ Cardinality(Overtakers(t, u)) \in Nat /\ Cardinality(Scheduler) \in Nat
  BY OvertakersAreFinite, FS_CardinalityType, QueueAssumption DEF TypeOK
<1> QED BY <1>1, <1>2, <1>4, <1>5

-----------------------------------------------------------------------------
(* Every step preserves the invariant.                                     *)

LEMMA StandIsTyped ==
  ASSUME TypeOK, Stand
  PROVE  overtaken' \in [Tenant -> [Tenant -> Nat]]
BY DEF TypeOK, Stand

LEMMA InitHolds == Init => QueueInvariant
<1> SUFFICES ASSUME Init PROVE QueueInvariant
  OBVIOUS
<1> USE DEF Init
<1>1. TypeOK
  BY QueueAssumption, SnapshotIsTyped DEF TypeOK
<1>2. PlacesDiffer
  BY QueueAssumption DEF PlacesDiffer
<1>3. CursorsFit
  BY DEF CursorsFit
<1>4. OvertakingIsSpent
  BY DEF OvertakingIsSpent
<1> QED BY <1>1, <1>2, <1>3, <1>4 DEF QueueInvariant

\* What happens to a Run outside the Schedulers.
LEMMA RunStepKeeps ==
  ASSUME QueueInvariant, NEW r \in Run, RunStep(r)
  PROVE  QueueInvariant'
<1> USE DEF QueueInvariant
<1>1. /\ UNCHANGED <<turn, schedulerVars>>
      /\ Stand
  BY DEF RunStep, Create, Cancel, Load, Pause, Resume, End, Requeue
<1>2. TypeOK'
  <2>1. /\ status' \in [Run -> {"absent", "queued", "assigned", "running", "waiting"}]
        /\ reason' \in [Run -> {"none", "resume", "retry", "blocked"}]
        /\ age' \in [Run -> 0 .. MaxAge]
        /\ retried' \in [Run -> BOOLEAN]
        /\ owed' \in [Run -> BOOLEAN]
        /\ disturbances' \in 0 .. MaxDisturbances
    <3> USE QueueAssumption DEF TypeOK, EnterQueue, Vanish
    <3>1. CASE Create(r)
      BY <3>1 DEF Create
    <3>2. CASE Cancel(r)
      BY <3>2 DEF Cancel
    <3>3. CASE Load(r)
      BY <3>3 DEF Load
    <3>4. CASE Pause(r)
      BY <3>4 DEF Pause
    <3>5. CASE Resume(r)
      BY <3>5 DEF Resume
    <3>6. CASE End(r)
      BY <3>6 DEF End
    <3>7. CASE Requeue(r)
      BY <3>7 DEF Requeue
    <3> QED BY <3>1, <3>2, <3>3, <3>4, <3>5, <3>6, <3>7 DEF RunStep
  <2> QED BY <2>1, <1>1, StandIsTyped DEF TypeOK, schedulerVars
<1>3. PlacesDiffer' /\ CursorsFit'
  BY <1>1 DEF PlacesDiffer, CursorsFit, schedulerVars
<1>4. OvertakingIsSpent'
  BY <1>1, NobodyIsOvertaken DEF Overtakers, schedulerVars
<1> QED BY <1>2, <1>3, <1>4

LEMMA TickKeeps ==
  ASSUME QueueInvariant, Tick
  PROVE  QueueInvariant'
<1> USE DEF QueueInvariant
<1>1. /\ UNCHANGED <<status, reason, retried, owed, turn, pc, seen, locked, inHand, disturbances, overtaken>>
      /\ age' \in [Run -> 0 .. MaxAge]
  BY QueueAssumption DEF TypeOK, Tick, schedulerVars
<1>2. TypeOK'
  BY <1>1 DEF TypeOK
<1>3. PlacesDiffer' /\ CursorsFit'
  BY <1>1 DEF PlacesDiffer, CursorsFit
<1>4. OvertakingIsSpent'
  BY <1>1, NobodyIsOvertaken DEF Overtakers, Waits, Queued, Active, TenantHasRoom, LockedBySomeone
<1> QED BY <1>2, <1>3, <1>4

\* A Scheduler that reads the cursors finds those who have been overtaken
\* before those who overtook them.
LEMMA SeeKeeps ==
  ASSUME QueueInvariant, NEW s \in Scheduler, See(s)
  PROVE  QueueInvariant'
<1> USE DEF QueueInvariant
<1>1. /\ UNCHANGED <<status, reason, age, retried, owed, turn, locked, inHand, disturbances, overtaken>>
      /\ pc[s] = "idle"
      /\ pc' = [pc EXCEPT ![s] = "seen"]
      /\ seen' = [seen EXCEPT ![s] = [t \in {u \in Tenant : HasWork(u)} |-> turn[t]]]
  BY DEF See, runVars
<1>2. TypeOK'
  <2>1. [t \in {u \in Tenant : HasWork(u)} |-> turn[t]] \in Snapshot
    BY SnapshotIsTyped DEF TypeOK
  <2> QED BY <1>1, <2>1 DEF TypeOK
<1>3. PlacesDiffer' /\ CursorsFit'
  BY <1>1 DEF PlacesDiffer, CursorsFit, TypeOK
<1>4. ASSUME NEW t \in Tenant, NEW u \in Tenant, Waits(t), turn[t] < turn[u]
      PROVE  Overtakers(t, u)' \subseteq Overtakers(t, u)
  <2> SUFFICES ASSUME NEW x \in Overtakers(t, u)' PROVE x \in Overtakers(t, u)
    OBVIOUS
  <2>1. CASE x = s
    <3>1. pc'[s] = "seen" /\ seen'[s] = [v \in {w \in Tenant : HasWork(w)} |-> turn[v]]
      BY <1>1 DEF TypeOK
    <3>2. t \in DOMAIN seen'[s] /\ seen'[s][t] = turn[t]
      BY <3>1, <1>4 DEF Waits, HasWork
    <3>3. u \in DOMAIN seen'[s] /\ seen'[s][u] <= seen'[s][t]
      BY <2>1, <3>1, <3>2 DEF Overtakers
    <3>4. seen'[s][u] = turn[u] /\ turn[t] \in Nat /\ turn[u] \in Nat
      BY <3>1, <3>3, TurnIsNat DEF TypeOK
    <3> QED BY <3>2, <3>3, <3>4, <1>4
  <2>2. CASE x # s
    BY <2>2, <1>1 DEF Overtakers, TypeOK
  <2> QED BY <2>1, <2>2
<1>5. OvertakingIsSpent'
  <2>1. \A t \in Tenant : Waits(t) => Waits(t)'
    BY <1>1 DEF Waits, Queued, Active, TenantHasRoom, LockedBySomeone
  <2> QED BY <1>1, <1>4, <2>1, NobodyIsOvertaken
<1> QED BY <1>2, <1>3, <1>5

\* It locks the first that is free: nobody behind one that waits.
LEMMA LockCursorKeeps ==
  ASSUME QueueInvariant, NEW s \in Scheduler, LockCursor(s)
  PROVE  QueueInvariant'
<1> USE DEF QueueInvariant
<1>1. /\ UNCHANGED <<status, reason, age, retried, owed, turn, inHand, disturbances>>
      /\ Stand
      /\ pc[s] = "seen"
  BY DEF LockCursor, runVars
<1>2. \/ /\ pc' = [pc EXCEPT ![s] = "idle"]
         /\ seen' = [seen EXCEPT ![s] = NothingSeen]
         /\ locked' = locked
      \/ \E t \in Free(s) :
           /\ pc' = [pc EXCEPT ![s] = "locked"]
           /\ \A u \in Free(s) : seen[s][t] <= seen[s][u]
           /\ locked' = [locked EXCEPT ![s] = t]
           /\ seen' = seen
  BY DEF LockCursor
<1>3. TypeOK'
  <2>1. seen' \in [Scheduler -> Snapshot]
    BY <1>2, SnapshotIsTyped DEF TypeOK
  <2>2. Free(s) \subseteq Tenant
    BY SnapshotIsTyped DEF Free, TypeOK
  <2>3. /\ pc' \in [Scheduler -> {"idle", "seen", "locked", "placing", "stuck"}]
        /\ locked' \in [Scheduler -> Tenant \union {Nothing}]
    BY <1>2, <2>2, ZenonT(30) DEF TypeOK
  <2> QED BY <2>1, <2>3, <1>1, StandIsTyped DEF TypeOK
<1>4. PlacesDiffer' /\ CursorsFit'
  BY <1>1, <1>2 DEF PlacesDiffer, CursorsFit, TypeOK
<1>5. ASSUME NEW t \in Tenant, NEW u \in Tenant, Waits(t), turn[t] < turn[u]
      PROVE  Overtakers(t, u)' \subseteq Overtakers(t, u)
  <2> SUFFICES ASSUME NEW x \in Overtakers(t, u)' PROVE x \in Overtakers(t, u)
    OBVIOUS
  <2>1. CASE x = s
    <3>1. /\ pc'[s] = "locked" /\ locked'[s] = u /\ u \in Free(s)
          /\ \A v \in Free(s) : seen[s][u] <= seen[s][v]
      BY <1>1, <1>2, <2>1 DEF Overtakers, TypeOK
    <3>2. t \in DOMAIN seen[s] => t \in Free(s)
      BY <1>5 DEF Free, Waits
    <3> QED BY <1>1, <2>1, <3>1, <3>2 DEF Overtakers, Free
  <2>2. CASE x # s
    BY <2>2, <1>2 DEF Overtakers, TypeOK
  <2> QED BY <2>1, <2>2
<1>6. OvertakingIsSpent'
  BY <1>1, <1>5, NobodyIsOvertaken
<1> QED BY <1>3, <1>4, <1>6

LEMMA DecideKeeps ==
  ASSUME QueueInvariant, NEW s \in Scheduler, Decide(s)
  PROVE  QueueInvariant'
<1> USE DEF QueueInvariant
<1>1. /\ UNCHANGED <<status, reason, age, retried, owed, turn, disturbances>>
      /\ Stand
      /\ pc[s] = "locked"
      /\ seen' = [seen EXCEPT ![s] = NothingSeen]
  BY DEF Decide, runVars
<1>2. \/ GoIdle(s)
      \/ \E r \in NextRun(locked[s]) : Take(s, r) \/ GiveUpOn(s, r)
  BY DEF Decide
<1>3. \A t : NextRun(t) \subseteq {r \in Run : TenantOf[r] = t}
  BY DEF NextRun, Queued
<1>4. TypeOK'
  <2>1. seen' \in [Scheduler -> Snapshot]
    BY <1>1, SnapshotIsTyped DEF TypeOK
  <2>2. /\ pc' \in [Scheduler -> {"idle", "seen", "locked", "placing", "stuck"}]
        /\ locked' \in [Scheduler -> Tenant \union {Nothing}]
        /\ inHand' \in [Scheduler -> Run \union {Nothing}]
    <3>1. CASE GoIdle(s)
      BY <3>1 DEF TypeOK, GoIdle, Unlocked
    <3>2. ASSUME NEW r \in Run, Take(s, r) \/ GiveUpOn(s, r)
          PROVE  /\ pc' \in [Scheduler -> {"idle", "seen", "locked", "placing", "stuck"}]
                 /\ locked' \in [Scheduler -> Tenant \union {Nothing}]
                 /\ inHand' \in [Scheduler -> Run \union {Nothing}]
      <4>1. CASE Take(s, r)
        BY <4>1 DEF TypeOK, Take
      <4>2. CASE GiveUpOn(s, r)
        BY <4>2 DEF TypeOK, GiveUpOn, Unlocked
      <4> QED BY <3>2, <4>1, <4>2
    <3> QED BY <1>2, <1>3, <3>1, <3>2
  <2> QED BY <1>1, <2>1, <2>2, StandIsTyped DEF TypeOK
<1>5. PlacesDiffer' /\ CursorsFit'
  <2>1. CASE \E r \in NextRun(locked[s]) : Take(s, r)
    BY <2>1, <1>1, <1>3 DEF PlacesDiffer, CursorsFit, TypeOK, Take
  <2>2. CASE GoIdle(s) \/ \E r \in NextRun(locked[s]) : GiveUpOn(s, r)
    BY <2>2, <1>1 DEF PlacesDiffer, CursorsFit, TypeOK, GoIdle, GiveUpOn, Unlocked
  <2> QED BY <1>2, <2>1, <2>2
<1>6. ASSUME NEW t \in Tenant, NEW u \in Tenant
      PROVE  Overtakers(t, u)' \subseteq Overtakers(t, u)
  BY <1>1, <1>2 DEF Overtakers, TypeOK, GoIdle, Take, GiveUpOn, Unlocked
<1>7. OvertakingIsSpent'
  BY <1>1, <1>6, NobodyIsOvertaken
<1> QED BY <1>4, <1>5, <1>7

\* The slot goes to the tenant whose cursor is locked: this Scheduler has had
\* its chance, and the tenant goes to the back.
LEMMA PlaceKeeps ==
  ASSUME QueueInvariant, NEW s \in Scheduler, Place(s)
  PROVE  QueueInvariant'
<1> USE DEF QueueInvariant
<1> DEFINE r == inHand[s]
           w == TenantOf[inHand[s]]
<1>1. /\ pc[s] = "placing" /\ r \in Run /\ w \in Tenant /\ locked[s] = w
      /\ status' = [status EXCEPT ![r] = "assigned"]
      /\ age' = [age EXCEPT ![r] = 0]
      /\ reason' = [reason EXCEPT ![r] = "none"]
      /\ turn' = ToTheBack(w)
      /\ pc' = [pc EXCEPT ![s] = "idle"]
      /\ locked' = [locked EXCEPT ![s] = Nothing]
      /\ inHand' = [inHand EXCEPT ![s] = Nothing]
      /\ UNCHANGED <<retried, owed, seen, disturbances>>
      /\ overtaken' = [t \in Tenant |->
           IF t # w /\ Waits(t)' THEN [overtaken[t] EXCEPT ![w] = @ + 1] ELSE [v \in Tenant |-> 0]]
  BY QueueAssumption DEF Place, CursorsFit, Unlocked, StandWhileServing
<1> HIDE DEF r, w
<1>2. /\ turn' \in [Tenant -> Turn]
      /\ PlacesDiffer'
      /\ \A t, u \in Tenant : t # w /\ turn[t] < turn[u] => turn'[t] < turn'[u]
      /\ \A t \in Tenant : t # w => turn'[t] < turn'[w]
  BY <1>1, BackOfTheLine DEF PlacesDiffer, TypeOK
<1>3. TypeOK'
  <2>1. overtaken' \in [Tenant -> [Tenant -> Nat]]
    BY <1>1 DEF TypeOK
  <2> QED BY <1>1, <1>2, <2>1, QueueAssumption DEF TypeOK
<1>4. CursorsFit'
  BY <1>1 DEF CursorsFit, TypeOK
<1>5. OvertakingIsSpent'
  <2> SUFFICES ASSUME NEW t \in Tenant, NEW u \in Tenant, overtaken'[t][u] > 0
               PROVE  /\ t # u
                      /\ Waits(t)'
                      /\ turn'[t] < turn'[u]
                      /\ overtaken'[t][u] + Cardinality(Overtakers(t, u)') <= Cardinality(Scheduler)
    BY DEF OvertakingIsSpent
  <2>1. t # w /\ Waits(t)' /\ overtaken'[t] = [overtaken[t] EXCEPT ![w] = @ + 1]
    <3>1. CASE ~(t # w /\ Waits(t)')
      <4>1. overtaken'[t][u] = 0
        BY <3>1, <1>1
      <4> QED BY <4>1
    <3> QED BY <3>1, <1>1
  <2>2. Overtakers(t, u)' \subseteq Overtakers(t, u) \ {s}
    BY <1>1 DEF Overtakers, TypeOK
  <2>3. /\ IsFiniteSet(Overtakers(t, u)) /\ Cardinality(Overtakers(t, u)) \in Nat
        /\ Cardinality(Scheduler) \in Nat /\ overtaken[t][u] \in Nat
        /\ Overtakers(t, u) \subseteq Scheduler
    BY OvertakersAreFinite, FS_CardinalityType, QueueAssumption DEF TypeOK, Overtakers
  <2>4. CASE u # w
    <3>1. overtaken'[t][u] = overtaken[t][u]
      BY <2>1, <2>4 DEF TypeOK
    <3>2. /\ t # u /\ turn[t] < turn[u]
          /\ overtaken[t][u] + Cardinality(Overtakers(t, u)) <= Cardinality(Scheduler)
      BY <3>1 DEF OvertakingIsSpent
    <3>3. Cardinality(Overtakers(t, u)') \in Nat /\ Cardinality(Overtakers(t, u)') <= Cardinality(Overtakers(t, u))
      BY <2>2, <2>3, FS_Subset, FS_CardinalityType
    <3> QED BY <3>1, <3>2, <3>3, <2>1, <2>3, <1>2
  <2>5. CASE u = w
    <3>1. overtaken'[t][u] = overtaken[t][u] + 1
      BY <2>1, <2>5 DEF TypeOK
    <3>2. s \in Overtakers(t, u)
      BY <1>1, <2>5 DEF Overtakers
    <3>3. /\ Cardinality(Overtakers(t, u)') \in Nat
          /\ Cardinality(Overtakers(t, u)') <= Cardinality(Overtakers(t, u)) - 1
      <4>1. Cardinality(Overtakers(t, u) \ {s}) = Cardinality(Overtakers(t, u)) - 1
        BY <2>3, <3>2, FS_RemoveElement
      <4>2. IsFiniteSet(Overtakers(t, u) \ {s})
        BY <2>3, FS_Subset
      <4> QED BY <4>1, <4>2, <2>2, FS_Subset, FS_CardinalityType
    <3>4. Cardinality(Overtakers(t, u)) <= Cardinality(Scheduler)
      BY <2>3, FS_Subset, QueueAssumption
    <3>5. overtaken[t][u] > 0 => overtaken[t][u] + Cardinality(Overtakers(t, u)) <= Cardinality(Scheduler)
      BY DEF OvertakingIsSpent
    <3> QED BY <3>1, <3>3, <3>4, <3>5, <2>1, <2>3, <2>5, <1>2
  <2> QED BY <2>4, <2>5
<1> QED BY <1>2, <1>3, <1>4, <1>5

LEMMA PersistBlockKeeps ==
  ASSUME QueueInvariant, NEW s \in Scheduler, PersistBlock(s)
  PROVE  QueueInvariant'
<1> USE DEF QueueInvariant
<1>1. /\ UNCHANGED <<status, age, retried, owed, turn, seen, locked, disturbances, overtaken>>
      /\ pc[s] = "stuck"
      /\ pc' = [pc EXCEPT ![s] = "idle"]
      /\ inHand' = [inHand EXCEPT ![s] = Nothing]
      /\ reason' \in {reason, [reason EXCEPT ![inHand[s]] = "blocked"]}
  BY DEF PersistBlock
<1>2. TypeOK'
  BY <1>1 DEF TypeOK
<1>3. PlacesDiffer' /\ CursorsFit'
  BY <1>1 DEF PlacesDiffer, CursorsFit, TypeOK
<1>4. ASSUME NEW t \in Tenant, NEW u \in Tenant
      PROVE  Overtakers(t, u)' \subseteq Overtakers(t, u)
  BY <1>1 DEF Overtakers, TypeOK
<1>5. OvertakingIsSpent'
  <2>1. \A t \in Tenant : Waits(t) => Waits(t)'
    BY <1>1 DEF Waits, Queued, Active, TenantHasRoom, LockedBySomeone
  <2> QED BY <1>1, <1>4, <2>1, NobodyIsOvertaken
<1> QED BY <1>2, <1>3, <1>5

LEMMA AbortKeeps ==
  ASSUME QueueInvariant, NEW s \in Scheduler, Abort(s)
  PROVE  QueueInvariant'
<1> USE DEF QueueInvariant
<1>1. /\ UNCHANGED <<status, reason, age, retried, owed, turn>>
      /\ Stand
      /\ disturbances' \in 0 .. MaxDisturbances
      /\ pc' = [pc EXCEPT ![s] = "idle"]
      /\ seen' = [seen EXCEPT ![s] = NothingSeen]
      /\ locked' = [locked EXCEPT ![s] = Nothing]
      /\ inHand' = [inHand EXCEPT ![s] = Nothing]
  BY QueueAssumption DEF Abort, runVars, TypeOK
<1>2. TypeOK'
  <2>1. seen' \in [Scheduler -> Snapshot]
    BY <1>1, SnapshotIsTyped DEF TypeOK
  <2> QED BY <1>1, <2>1, StandIsTyped DEF TypeOK
<1>3. PlacesDiffer' /\ CursorsFit'
  BY <1>1 DEF PlacesDiffer, CursorsFit, TypeOK
<1>4. ASSUME NEW t \in Tenant, NEW u \in Tenant
      PROVE  Overtakers(t, u)' \subseteq Overtakers(t, u)
  BY <1>1 DEF Overtakers, TypeOK
<1>5. OvertakingIsSpent'
  BY <1>1, <1>4, NobodyIsOvertaken
<1> QED BY <1>2, <1>3, <1>5

LEMMA NextKeeps == QueueInvariant /\ [Next]_vars => QueueInvariant'
<1> SUFFICES ASSUME QueueInvariant, [Next]_vars PROVE QueueInvariant'
  OBVIOUS
<1>1. ASSUME NEW s \in Scheduler, SchedulerStep(s) \/ Abort(s) PROVE QueueInvariant'
  BY <1>1, SeeKeeps, LockCursorKeeps, DecideKeeps, PlaceKeeps, PersistBlockKeeps, AbortKeeps
     DEF SchedulerStep
<1>2. ASSUME NEW r \in Run, RunStep(r) PROVE QueueInvariant'
  BY <1>2, RunStepKeeps
<1>3. CASE Tick
  BY <1>3, TickKeeps
<1>4. CASE UNCHANGED vars
  <2> USE <1>4 DEF vars, runVars, schedulerVars, QueueInvariant
  <2>1. TypeOK' /\ PlacesDiffer' /\ CursorsFit'
    BY DEF TypeOK, PlacesDiffer, CursorsFit
  <2>2. /\ \A t \in Tenant : Waits(t) => Waits(t)'
        /\ \A t, u \in Tenant : Overtakers(t, u)' = Overtakers(t, u)
    BY DEF Overtakers, Waits, Queued, Active, TenantHasRoom, LockedBySomeone
  <2>3. OvertakingIsSpent'
    BY <2>2, NobodyIsOvertaken
  <2> QED BY <2>1, <2>3
<1> QED BY <1>1, <1>2, <1>3, <1>4 DEF Next

-----------------------------------------------------------------------------
\* The types and the bookkeeping behind the turns hold in every reachable
\* state.
THEOREM QueueInvariantHolds == Spec => []QueueInvariant
BY InitHolds, NextKeeps, PTL DEF Spec

\* However many Runs, tenants and Schedulers there are, and whenever a
\* Scheduler dies between reading the cursors and its commit, a tenant that
\* waits is overtaken by any other at most once per Scheduler.
THEOREM TurnsAreFair == Spec => []RoundRobin
<1>1. QueueInvariant => RoundRobin
  <2> SUFFICES ASSUME QueueInvariant, NEW t \in Tenant, NEW u \in Tenant
               PROVE  overtaken[t][u] <= Cardinality(Scheduler)
    BY DEF RoundRobin, QueueInvariant
  <2>1. /\ overtaken[t][u] \in Nat /\ Cardinality(Scheduler) \in Nat
        /\ Cardinality(Overtakers(t, u)) \in Nat
    BY OvertakersAreFinite, FS_CardinalityType, QueueAssumption DEF QueueInvariant, TypeOK
  <2> QED BY <2>1 DEF QueueInvariant, OvertakingIsSpent
<1> QED BY <1>1, QueueInvariantHolds, PTL

=============================================================================
