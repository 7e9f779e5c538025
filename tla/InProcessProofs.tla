--------------------------- MODULE InProcessProofs ---------------------------
(***************************************************************************)
(* Proofs about the components that live in one process each: the batch of *)
(* tool calls (ToolScheduler), the reliable search (ReliableSearch) and    *)
(* the turn of the chat loop (ChatTurn).                                   *)
(* They share no state; their proofs only share this module.               *)
(***************************************************************************)
EXTENDS ToolScheduler, ReliableSearch, ChatTurn, FiniteSetTheorems, SequenceTheorems,
        NaturalsInduction, WellFoundedInduction, TLAPS

-----------------------------------------------------------------------------
(* The batch of tool calls, for any batch, any groups and limits.          *)
(*                                                                         *)
(* What BatchIsSafe says of executed tasks is already so when they are     *)
(* launched (LaunchedAreReady); it lasts because only tasks without a      *)
(* result are given one, and a running task has none (RunningAreOpen).     *)

\* Whatever was launched had what it depends on.
LaunchedAreReady ==
  \A t \in Task : stage[t] # "new" =>
    /\ \A d \in needs[t] : result[d] = "succeeded"
    /\ \A d \in awaits[t] : result[d] # "none"

\* A coroutine that has not been collected has left no result.
RunningAreOpen == \A t \in Task : Running(t) => result[t] = "none"

\* An execution is counted when it starts, and again only for a tool that
\* may be repeated.
AttemptsAreCounted ==
  \A t \in Task :
    /\ current_attempt[t] > 0 => stage[t] \in {"executing", "done", "ended"}
    /\ t \notin Repeatable => current_attempt[t] <= 1

OneOfAGroup ==
  \A t, u \in Task : InGroup(t) /\ InGroup(u) /\ GroupOf[t] = GroupOf[u] =>
    t = u \/ GroupOf[t] = NoGroup

SlotsHold == Cardinality(Executing) <= MaxConcurrency

\* Before the graph is accepted nothing starts; after run() nothing runs.
PhaseMatchesStages ==
  /\ phase \in {"validate", "refused"} => \A t \in Task : stage[t] = "new"
  /\ Over => \A t \in Task : ~Running(t)
  /\ phase \in {"over", "cancelled"} => \A t \in Task : result[t] # "none"

BatchInvariant ==
  /\ BatchTypeOK
  /\ LaunchedAreReady
  /\ RunningAreOpen
  /\ AttemptsAreCounted
  /\ OneOfAGroup
  /\ SlotsHold
  /\ PhaseMatchesStages

-----------------------------------------------------------------------------
LEMMA NumbersOfTheBatch ==
  /\ MaxAttempts \in Nat \ {0}
  /\ MaxConcurrency \in Nat \ {0}
  BY SchedulerAssumption

\* A batch is a sequence, so it has finitely many tasks.
LEMMA BatchIsFinite == IsFiniteSet(Task)
<1> DEFINE positions == 1 .. Len(Order)
<1>1. Len(Order) \in Nat /\ Order \in [positions -> Task]
  BY SchedulerAssumption
<1>2. IsFiniteSet(positions)
  BY <1>1, FS_Interval
<1>3. Order \in Surjection(positions, Task)
  BY <1>1 DEF Task, Surjection
<1> HIDE DEF positions
<1> QED BY <1>2, <1>3, FS_Surjection

LEMMA ExecutingIsFinite ==
  IsFiniteSet(Executing) /\ Cardinality(Executing) \in Nat
<1>1. Executing \in SUBSET Task
  BY DEF Executing
<1>2. IsFiniteSet(Executing)
  BY <1>1, BatchIsFinite, FS_Subset
<1> QED BY <1>2, FS_CardinalityType

\* A step that begins no execution takes no slot.
LEMMA NoNewSlot ==
  ASSUME SlotsHold, Executing' \subseteq Executing
  PROVE  SlotsHold'
<1>1. Cardinality(Executing') <= Cardinality(Executing) /\ IsFiniteSet(Executing')
  BY ExecutingIsFinite, FS_Subset
<1>2. Cardinality(Executing') \in Nat
  BY <1>1, FS_CardinalityType
<1>3. Cardinality(Executing)' = Cardinality(Executing')
  OBVIOUS
<1> QED
  BY <1>1, <1>2, <1>3, ExecutingIsFinite, NumbersOfTheBatch DEF SlotsHold

\* What FailDependents does, whichever tasks are doomed: open tasks may fail,
\* nothing else changes.
LEMMA OnlyOpenTasksFail ==
  ASSUME BatchTypeOK
  PROVE  /\ FailDependents \in [Task -> {"none", "succeeded", "failed", "cancelled"}]
         /\ \A t \in Task : FailDependents[t] # result[t] =>
              Open(t) /\ FailDependents[t] = "failed"
  BY DEF FailDependents, Open, BatchTypeOK

\* Results stay: a step that only gives results to tasks that have none leaves
\* the dependencies of launched tasks as they were.
LEMMA DependenciesStay ==
  ASSUME BatchTypeOK, LaunchedAreReady,
         UNCHANGED <<needs, awaits>>,
         \A t \in Task : result[t] # "none" => result'[t] = result[t],
         NEW t \in Task, stage[t] # "new"
  PROVE  /\ \A d \in needs'[t] : result'[d] = "succeeded"
         /\ \A d \in awaits'[t] : result'[d] # "none"
<1>1. needs[t] \subseteq Task /\ awaits[t] \subseteq Task
  BY DEF BatchTypeOK
<1> QED BY <1>1 DEF LaunchedAreReady

-----------------------------------------------------------------------------
LEMMA ValidateKeeps ==
  ASSUME BatchInvariant, Validate
  PROVE  BatchInvariant'
<1> USE DEF Validate, BatchInvariant
<1>1. BatchTypeOK'
  BY DEF BatchTypeOK
<1>2. LaunchedAreReady' /\ RunningAreOpen' /\ AttemptsAreCounted' /\ OneOfAGroup'
  BY DEF LaunchedAreReady, RunningAreOpen, AttemptsAreCounted, OneOfAGroup,
         Running, InGroup
<1>3. SlotsHold'
  BY NoNewSlot DEF Executing
<1>4. PhaseMatchesStages'
  BY DEF PhaseMatchesStages, Over, Running
<1> QED BY <1>1, <1>2, <1>3, <1>4

LEMMA PlanKeeps ==
  ASSUME BatchInvariant, Plan
  PROVE  BatchInvariant'
<1> DEFINE ready == {t \in Task : Ready(t, FailDependents)}
           running == ready \union {t \in Task : Running(t)}
<1> USE DEF BatchInvariant
<1>1. /\ phase = "plan"
      /\ result' = FailDependents
      /\ stage' = [t \in Task |-> IF t \in ready THEN "launched" ELSE stage[t]]
      /\ UNCHANGED <<needs, awaits, current_attempt, outcome>>
  BY DEF Plan
<1>2. /\ phase' \in {"wait", "over", "plan", "stuck"}
      /\ phase' # "wait" => running = {}
      /\ phase' = "over" => \A t \in Task : result'[t] # "none"
  BY <1>1 DEF Plan
<1>3. \A t \in Task : result[t] # "none" => result'[t] = result[t]
  BY <1>1, OnlyOpenTasksFail DEF Open
<1>4. \A t \in ready : stage[t] = "new" /\ result'[t] = "none"
  BY <1>1 DEF Ready
<1> HIDE DEF ready, running
<1>5. \A t \in Task : stage'[t] = stage[t] \/ (t \in ready /\ stage'[t] = "launched")
  BY <1>1
<1>6. BatchTypeOK'
  BY <1>1, <1>2, OnlyOpenTasksFail DEF BatchTypeOK
<1>7. LaunchedAreReady'
  <2> SUFFICES ASSUME NEW t \in Task, stage'[t] # "new"
               PROVE  /\ \A d \in needs'[t] : result'[d] = "succeeded"
                      /\ \A d \in awaits'[t] : result'[d] # "none"
    BY DEF LaunchedAreReady
  <2>1. CASE t \in ready
    BY <1>1, <2>1 DEF ready, Ready
  <2>2. CASE t \notin ready
    <3>1. stage[t] # "new"
      BY <1>5, <2>2
    <3> QED BY <1>1, <1>3, <3>1, DependenciesStay
  <2> QED BY <2>1, <2>2
<1>8. RunningAreOpen'
  <2> SUFFICES ASSUME NEW t \in Task, Running(t)'
               PROVE  result'[t] = "none"
    BY DEF RunningAreOpen
  <2>1. CASE t \in ready
    BY <1>4, <2>1
  <2>2. CASE t \notin ready
    <3>1. Running(t)
      BY <1>5, <2>2 DEF Running
    <3>2. result[t] = "none" /\ ~Open(t)
      BY <3>1 DEF RunningAreOpen, Running, Open
    <3> QED BY <1>1, <3>2, OnlyOpenTasksFail
  <2> QED BY <2>1, <2>2
<1>9. AttemptsAreCounted'
  BY <1>1, <1>4, <1>5 DEF AttemptsAreCounted
<1>10. OneOfAGroup'
  <2>1. \A t \in Task : InGroup(t)' => InGroup(t)
    BY <1>5 DEF InGroup
  <2> QED BY <2>1 DEF OneOfAGroup
<1>11. SlotsHold'
  BY <1>5, NoNewSlot DEF Executing
<1>12. PhaseMatchesStages'
  <2>1. ASSUME phase' # "wait", NEW t \in Task
        PROVE  ~Running(t)'
    BY <1>2, <1>5, <2>1 DEF running, Running
  <2> QED BY <1>2, <2>1 DEF PhaseMatchesStages, Over
<1> QED BY <1>6, <1>7, <1>8, <1>9, <1>10, <1>11, <1>12

LEMMA CollectKeeps ==
  ASSUME BatchInvariant, Collect
  PROVE  BatchInvariant'
<1> DEFINE completed == {t \in Task : stage[t] = "done"}
<1> USE DEF BatchInvariant
<1>1. /\ phase = "wait"
      /\ result' = [t \in Task |-> IF t \in completed THEN outcome[t] ELSE result[t]]
      /\ stage' = [t \in Task |-> IF t \in completed THEN "ended" ELSE stage[t]]
      /\ phase' = IF \A t \in Task : result'[t] # "none" THEN "over" ELSE "plan"
      /\ UNCHANGED <<needs, awaits, current_attempt, outcome>>
  BY DEF Collect
<1>2. \A t \in completed : result[t] = "none" /\ stage[t] = "done"
  BY DEF RunningAreOpen, Running
<1> HIDE DEF completed
<1>3. \A t \in Task : /\ stage'[t] = IF t \in completed THEN "ended" ELSE stage[t]
                      /\ t \notin completed => result'[t] = result[t]
  BY <1>1
<1>4. BatchTypeOK'
  <2>1. result' \in [Task -> {"none", "succeeded", "failed", "cancelled"}]
    BY <1>1 DEF BatchTypeOK
  <2>2. stage' \in [Task -> {"new", "launched", "grouped", "executing", "done", "ended"}]
    BY <1>1 DEF BatchTypeOK
  <2> QED BY <1>1, <2>1, <2>2 DEF BatchTypeOK
<1>5. LaunchedAreReady'
  <2> SUFFICES ASSUME NEW t \in Task, stage'[t] # "new"
               PROVE  /\ \A d \in needs'[t] : result'[d] = "succeeded"
                      /\ \A d \in awaits'[t] : result'[d] # "none"
    BY DEF LaunchedAreReady
  <2>1. stage[t] # "new"
    BY <1>2, <1>3
  <2> QED BY <1>1, <1>2, <1>3, <2>1, DependenciesStay
<1>6. RunningAreOpen'
  BY <1>3 DEF RunningAreOpen, Running
<1>7. AttemptsAreCounted'
  BY <1>1, <1>3 DEF AttemptsAreCounted
<1>8. OneOfAGroup'
  <2>1. \A t \in Task : InGroup(t)' => InGroup(t)
    BY <1>3 DEF InGroup
  <2> QED BY <2>1 DEF OneOfAGroup
<1>9. SlotsHold'
  BY <1>3, NoNewSlot DEF Executing
<1>10. PhaseMatchesStages'
  <2>1. phase' = "over" => \A t \in Task : result'[t] # "none"
    BY <1>1
  <2> QED BY <1>1, <1>6, <2>1 DEF PhaseMatchesStages, Over, RunningAreOpen
<1> QED BY <1>4, <1>5, <1>6, <1>7, <1>8, <1>9, <1>10

LEMMA CancelKeeps ==
  ASSUME BatchInvariant, Cancel
  PROVE  BatchInvariant'
<1> USE DEF BatchInvariant
<1>1. /\ phase' = "cancelled"
      /\ stage' = [t \in Task |-> IF Running(t) THEN "ended" ELSE stage[t]]
      /\ result' = [t \in Task |-> IF result[t] = "none" THEN "cancelled" ELSE result[t]]
      /\ UNCHANGED <<needs, awaits, current_attempt, outcome>>
  BY DEF Cancel
<1>2. \A t \in Task :
        /\ stage'[t] = IF Running(t) THEN "ended" ELSE stage[t]
        /\ result'[t] # "none"
        /\ result[t] # "none" => result'[t] = result[t]
  BY <1>1
<1>3. BatchTypeOK'
  <2>1. result' \in [Task -> {"none", "succeeded", "failed", "cancelled"}]
    BY <1>1 DEF BatchTypeOK
  <2>2. stage' \in [Task -> {"new", "launched", "grouped", "executing", "done", "ended"}]
    BY <1>1 DEF BatchTypeOK
  <2> QED BY <1>1, <2>1, <2>2 DEF BatchTypeOK
<1>4. LaunchedAreReady'
  <2> SUFFICES ASSUME NEW t \in Task, stage'[t] # "new"
               PROVE  /\ \A d \in needs'[t] : result'[d] = "succeeded"
                      /\ \A d \in awaits'[t] : result'[d] # "none"
    BY DEF LaunchedAreReady
  <2>1. stage[t] # "new"
    BY <1>2 DEF Running
  <2> QED BY <1>1, <1>2, <2>1, DependenciesStay
<1>5. \A t \in Task : ~Running(t)'
  BY <1>2 DEF Running
<1>6. RunningAreOpen'
  BY <1>5 DEF RunningAreOpen
<1>7. AttemptsAreCounted'
  BY <1>1, <1>2 DEF AttemptsAreCounted
<1>8. OneOfAGroup'
  BY <1>5 DEF OneOfAGroup, InGroup, Running
<1>9. SlotsHold'
  BY <1>2, NoNewSlot DEF Executing
<1>10. PhaseMatchesStages'
  BY <1>1, <1>2, <1>5 DEF PhaseMatchesStages
<1> QED BY <1>3, <1>4, <1>6, <1>7, <1>8, <1>9, <1>10

-----------------------------------------------------------------------------
(* A step of one task changes its own stage, from a running one to another *)
(* running one, and no result.                                             *)

OwnStep(t, from, to) ==
  /\ stage[t] = from
  /\ stage' = [stage EXCEPT ![t] = to]
  /\ UNCHANGED <<needs, awaits, phase, result>>

LEMMA OwnStepKeeps ==
  ASSUME BatchInvariant, NEW t \in Task,
         NEW from \in {"launched", "grouped", "executing"},
         NEW to \in {"grouped", "executing", "done"},
         OwnStep(t, from, to)
  PROVE  LaunchedAreReady' /\ RunningAreOpen' /\ PhaseMatchesStages'
<1> USE DEF BatchInvariant, OwnStep, BatchTypeOK
<1>1. \A u \in Task : stage'[u] = IF u = t THEN to ELSE stage[u]
  OBVIOUS
<1>2. Running(t) /\ \A u \in Task : Running(u) <=> Running(u)'
  BY <1>1 DEF Running
<1>3. LaunchedAreReady'
  BY <1>1 DEF LaunchedAreReady
<1>4. RunningAreOpen'
  BY <1>2 DEF RunningAreOpen
<1>5. PhaseMatchesStages'
  <2>1. phase \notin {"validate", "refused"} /\ ~Over
    BY <1>2 DEF PhaseMatchesStages
  <2> QED BY <2>1 DEF PhaseMatchesStages, Over
<1> QED BY <1>3, <1>4, <1>5

LEMMA EnterGroupKeeps ==
  ASSUME BatchInvariant, NEW t \in Task, EnterGroup(t)
  PROVE  BatchInvariant'
<1> USE DEF BatchInvariant, EnterGroup
<1>1. LaunchedAreReady' /\ RunningAreOpen' /\ PhaseMatchesStages'
  BY OwnStepKeeps DEF OwnStep
<1>2. BatchTypeOK'
  BY DEF BatchTypeOK
<1>3. \A u \in Task : stage'[u] = IF u = t THEN "grouped" ELSE stage[u]
  BY DEF BatchTypeOK
<1>4. AttemptsAreCounted'
  <2>1. current_attempt[t] \in Nat /\ ~(current_attempt[t] > 0)
    BY DEF AttemptsAreCounted, BatchTypeOK
  <2> QED BY <1>3, <2>1 DEF AttemptsAreCounted
<1>5. OneOfAGroup'
  BY <1>3 DEF OneOfAGroup, InGroup
<1>6. SlotsHold'
  BY <1>3, NoNewSlot DEF Executing
<1> QED BY <1>1, <1>2, <1>4, <1>5, <1>6

LEMMA TakeSlotKeeps ==
  ASSUME BatchInvariant, NEW t \in Task, TakeSlot(t)
  PROVE  BatchInvariant'
<1> USE DEF BatchInvariant, TakeSlot
<1>1. LaunchedAreReady' /\ RunningAreOpen' /\ PhaseMatchesStages'
  BY OwnStepKeeps DEF OwnStep
<1>2. BatchTypeOK'
  BY NumbersOfTheBatch DEF BatchTypeOK
<1>3. \A u \in Task :
        /\ stage'[u] = IF u = t THEN "executing" ELSE stage[u]
        /\ current_attempt'[u] = IF u = t THEN 1 ELSE current_attempt[u]
  BY DEF BatchTypeOK
<1>4. AttemptsAreCounted'
  BY <1>3 DEF AttemptsAreCounted
<1>5. OneOfAGroup'
  <2>1. \A u \in Task : InGroup(u)' <=> InGroup(u)
    BY <1>3 DEF InGroup
  <2> QED BY <2>1 DEF OneOfAGroup
<1>6. SlotsHold'
  <2>1. Executing' = Executing \union {t}
    BY <1>3 DEF Executing
  <2>2. Cardinality(Executing') <= Cardinality(Executing) + 1
    <3>1. Cardinality(Executing \union {t}) =
            IF t \in Executing THEN Cardinality(Executing) ELSE Cardinality(Executing) + 1
      BY ExecutingIsFinite, FS_AddElement
    <3> QED BY <2>1, <3>1, ExecutingIsFinite
  <2>3. IsFiniteSet(Executing')
    BY <2>1, ExecutingIsFinite, FS_AddElement
  <2>4. Cardinality(Executing') \in Nat
    BY <2>3, FS_CardinalityType
  <2>5. Cardinality(Executing)' = Cardinality(Executing')
    OBVIOUS
  <2> QED
    BY <2>2, <2>4, <2>5, ExecutingIsFinite, NumbersOfTheBatch DEF SlotsHold
<1> QED BY <1>1, <1>2, <1>4, <1>5, <1>6

LEMMA ReturnKeeps ==
  ASSUME BatchInvariant, NEW t \in Task, NEW value \in {"succeeded", "failed"},
         stage[t] = "executing", Return(t, value)
  PROVE  BatchInvariant'
<1> USE DEF BatchInvariant, Return
<1>1. LaunchedAreReady' /\ RunningAreOpen' /\ PhaseMatchesStages'
  BY OwnStepKeeps DEF OwnStep
<1>2. BatchTypeOK'
  BY DEF BatchTypeOK
<1>3. \A u \in Task : stage'[u] = IF u = t THEN "done" ELSE stage[u]
  BY DEF BatchTypeOK
<1>4. AttemptsAreCounted'
  BY <1>3 DEF AttemptsAreCounted
<1>5. OneOfAGroup'
  <2>1. \A u \in Task : InGroup(u)' => InGroup(u)
    BY <1>3 DEF InGroup
  <2> QED BY <2>1 DEF OneOfAGroup
<1>6. SlotsHold'
  BY <1>3, NoNewSlot DEF Executing
<1> QED BY <1>1, <1>2, <1>4, <1>5, <1>6

LEMMA FinishAttemptKeeps ==
  ASSUME BatchInvariant, NEW t \in Task, FinishAttempt(t)
  PROVE  BatchInvariant'
<1> USE DEF BatchInvariant, FinishAttempt
<1>1. CASE \E value \in {"succeeded", "failed"} : Return(t, value)
  BY <1>1, ReturnKeeps
<1>2. ASSUME NEW retryable \in BOOLEAN, ShouldRetry(t, retryable),
             current_attempt' = [current_attempt EXCEPT ![t] = @ + 1],
             UNCHANGED <<needs, awaits, phase, stage, outcome, result>>
      PROVE  BatchInvariant'
  <2>1. t \in Repeatable /\ current_attempt[t] < MaxAttempts
    BY <1>2 DEF ShouldRetry
  <2>2. BatchTypeOK'
    BY <1>2, <2>1, NumbersOfTheBatch DEF BatchTypeOK
  <2>3. AttemptsAreCounted'
    BY <1>2, <2>1 DEF AttemptsAreCounted, BatchTypeOK
  <2>4. LaunchedAreReady' /\ RunningAreOpen' /\ OneOfAGroup' /\ PhaseMatchesStages'
    BY <1>2
    DEF LaunchedAreReady, RunningAreOpen, OneOfAGroup, PhaseMatchesStages,
        Running, InGroup, Over
  <2>5. SlotsHold'
    BY <1>2, NoNewSlot DEF Executing
  <2> QED BY <2>2, <2>3, <2>4, <2>5
<1> QED BY <1>1, <1>2

LEMMA NothingKeeps ==
  ASSUME BatchInvariant, UNCHANGED batchVars
  PROVE  BatchInvariant'
<1> USE DEF BatchInvariant, batchVars
<1>1. BatchTypeOK' /\ LaunchedAreReady' /\ RunningAreOpen' /\ AttemptsAreCounted'
  BY DEF BatchTypeOK, LaunchedAreReady, RunningAreOpen, AttemptsAreCounted, Running
<1>2. OneOfAGroup' /\ PhaseMatchesStages'
  BY DEF OneOfAGroup, PhaseMatchesStages, InGroup, Running, Over
<1>3. SlotsHold'
  BY NoNewSlot DEF Executing
<1> QED BY <1>1, <1>2, <1>3

-----------------------------------------------------------------------------
LEMMA BatchInvariantInit ==
  ASSUME BatchInit
  PROVE  BatchInvariant
<1> USE DEF BatchInit
<1>1. BatchTypeOK
  BY NumbersOfTheBatch DEF BatchTypeOK
<1>2. LaunchedAreReady /\ RunningAreOpen /\ AttemptsAreCounted /\ OneOfAGroup
      /\ PhaseMatchesStages
  BY DEF LaunchedAreReady, RunningAreOpen, AttemptsAreCounted, OneOfAGroup,
         PhaseMatchesStages, Running, InGroup, Over
<1>3. SlotsHold
  <2>1. Executing = {}
    BY DEF Executing
  <2> QED BY <2>1, FS_EmptySet, NumbersOfTheBatch DEF SlotsHold
<1> QED BY <1>1, <1>2, <1>3 DEF BatchInvariant

LEMMA BatchInvariantStep == BatchInvariant /\ [BatchNext]_batchVars => BatchInvariant'
  BY ValidateKeeps, PlanKeeps, CollectKeeps, CancelKeeps, EnterGroupKeeps,
     TakeSlotKeeps, FinishAttemptKeeps, NothingKeeps
  DEF BatchNext, RunStep, TaskStep

LEMMA BatchInvariantSuffices ==
  ASSUME BatchInvariant
  PROVE  BatchIsSafe
<1> USE DEF BatchInvariant
<1>1. ASSUME NEW t \in Task, current_attempt[t] > 0
      PROVE  /\ \A d \in needs[t] : result[d] = "succeeded"
             /\ \A d \in awaits[t] : result[d] # "none"
             /\ t \in Repeatable \/ current_attempt[t] = 1
  <2>1. stage[t] # "new" /\ (t \notin Repeatable => current_attempt[t] <= 1)
    BY <1>1 DEF AttemptsAreCounted
  <2>2. current_attempt[t] \in Nat
    BY DEF BatchTypeOK
  <2> QED BY <1>1, <2>1, <2>2 DEF LaunchedAreReady
<1> QED
  BY <1>1 DEF BatchIsSafe, OneOfAGroup, SlotsHold, PhaseMatchesStages

\* A batch executes only tasks whose dependencies allow it, one of a group at a
\* time within its slots, tools with side effects once, and leaves nothing
\* running: TaskScheduler.run, for any graph, groups and limits.
THEOREM BatchesAreSafe == BatchSpec => []BatchIsSafe
<1>1. BatchInit => BatchInvariant
  BY BatchInvariantInit
<1>2. BatchInvariant /\ [BatchNext]_batchVars => BatchInvariant'
  BY BatchInvariantStep
<1>3. BatchInvariant => BatchIsSafe
  BY BatchInvariantSuffices
<1> QED BY <1>1, <1>2, <1>3, PTL DEF BatchSpec

-----------------------------------------------------------------------------
(* The end of a batch.  That run() returns needs fairness, and is checked  *)
(* (BatchEnds); what it rests on is proved: no accepted batch is ever      *)
(* without a step to take, and every step it takes counts towards an end.  *)
(* The acyclic graph has an open task whose dependencies all have results, *)
(* and FailDependents, which is a pass over the batch in the order of the  *)
(* calls, fails it at once if one of them has failed.                      *)

\* Induction over the numbers, for a set.
LEMMA NatInductionOnSet ==
  ASSUME NEW P, 0 \in P, \A k \in Nat : k \in P => k + 1 \in P
  PROVE  Nat \subseteq P
<1> DEFINE B == {n \in Nat : n \notin P}
<1> SUFFICES ASSUME B # {} PROVE FALSE
  OBVIOUS
<1>1. PICK n \in B : \A m \in B : ~(<<m, n>> \in OpToRel(<, Nat))
  <2> HIDE DEF B
  <2>1. B \subseteq Nat /\ B # {}
    BY DEF B
  <2> QED BY <2>1, NatLessThanWellFounded, WFMin
<1>2. n \in Nat /\ n # 0
  OBVIOUS
<1>3. n - 1 \in Nat /\ n - 1 < n /\ (n - 1) + 1 = n
  BY <1>2
<1>4. n - 1 \in B
  BY <1>2, <1>3
<1> QED BY <1>1, <1>2, <1>3, <1>4 DEF OpToRel

\* The pass of FailDependents over the batch: what it says of a task is what it
\* has said of the ones before.
DoomedAt(f, i) ==
  \E d \in needs[Order[i]] :
    \/ result[d] \in {"failed", "cancelled"}
    \/ \E j \in 1 .. i - 1 : Order[j] = d /\ Open(d) /\ f[j]

LEMMA PassExists == \E f : f = [i \in 1 .. Len(Order) |-> DoomedAt(f, i)]
<1> DEFINE L == 1 .. Len(Order)
           Upto(n) == \E f \in [L -> BOOLEAN] : \A i \in L : i <= n => f[i] = DoomedAt(f, i)
           P == {n \in Nat : Upto(n)}
<1>1. Len(Order) \in Nat
  BY SchedulerAssumption
<1>2. 0 \in P
  <2>1. \A i \in L : ~(i <= 0)
    BY <1>1
  <2>2. [i \in L |-> FALSE] \in [L -> BOOLEAN]
    OBVIOUS
  <2> QED BY <2>1, <2>2
<1>3. ASSUME NEW k \in Nat, k \in P PROVE k + 1 \in P
  <2>1. PICK f \in [L -> BOOLEAN] : \A i \in L : i <= k => f[i] = DoomedAt(f, i)
    BY <1>3
  <2> DEFINE g == [i \in L |-> IF i = k + 1 THEN DoomedAt(f, i) ELSE f[i]]
  <2>2. g \in [L -> BOOLEAN]
    BY DEF DoomedAt
  <2>3. ASSUME NEW i \in L, i <= k + 1 PROVE g[i] = DoomedAt(g, i)
    <3>1. \A j \in 1 .. i - 1 : j \in L /\ j # k + 1 /\ g[j] = f[j]
      BY <1>1, <2>3
    <3>2. DoomedAt(g, i) = DoomedAt(f, i)
      <4> HIDE DEF g
      <4> QED BY <3>1 DEF DoomedAt
    <3>3. g[i] = DoomedAt(f, i)
      <4>1. CASE i = k + 1
        BY <4>1
      <4>2. CASE i # k + 1
        BY <4>2, <2>1, <2>3, <1>1
      <4> QED BY <4>1, <4>2
    <3> QED BY <3>2, <3>3
  <2> HIDE DEF g
  <2>4. Upto(k + 1)
    BY <2>2, <2>3
  <2> QED BY <2>4
<1>4. Len(Order) \in P
  <2> HIDE DEF P
  <2> QED BY <1>1, <1>2, <1>3, NatInductionOnSet
<1>5. PICK f \in [L -> BOOLEAN] : \A i \in L : i <= Len(Order) => f[i] = DoomedAt(f, i)
  BY <1>4
<1>6. \A i \in L : f[i] = DoomedAt(f, i)
  BY <1>1, <1>5
<1>7. f = [i \in L |-> DoomedAt(f, i)]
  BY <1>5, <1>6
<1> QED BY <1>7

\* An open task that needs one that failed fails in the next pass.
LEMMA FailureIsPassedOn ==
  ASSUME BatchTypeOK, NEW t \in Task, NEW d \in needs[t], result[d] \in {"failed", "cancelled"}
  PROVE  t \in Doomed
<1> DEFINE doomed == CHOOSE f : f = [i \in 1 .. Len(Order) |-> DoomedAt(f, i)]
<1>1. doomed = [i \in 1 .. Len(Order) |-> DoomedAt(doomed, i)]
  BY PassExists
<1>2. Doomed = {Order[i] : i \in {j \in 1 .. Len(Order) : doomed[j]}}
  BY DEF Doomed, DoomedAt
<1> HIDE DEF doomed
<1>3. PICK i \in 1 .. Len(Order) : Order[i] = t
  BY DEF Task
<1>4. DoomedAt(doomed, i)
  BY <1>3 DEF DoomedAt
<1>5. doomed[i]
  BY <1>1, <1>4
<1> QED BY <1>2, <1>3, <1>5

-----------------------------------------------------------------------------
\* The batch as it goes on: the graph is the accepted one, what has ended has
\* its result, and run() waits only while something runs.
BatchGoesOn ==
  /\ phase \notin {"validate", "refused"} => Acyclic
  /\ \A t \in Task : stage[t] = "ended" => result[t] # "none"
  /\ \A t \in Task : stage[t] = "done" => outcome[t] # "none"
  /\ phase = "wait" => \E t \in Task : Running(t)
  /\ phase # "stuck"

\* The scheduler never raises for want of progress.
LEMMA PlanMakesProgress ==
  ASSUME BatchInvariant, BatchGoesOn, Plan
  PROVE  phase' # "stuck"
<1> DEFINE ready == {t \in Task : Ready(t, FailDependents)}
           running == ready \union {t \in Task : Running(t)}
           finished == \A t \in Task : FailDependents[t] # "none"
           open == {t \in Task : result[t] = "none"}
<1> SUFFICES ASSUME phase' = "stuck" PROVE FALSE
  OBVIOUS
<1>1. running = {} /\ ~finished /\ FailDependents = result /\ phase = "plan"
  BY DEF Plan
<1>2. BatchTypeOK
  BY DEF BatchInvariant
<1>3. open \in SUBSET Task /\ open # {}
  BY <1>1
<1>4. Acyclic
  BY <1>1 DEF BatchGoesOn
<1> HIDE DEF open
<1>5. PICK t \in open : (needs[t] \union awaits[t]) \intersect open = {}
  BY <1>3, <1>4 DEF Acyclic
<1>6. t \in Task /\ result[t] = "none"
  BY <1>5 DEF open
<1>7. stage[t] = "new"
  BY <1>1, <1>2, <1>6 DEF BatchTypeOK, BatchGoesOn, Running
<1>8. needs[t] \subseteq Task /\ awaits[t] \subseteq Task
  BY <1>2, <1>6 DEF BatchTypeOK
<1>9. \A d \in needs[t] \union awaits[t] : result[d] # "none"
  BY <1>5, <1>8 DEF open
<1>10. CASE \A d \in needs[t] : result[d] = "succeeded"
  <2>1. Ready(t, FailDependents)
    BY <1>1, <1>6, <1>7, <1>9, <1>10 DEF Ready
  <2> QED BY <1>1, <1>6, <2>1
<1>11. CASE \E d \in needs[t] : result[d] # "succeeded"
  <2>1. PICK d \in needs[t] : result[d] # "succeeded"
    BY <1>11
  <2>2. result[d] \in {"failed", "cancelled"}
    BY <1>2, <1>8, <1>9, <2>1 DEF BatchTypeOK
  <2>3. t \in Doomed
    BY <1>2, <1>6, <2>2, FailureIsPassedOn
  <2>4. FailDependents[t] = "failed"
    BY <1>6, <1>7, <2>3 DEF FailDependents, Open
  <2> QED BY <1>1, <1>6, <2>4
<1> QED BY <1>10, <1>11

LEMMA BatchGoesOnInit == BatchInit => BatchGoesOn
  BY DEF BatchInit, BatchGoesOn

LEMMA BatchGoesOnStep ==
  ASSUME BatchInvariant, BatchGoesOn, [BatchNext]_batchVars
  PROVE  BatchGoesOn'
<1>1. BatchTypeOK /\ RunningAreOpen
  BY DEF BatchInvariant
<1>2. CASE Validate
  <2>1. needs' = needs /\ awaits' = awaits /\ result' = result /\ stage' = stage /\ outcome' = outcome
    BY <1>2 DEF Validate
  <2>2. phase' = "plan" => Acyclic'
    BY <1>2, <2>1 DEF Validate, Valid, Acyclic
  <2>3. phase' \in {"plan", "refused"}
    BY <1>2 DEF Validate
  <2> QED BY <2>1, <2>2, <2>3 DEF BatchGoesOn
<1>3. CASE Plan
  <2> DEFINE ready == {t \in Task : Ready(t, FailDependents)}
             running == ready \union {t \in Task : Running(t)}
  <2>1. /\ phase = "plan" /\ result' = FailDependents
        /\ stage' = [t \in Task |-> IF t \in ready THEN "launched" ELSE stage[t]]
        /\ UNCHANGED <<needs, awaits, outcome>>
        /\ phase' = "wait" => running # {}
        /\ phase' \notin {"validate", "refused"}
    BY <1>3 DEF Plan
  <2> HIDE DEF ready
  <2>2. \A t \in Task : stage'[t] = IF t \in ready THEN "launched" ELSE stage[t]
    BY <2>1
  <2>3. \A t \in Task : result[t] # "none" => result'[t] # "none"
    BY <1>1, <2>1, OnlyOpenTasksFail DEF Open
  <2>4. phase' = "wait" => \E t \in Task : Running(t)'
    <3>1. \A t \in running : t \in Task /\ Running(t)'
      BY <2>2 DEF Running, ready
    <3> QED BY <3>1, <2>1
  <2>5. Acyclic'
    BY <2>1 DEF BatchGoesOn, Acyclic
  <2>6. phase' # "stuck"
    BY <1>3, PlanMakesProgress
  <2>7. \A t \in Task : stage'[t] = "ended" => result'[t] # "none"
    BY <2>2, <2>3 DEF BatchGoesOn
  <2>8. \A t \in Task : stage'[t] = "done" => outcome'[t] # "none"
    BY <2>1, <2>2 DEF BatchGoesOn
  <2> QED BY <2>4, <2>5, <2>6, <2>7, <2>8 DEF BatchGoesOn
<1>4. CASE Collect
  <2> DEFINE completed == {t \in Task : stage[t] = "done"}
  <2>1. /\ phase = "wait" /\ phase' \in {"over", "plan"}
        /\ result' = [t \in Task |-> IF t \in completed THEN outcome[t] ELSE result[t]]
        /\ stage' = [t \in Task |-> IF t \in completed THEN "ended" ELSE stage[t]]
        /\ UNCHANGED <<needs, awaits, outcome>>
    BY <1>4 DEF Collect
  <2>2. \A t \in completed : outcome[t] # "none"
    BY DEF BatchGoesOn
  <2> HIDE DEF completed
  <2>3. Acyclic'
    BY <2>1 DEF BatchGoesOn, Acyclic
  <2>4. \A t \in Task : stage'[t] = "ended" => result'[t] # "none"
    BY <2>1, <2>2 DEF BatchGoesOn
  <2>5. \A t \in Task : stage'[t] = "done" => outcome'[t] # "none"
    BY <2>1 DEF BatchGoesOn
  <2> QED BY <2>1, <2>3, <2>4, <2>5 DEF BatchGoesOn
<1>5. CASE Cancel
  <2>1. /\ phase = "wait" /\ phase' = "cancelled"
        /\ stage' = [t \in Task |-> IF Running(t) THEN "ended" ELSE stage[t]]
        /\ result' = [t \in Task |-> IF result[t] = "none" THEN "cancelled" ELSE result[t]]
        /\ UNCHANGED <<needs, awaits, outcome>>
    BY <1>5 DEF Cancel
  <2>2. Acyclic'
    BY <2>1 DEF BatchGoesOn, Acyclic
  <2>3. \A t \in Task : stage'[t] = "done" => outcome'[t] # "none"
    BY <2>1 DEF Running
  <2> QED BY <2>1, <2>2, <2>3 DEF BatchGoesOn
<1>6. ASSUME NEW t \in Task, TaskStep(t)
      PROVE  BatchGoesOn'
  <2>1. /\ Running(t) /\ UNCHANGED <<needs, awaits, phase, result>>
        /\ \/ stage' = stage /\ outcome' = outcome
           \/ /\ stage' = [stage EXCEPT ![t] = "grouped"] \/ stage' = [stage EXCEPT ![t] = "executing"]
              /\ outcome' = outcome
           \/ /\ stage' = [stage EXCEPT ![t] = "done"]
              /\ \E v \in {"succeeded", "failed"} : outcome' = [outcome EXCEPT ![t] = v]
    BY <1>6 DEF TaskStep, EnterGroup, TakeSlot, FinishAttempt, Return, Running
  <2>2. \A u \in Task : u # t => stage'[u] = stage[u] /\ outcome'[u] = outcome[u]
    BY <2>1, <1>1 DEF BatchTypeOK
  <2>3. stage'[t] \in {"launched", "grouped", "executing", "done"}
    BY <2>1, <1>1 DEF BatchTypeOK, Running
  <2>4. stage'[t] = "done" => outcome'[t] # "none"
    BY <2>1, <1>1 DEF BatchTypeOK, BatchGoesOn
  <2>5. Running(t)'
    BY <2>3 DEF Running
  <2>6. Acyclic' = Acyclic
    BY <2>1 DEF Acyclic
  <2>7. \A u \in Task : stage'[u] = "ended" => result'[u] # "none"
    BY <2>1, <2>2, <2>3 DEF BatchGoesOn
  <2>8. \A u \in Task : stage'[u] = "done" => outcome'[u] # "none"
    BY <2>2, <2>4 DEF BatchGoesOn
  <2> QED BY <2>1, <2>5, <2>6, <2>7, <2>8 DEF BatchGoesOn
<1>7. CASE UNCHANGED batchVars
  BY <1>7 DEF batchVars, BatchGoesOn, Acyclic, Running
<1> QED BY <1>2, <1>3, <1>4, <1>5, <1>6, <1>7 DEF BatchNext, RunStep

\* While run() waits, a coroutine has ended, executes, or can go on: the lock
\* of its group is free, or a slot is.
CanGoOn(t) ==
  \/ stage[t] \in {"done", "executing"}
  \/ stage[t] = "grouped" /\ Cardinality(Executing) < MaxConcurrency
  \/ /\ stage[t] = "launched"
     /\ GroupOf[t] # NoGroup => \A u \in Task \ {t} : GroupOf[u] = GroupOf[t] => ~InGroup(u)

\* run() never finds open tasks and nothing to run, and does not wait in vain.
NothingHangs ==
  /\ phase # "stuck"
  /\ phase = "wait" => \E t \in Task : CanGoOn(t)

\* A batch whose graph was accepted never finds itself with open tasks and
\* nothing to do, and never waits for a lock or a slot that nobody gives back.
THEOREM BatchesNeverHang == BatchSpec => []NothingHangs
<1>1. BatchInit => BatchInvariant /\ BatchGoesOn
  BY BatchInvariantInit, BatchGoesOnInit
<1>2. BatchInvariant /\ BatchGoesOn /\ [BatchNext]_batchVars => BatchGoesOn'
  BY BatchGoesOnStep
<1>3. BatchInvariant /\ BatchGoesOn => NothingHangs
  <2> SUFFICES ASSUME BatchInvariant, BatchGoesOn, phase = "wait" PROVE \E t \in Task : CanGoOn(t)
    BY DEF NothingHangs, BatchGoesOn
  <2>1. PICK t \in Task : Running(t)
    BY DEF BatchGoesOn
  <2>2. CASE \E u \in Task : stage[u] \in {"done", "executing"}
    BY <2>2 DEF CanGoOn
  <2>3. CASE /\ \A u \in Task : stage[u] \notin {"done", "executing"}
             /\ \E u \in Task : stage[u] = "grouped"
    <3>1. Executing = {}
      BY <2>3 DEF Executing
    <3>2. Cardinality(Executing) < MaxConcurrency
      BY <3>1, FS_EmptySet, NumbersOfTheBatch
    <3> QED BY <2>3, <3>2 DEF CanGoOn
  <2>4. CASE \A u \in Task : stage[u] \notin {"done", "executing", "grouped"}
    <3>1. stage[t] = "launched" /\ \A u \in Task : ~InGroup(u)
      BY <2>1, <2>4 DEF Running, InGroup
    <3> QED BY <3>1 DEF CanGoOn
  <2> QED BY <2>2, <2>3, <2>4
<1>4. BatchInvariant /\ [BatchNext]_batchVars => BatchInvariant'
  BY BatchInvariantStep
<1> QED BY <1>1, <1>2, <1>3, <1>4, PTL DEF BatchSpec

-----------------------------------------------------------------------------
\* How far a task is: every stage and every attempt counts.
Rank(t) ==
  CASE stage[t] = "new" -> 0
    [] stage[t] = "launched" -> 1
    [] stage[t] = "grouped" -> 2
    [] stage[t] = "executing" -> 2 + current_attempt[t]
    [] stage[t] = "done" -> MaxAttempts + 3
    [] stage[t] = "ended" -> MaxAttempts + 4

Milestone == Task \X (0 .. MaxAttempts + 4)

Passed ==
  {p \in Milestone : IF p[2] = 0 THEN result[p[1]] # "none" ELSE p[2] <= Rank(p[1])}

PhaseRank ==
  CASE phase = "validate" -> 0 [] phase = "plan" -> 1 [] phase = "wait" -> 2 [] OTHER -> 3

\* How far the batch is.
Progress == 3 * Cardinality(Passed) + PhaseRank

\* Every task with its stages and attempts, and the phases in between.
StepLimit == 3 * (Cardinality(Task) * (MaxAttempts + 5)) + 3

\* No step of a batch is in vain, and there are only so many.
EveryStepCounts == [][Progress < Progress' /\ Progress' <= StepLimit]_batchVars

LEMMA MilestonesAreFinite ==
  /\ IsFiniteSet(Milestone) /\ Cardinality(Task) \in Nat
  /\ Cardinality(Milestone) = Cardinality(Task) * (MaxAttempts + 5)
<1> DEFINE marks == 0 .. MaxAttempts + 4
<1>1. MaxAttempts + 4 \in Nat
  BY NumbersOfTheBatch
<1>2. IsFiniteSet(marks) /\ Cardinality(marks) = MaxAttempts + 5
  <2>1. IsFiniteSet(marks) /\ Cardinality(marks) = (MaxAttempts + 4) - 0 + 1
    BY <1>1, FS_Interval
  <2> QED BY <2>1, NumbersOfTheBatch
<1>3. IsFiniteSet(Task) /\ Cardinality(Task) \in Nat
  BY BatchIsFinite, FS_CardinalityType
<1> HIDE DEF marks
<1>4. IsFiniteSet(Task \X marks) /\ Cardinality(Task \X marks) = Cardinality(Task) * Cardinality(marks)
  BY <1>2, <1>3, FS_Product
<1> QED BY <1>2, <1>3, <1>4 DEF Milestone, marks

LEMMA RankIsBounded ==
  ASSUME BatchTypeOK, NEW t \in Task
  PROVE  Rank(t) \in 0 .. MaxAttempts + 4
BY NumbersOfTheBatch DEF Rank, BatchTypeOK

LEMMA PassedIsFinite ==
  /\ IsFiniteSet(Passed) /\ Cardinality(Passed) \in Nat
  /\ Cardinality(Passed) <= Cardinality(Task) * (MaxAttempts + 5)
<1>1. Passed \in SUBSET Milestone
  BY DEF Passed
<1>2. IsFiniteSet(Passed) /\ Cardinality(Passed) <= Cardinality(Milestone)
  BY <1>1, MilestonesAreFinite, FS_Subset
<1> QED BY <1>2, MilestonesAreFinite, FS_CardinalityType

\* A step that goes back nowhere passes what it has passed.
LEMMA PassedStays ==
  ASSUME \A t \in Task : /\ Rank(t) \in Nat /\ Rank(t)' \in Nat /\ Rank(t) <= Rank(t)'
                         /\ result[t] # "none" => result'[t] # "none"
  PROVE  Passed \subseteq Passed'
<1> SUFFICES ASSUME NEW p \in Passed PROVE p \in Passed'
  OBVIOUS
<1>1. p \in Milestone /\ p[1] \in Task /\ p[2] \in Nat
  BY NumbersOfTheBatch DEF Passed, Milestone
<1>2. CASE p[2] = 0
  BY <1>1, <1>2 DEF Passed
<1>3. CASE p[2] # 0
  <2>1. p[2] <= Rank(p[1])
    BY <1>3 DEF Passed
  <2>2. p[2] <= Rank(p[1])'
    BY <1>1, <2>1
  <2> QED BY <1>1, <1>3, <2>2 DEF Passed
<1> QED BY <1>2, <1>3

LEMMA PassedGrows ==
  ASSUME Passed \subseteq Passed', NEW p, p \in Passed', p \notin Passed
  PROVE  Cardinality(Passed) + 1 <= Cardinality(Passed')
<1>1. IsFiniteSet(Passed) /\ IsFiniteSet(Passed')
  <2>1. Passed' \in SUBSET Milestone
    BY DEF Passed
  <2> QED BY <2>1, PassedIsFinite, MilestonesAreFinite, FS_Subset
<1>2. Cardinality(Passed \union {p}) = Cardinality(Passed) + 1
  BY <1>1, FS_AddElement
<1>3. Passed \union {p} \in SUBSET Passed'
  OBVIOUS
<1>4. Cardinality(Passed \union {p}) <= Cardinality(Passed')
  BY <1>1, <1>3, FS_Subset
<1> QED BY <1>2, <1>4

LEMMA PassedWithin ==
  ASSUME Passed \subseteq Passed'
  PROVE  /\ Cardinality(Passed') \in Nat /\ Cardinality(Passed) <= Cardinality(Passed')
         /\ Cardinality(Passed') <= Cardinality(Task) * (MaxAttempts + 5)
<1>1. Passed' \in SUBSET Milestone
  BY DEF Passed
<1>2. IsFiniteSet(Passed') /\ Cardinality(Passed') <= Cardinality(Milestone)
  BY <1>1, MilestonesAreFinite, FS_Subset
<1>3. Cardinality(Passed) <= Cardinality(Passed')
  BY <1>2, FS_Subset
<1> QED BY <1>2, <1>3, MilestonesAreFinite, FS_CardinalityType

LEMMA MoreOverall ==
  ASSUME NEW a \in Nat, NEW b \in Nat, NEW bound \in Nat, a <= b, b <= bound,
         NEW p \in 0 .. 3, NEW q \in 0 .. 3, p < q \/ (q + 3 > p /\ a + 1 <= b)
  PROVE  3 * a + p < 3 * b + q /\ 3 * b + q <= 3 * bound + 3
  OBVIOUS

\* What a step has to show.
LEMMA StepCounts ==
  ASSUME Passed \subseteq Passed',
         \/ PhaseRank < PhaseRank'
         \/ PhaseRank' + 3 > PhaseRank /\ \E p : p \in Passed' /\ p \notin Passed
  PROVE  Progress < Progress' /\ Progress' <= StepLimit
<1> DEFINE a == Cardinality(Passed)
           b == Cardinality(Passed')
           bound == Cardinality(Task) * (MaxAttempts + 5)
<1>1. a \in Nat /\ b \in Nat /\ a <= b /\ b <= bound
  BY PassedIsFinite, PassedWithin
<1>2. PhaseRank \in 0 .. 3 /\ PhaseRank' \in 0 .. 3
  BY DEF PhaseRank
<1>3. bound \in Nat
  BY MilestonesAreFinite, NumbersOfTheBatch
<1>4. (\E p : p \in Passed' /\ p \notin Passed) => a + 1 <= b
  BY PassedGrows
<1>5. Progress = 3 * a + PhaseRank /\ Progress' = 3 * b + PhaseRank' /\ StepLimit = 3 * bound + 3
  BY DEF Progress, StepLimit
<1>6. PhaseRank < PhaseRank' \/ (PhaseRank' + 3 > PhaseRank /\ a + 1 <= b)
  BY <1>4
<1> HIDE DEF a, b, bound
<1>7. /\ 3 * a + PhaseRank < 3 * b + PhaseRank'
      /\ 3 * b + PhaseRank' <= 3 * bound + 3
  BY <1>1, <1>2, <1>3, <1>6, MoreOverall
<1> QED BY <1>5, <1>7

LEMMA BatchStepCounts ==
  ASSUME BatchInvariant, BatchGoesOn, BatchNext
  PROVE  Progress < Progress' /\ Progress' <= StepLimit
<1>1. BatchTypeOK /\ BatchTypeOK'
  BY BatchInvariantStep DEF BatchInvariant
<1>2. \A t \in Task : Rank(t) \in Nat
  BY <1>1, RankIsBounded, NumbersOfTheBatch
<1>3. \A t \in Task : Rank(t)' \in 0 .. MaxAttempts + 4
  BY <1>1, NumbersOfTheBatch DEF Rank, BatchTypeOK
<1>4. ASSUME \A t \in Task : /\ Rank(t) <= Rank(t)'
                             /\ result[t] # "none" => result'[t] # "none"
      PROVE  Passed \subseteq Passed'
  BY <1>2, <1>3, <1>4, NumbersOfTheBatch, PassedStays
<1>5. ASSUME NEW t \in Task, Rank(t) < Rank(t)'
      PROVE  \E p : p \in Passed' /\ p \notin Passed
  <2> DEFINE p == <<t, Rank(t)'>>
  <2>1. p \in Milestone /\ p[1] = t /\ p[2] = Rank(t)' /\ p[2] # 0
    BY <1>2, <1>3, <1>5 DEF Milestone
  <2> HIDE DEF p
  <2>2. p \notin Passed
    BY <1>2, <1>3, <1>5, <2>1, NumbersOfTheBatch DEF Passed
  <2>3. p \in Passed'
    BY <1>3, <2>1, NumbersOfTheBatch DEF Passed
  <2> QED BY <2>2, <2>3
<1>6. ASSUME NEW t \in Task, result[t] = "none", result'[t] # "none"
      PROVE  \E p : p \in Passed' /\ p \notin Passed
  <2> DEFINE p == <<t, 0>>
  <2>1. p \in Milestone /\ p[1] = t /\ p[2] = 0
    BY NumbersOfTheBatch DEF Milestone
  <2> HIDE DEF p
  <2> QED BY <1>6, <2>1 DEF Passed
<1>7. ASSUME NEW t \in Task, stage'[t] = stage[t], current_attempt'[t] = current_attempt[t]
      PROVE  Rank(t)' = Rank(t)
  BY <1>7 DEF Rank
<1>8. CASE Validate
  <2>1. \A t \in Task : Rank(t)' = Rank(t) /\ result'[t] = result[t]
    BY <1>8, <1>7 DEF Validate
  <2>2. Passed \subseteq Passed'
    BY <2>1, <1>2, <1>4
  <2>3. PhaseRank < PhaseRank'
    BY <1>8 DEF Validate, PhaseRank
  <2> QED BY <2>2, <2>3, StepCounts
<1>9. CASE Plan
  <2> DEFINE ready == {t \in Task : Ready(t, FailDependents)}
  <2>1. /\ phase = "plan" /\ result' = FailDependents
        /\ stage' = [t \in Task |-> IF t \in ready THEN "launched" ELSE stage[t]]
        /\ current_attempt' = current_attempt
        /\ phase' \in {"wait", "over", "stuck"} \/ (phase' = "plan" /\ result' # result)
    BY <1>9 DEF Plan
  <2>2. \A t \in ready : stage[t] = "new"
    BY DEF Ready
  <2> HIDE DEF ready
  <2>3. \A t \in Task : Rank(t) <= Rank(t)'
    <3> SUFFICES ASSUME NEW t \in Task PROVE Rank(t) <= Rank(t)'
      OBVIOUS
    <3>1. CASE t \in ready
      <4>1. Rank(t) = 0
        BY <2>2, <3>1 DEF Rank
      <4> QED BY <4>1, <1>3
    <3>2. CASE t \notin ready
      BY <2>1, <3>2, <1>2, <1>7
    <3> QED BY <3>1, <3>2
  <2>4. \A t \in Task : result[t] # "none" => result'[t] = result[t]
    BY <1>1, <2>1, OnlyOpenTasksFail DEF Open
  <2>5. Passed \subseteq Passed'
    BY <2>3, <2>4, <1>4
  <2>6. CASE phase' \in {"wait", "over", "stuck"}
    <3>1. PhaseRank < PhaseRank'
      BY <2>1, <2>6 DEF PhaseRank
    <3> QED BY <2>5, <3>1, StepCounts
  <2>7. CASE phase' = "plan" /\ result' # result
    <3>1. PICK t \in Task : result'[t] # result[t]
      BY <1>1, <2>7 DEF BatchTypeOK
    <3>2. result[t] = "none" /\ result'[t] # "none"
      BY <2>4, <3>1
    <3>3. \E p : p \in Passed' /\ p \notin Passed
      BY <3>2, <1>6
    <3>4. PhaseRank' + 3 > PhaseRank
      BY <2>1, <2>7 DEF PhaseRank
    <3> QED BY <2>5, <3>3, <3>4, StepCounts
  <2> QED BY <2>1, <2>6, <2>7
<1>10. CASE Collect
  <2> DEFINE completed == {t \in Task : stage[t] = "done"}
  <2>1. /\ phase = "wait" /\ phase' \in {"over", "plan"} /\ completed # {}
        /\ result' = [t \in Task |-> IF t \in completed THEN outcome[t] ELSE result[t]]
        /\ stage' = [t \in Task |-> IF t \in completed THEN "ended" ELSE stage[t]]
        /\ current_attempt' = current_attempt
    BY <1>10 DEF Collect
  <2>2. \A t \in completed : outcome[t] # "none" /\ stage[t] = "done"
    BY DEF BatchGoesOn
  <2>3. completed \subseteq Task
    OBVIOUS
  <2> HIDE DEF completed
  <2>4. \A t \in completed : Rank(t) < Rank(t)'
    BY <2>1, <2>2, <2>3, NumbersOfTheBatch DEF Rank
  <2>5. \A t \in Task : Rank(t) <= Rank(t)' /\ (result[t] # "none" => result'[t] # "none")
    <3> SUFFICES ASSUME NEW t \in Task
                 PROVE  Rank(t) <= Rank(t)' /\ (result[t] # "none" => result'[t] # "none")
      OBVIOUS
    <3>1. CASE t \in completed
      BY <3>1, <2>1, <2>2, <2>4, <1>2, <1>3, NumbersOfTheBatch
    <3>2. CASE t \notin completed
      BY <3>2, <2>1, <1>2, <1>7
    <3> QED BY <3>1, <3>2
  <2>6. Passed \subseteq Passed'
    BY <2>5, <1>4
  <2>7. \E p : p \in Passed' /\ p \notin Passed
    BY <2>1, <2>3, <2>4, <1>5
  <2>8. PhaseRank' + 3 > PhaseRank
    BY <2>1 DEF PhaseRank
  <2> QED BY <2>6, <2>7, <2>8, StepCounts
<1>11. CASE Cancel
  <2>1. /\ phase = "wait" /\ phase' = "cancelled"
        /\ stage' = [t \in Task |-> IF Running(t) THEN "ended" ELSE stage[t]]
        /\ result' = [t \in Task |-> IF result[t] = "none" THEN "cancelled" ELSE result[t]]
        /\ current_attempt' = current_attempt
    BY <1>11 DEF Cancel
  <2>2. \A t \in Task : Rank(t) <= Rank(t)' /\ result'[t] # "none"
    <3> SUFFICES ASSUME NEW t \in Task PROVE Rank(t) <= Rank(t)' /\ result'[t] # "none"
      OBVIOUS
    <3>1. CASE Running(t)
      <4>1. Rank(t)' = MaxAttempts + 4
        BY <2>1, <3>1 DEF Rank
      <4>2. Rank(t) \in 0 .. MaxAttempts + 4
        BY <1>1, RankIsBounded
      <4> QED BY <2>1, <4>1, <4>2, NumbersOfTheBatch
    <3>2. CASE ~Running(t)
      BY <2>1, <3>2, <1>2, <1>7
    <3> QED BY <3>1, <3>2
  <2>3. Passed \subseteq Passed'
    BY <2>2, <1>4
  <2>4. PhaseRank < PhaseRank'
    BY <2>1 DEF PhaseRank
  <2> QED BY <2>3, <2>4, StepCounts
<1>12. ASSUME NEW t \in Task, TaskStep(t)
       PROVE  Progress < Progress' /\ Progress' <= StepLimit
  <2>1. UNCHANGED <<phase, result>> /\ \A u \in Task \ {t} : Rank(u)' = Rank(u)
    <3>1. \A u \in Task \ {t} : stage'[u] = stage[u] /\ current_attempt'[u] = current_attempt[u]
      BY <1>1, <1>12 DEF TaskStep, EnterGroup, TakeSlot, FinishAttempt, Return, BatchTypeOK
    <3> QED BY <3>1, <1>7, <1>12 DEF TaskStep, EnterGroup, TakeSlot, FinishAttempt, Return
  <2>2. Rank(t) < Rank(t)'
    <3>1. CASE EnterGroup(t)
      <4>1. stage[t] = "launched" /\ stage'[t] = "grouped"
        BY <1>1, <3>1 DEF EnterGroup, BatchTypeOK
      <4> QED BY <4>1 DEF Rank
    <3>2. CASE TakeSlot(t)
      <4>1. stage[t] = "grouped" /\ stage'[t] = "executing" /\ current_attempt'[t] = 1
        BY <1>1, <3>2 DEF TakeSlot, BatchTypeOK
      <4> QED BY <4>1 DEF Rank
    <3>3. CASE FinishAttempt(t)
      <4>1. stage[t] = "executing" /\ current_attempt[t] \in 0 .. MaxAttempts
        BY <1>1, <3>3 DEF FinishAttempt, BatchTypeOK
      <4>2. \/ stage'[t] = "done"
            \/ stage'[t] = "executing" /\ current_attempt'[t] = current_attempt[t] + 1
        BY <1>1, <3>3 DEF FinishAttempt, Return, BatchTypeOK
      <4> QED BY <4>1, <4>2, NumbersOfTheBatch DEF Rank
    <3> QED BY <3>1, <3>2, <3>3, <1>12 DEF TaskStep
  <2>3. Passed \subseteq Passed'
    <3>1. \A u \in Task : Rank(u) <= Rank(u)' /\ result'[u] = result[u]
      <4> SUFFICES ASSUME NEW u \in Task PROVE Rank(u) <= Rank(u)' /\ result'[u] = result[u]
        OBVIOUS
      <4>1. Rank(u) \in Nat /\ Rank(u)' \in Nat
        BY <1>2, <1>3, NumbersOfTheBatch
      <4> QED BY <2>1, <2>2, <4>1
    <3> QED BY <3>1, <1>4
  <2>4. \E p : p \in Passed' /\ p \notin Passed
    BY <2>2, <1>5
  <2>5. PhaseRank' + 3 > PhaseRank
    BY <2>1 DEF PhaseRank
  <2> QED BY <2>3, <2>4, <2>5, StepCounts
<1> QED BY <1>8, <1>9, <1>10, <1>11, <1>12 DEF BatchNext, RunStep

\* Every step brings the batch nearer to its end: run() and its coroutines take
\* at most StepLimit steps, however the tools answer, whatever is retried and
\* whenever the batch is cancelled.
THEOREM BatchesAreBounded == BatchSpec => EveryStepCounts
<1>1. BatchInit => BatchInvariant /\ BatchGoesOn
  BY BatchInvariantInit, BatchGoesOnInit
<1>2. BatchInvariant /\ BatchGoesOn /\ [BatchNext]_batchVars => BatchInvariant' /\ BatchGoesOn'
  BY BatchInvariantStep, BatchGoesOnStep
<1>3. BatchInvariant /\ BatchGoesOn /\ [BatchNext]_batchVars =>
        [Progress < Progress' /\ Progress' <= StepLimit]_batchVars
  BY BatchStepCounts
<1> QED BY <1>1, <1>2, <1>3, PTL DEF BatchSpec, EveryStepCounts

-----------------------------------------------------------------------------
(* The searches, for any finite set of callers and any limits.             *)
(*                                                                         *)
(* OvershootIsBounded is not inductive: it does not say how many searches  *)
(* can still be counted.  EveryoneCounted does: once the quota is used up  *)
(* no search starts, so the searches under way and the rows written        *)
(* together only shrink.                                                   *)

Busy == {c \in Caller : suspended[c] # "idle"}

\* With the quota used up, whatever is still under way may be counted.
EveryoneCounted ==
  used >= MonthlyLimit =>
    used + Cardinality(Busy) < MonthlyLimit + Cardinality(Caller)

SearchInvariant == SearchTypeOK /\ BreakerHolds /\ EveryoneCounted

-----------------------------------------------------------------------------
LEMMA BusyIsFinite ==
  /\ IsFiniteSet(Busy)
  /\ Cardinality(Busy) \in Nat
  /\ Cardinality(Busy) <= Cardinality(Caller)
  /\ Cardinality(Caller) \in Nat
  /\ Cardinality(Caller) > 0
<1>1. Busy \in SUBSET Caller
  BY DEF Busy
<1>2. IsFiniteSet(Caller) /\ Cardinality(Caller) \in Nat
  BY SearchAssumption, FS_CardinalityType
<1>3. IsFiniteSet(Busy) /\ Cardinality(Busy) <= Cardinality(Caller)
  BY <1>1, <1>2, FS_Subset
<1>4. Cardinality(Busy) \in Nat
  BY <1>3, FS_CardinalityType
<1>5. Cardinality(Caller) # 0
  BY <1>2, SearchAssumption, FS_EmptySet
<1> QED BY <1>2, <1>3, <1>4, <1>5

\* A caller that is under way is not counted among the others.
LEMMA OneLessBusy ==
  ASSUME NEW c \in Busy
  PROVE  /\ IsFiniteSet(Busy \ {c})
         /\ Cardinality(Busy \ {c}) = Cardinality(Busy) - 1
  BY BusyIsFinite, FS_RemoveElement

LEMMA LimitsAreNumbers ==
  /\ MonthlyLimit \in Nat
  /\ CostLimit \in Nat
  /\ FailureThreshold \in Nat \ {0}
  /\ Cooldown \in Nat \ {0}
  /\ MaxCalls \in Nat \ {0}
  /\ Window \in Nat \ {0}
  /\ MaxRetries \in Nat \ {0}
  BY SearchAssumption

\* Every step is one of these.
LEMMA SearchStepCases ==
  ASSUME [SearchNext]_searchVars,
         NEW P,
         SearchTick => P,
         \A c \in Caller : Search(c) => P,
         \A c \in Caller : BeginTrial(c) => P,
         \A c \in Caller : Acquire(c) => P,
         \A c \in Caller : Succeed(c) => P,
         \A c \in Caller : RetryLater(c) => P,
         \A c \in Caller : TryAgain(c) => P,
         \A c \in Caller : GiveUp(c) => P,
         \A c \in Caller : Abandon(c) => P,
         UNCHANGED searchVars => P
  PROVE  P
  BY DEF SearchNext, CallStep

-----------------------------------------------------------------------------
(* Types.                                                                  *)

LEMMA SearchTypeStep ==
  ASSUME SearchTypeOK, [SearchNext]_searchVars
  PROVE  SearchTypeOK'
<1> USE LimitsAreNumbers DEF SearchTypeOK, State, Suspended
<1>1. CASE SearchTick
  <2>1. taken' \in [0 .. Window -> Nat]
    <3>1. \A age \in 0 .. Window : age # 0 => age - 1 \in 0 .. Window
      OBVIOUS
    <3> QED BY <1>1, <3>1 DEF SearchTick
  <2> QED BY <1>1, <2>1 DEF SearchTick, callVars, meterVars
<1>2. ASSUME NEW c \in Caller, Search(c) PROVE SearchTypeOK'
  <2>1. Observed \in {"closed", "half_open"}
    BY <1>2 DEF Search, Observed
  <2> QED BY <1>2, <2>1 DEF Search, Suspend, meterVars
<1>3. ASSUME NEW c \in Caller, BeginTrial(c) PROVE SearchTypeOK'
  BY <1>3 DEF BeginTrial, Suspend, breakerVars, meterVars
<1>4. ASSUME NEW c \in Caller, Acquire(c) PROVE SearchTypeOK'
  BY <1>4 DEF Acquire, Suspend, breakerVars, meterVars
<1>5. ASSUME NEW c \in Caller, Succeed(c) PROVE SearchTypeOK'
  BY <1>5, SMTT(30) DEF Succeed, Reset, Suspend
<1>6. ASSUME NEW c \in Caller, RetryLater(c) PROVE SearchTypeOK'
  BY <1>6 DEF RetryLater, Suspend, breakerVars, meterVars
<1>7. ASSUME NEW c \in Caller, TryAgain(c) PROVE SearchTypeOK'
  BY <1>7 DEF TryAgain, Suspend, breakerVars, meterVars
<1>8. ASSUME NEW c \in Caller, GiveUp(c) PROVE SearchTypeOK'
  BY <1>8 DEF GiveUp, Trip, Suspend, meterVars
<1>9. ASSUME NEW c \in Caller, Abandon(c) PROVE SearchTypeOK'
  BY <1>9 DEF Abandon, Suspend, breakerVars, meterVars
<1>10. CASE UNCHANGED searchVars
  BY <1>10 DEF searchVars, callVars, breakerVars, meterVars
<1> QED
  BY <1>1, <1>2, <1>3, <1>4, <1>5, <1>6, <1>7, <1>8, <1>9, <1>10,
     SearchStepCases

-----------------------------------------------------------------------------
(* The breaker.                                                            *)

OneTrial == \A c, d \in Caller : InTrial(c) /\ InTrial(d) => c = d
ClosedBelowThreshold == breaker = "closed" => failures < FailureThreshold

\* A step that takes no caller into a trial leaves at most one in it.
LEMMA NoNewTrial ==
  ASSUME OneTrial, \A c \in Caller : InTrial(c)' => InTrial(c)
  PROVE  OneTrial'
  BY DEF OneTrial

\* A step that takes one caller into a trial finds the lock free.
LEMMA FirstTrial ==
  ASSUME NEW c \in Caller, LockFree,
         \A d \in Caller \ {c} : InTrial(d)' => InTrial(d)
  PROVE  OneTrial'
  BY DEF OneTrial, LockFree

LEMMA TrialStep ==
  ASSUME SearchTypeOK, OneTrial, [SearchNext]_searchVars
  PROVE  OneTrial'
<1> USE DEF SearchTypeOK
<1>1. CASE SearchTick
  BY <1>1, NoNewTrial DEF SearchTick, callVars, InTrial
<1>2. ASSUME NEW c \in Caller, Search(c) PROVE OneTrial'
  <2>1. \A d \in Caller \ {c} : InTrial(d)' => InTrial(d)
    BY <1>2 DEF Search, Suspend, InTrial
  <2>2. CASE LockAtHand
    BY <2>1, <2>2, FirstTrial DEF LockAtHand, LockFree
  <2>3. CASE ~LockAtHand
    <3>1. ~InTrial(c)'
      BY <1>2, <2>3 DEF Search, Suspend, InTrial
    <3> QED BY <2>1, <3>1, NoNewTrial
  <2> QED BY <2>2, <2>3
<1>3. ASSUME NEW c \in Caller, BeginTrial(c) PROVE OneTrial'
  <2>1. \A d \in Caller \ {c} : InTrial(d)' => InTrial(d)
    BY <1>3 DEF BeginTrial, Suspend, InTrial
  <2> QED BY <1>3, <2>1, FirstTrial DEF BeginTrial
<1>4. ASSUME NEW c \in Caller, Acquire(c) PROVE OneTrial'
  BY <1>4, NoNewTrial DEF Acquire, Suspend, InTrial
<1>5. ASSUME NEW c \in Caller, Succeed(c) PROVE OneTrial'
  BY <1>5, NoNewTrial DEF Succeed, Suspend, InTrial
<1>6. ASSUME NEW c \in Caller, RetryLater(c) PROVE OneTrial'
  BY <1>6, NoNewTrial DEF RetryLater, Suspend, InTrial
<1>7. ASSUME NEW c \in Caller, TryAgain(c) PROVE OneTrial'
  BY <1>7, NoNewTrial DEF TryAgain, Suspend, InTrial
<1>8. ASSUME NEW c \in Caller, GiveUp(c) PROVE OneTrial'
  BY <1>8, NoNewTrial DEF GiveUp, Suspend, InTrial
<1>9. ASSUME NEW c \in Caller, Abandon(c) PROVE OneTrial'
  BY <1>9, NoNewTrial DEF Abandon, Suspend, InTrial
<1>10. CASE UNCHANGED searchVars
  BY <1>10, NoNewTrial DEF searchVars, callVars, InTrial
<1> QED
  BY <1>1, <1>2, <1>3, <1>4, <1>5, <1>6, <1>7, <1>8, <1>9, <1>10,
     SearchStepCases

LEMMA ThresholdStep ==
  ASSUME SearchTypeOK, ClosedBelowThreshold, [SearchNext]_searchVars
  PROVE  ClosedBelowThreshold'
<1> USE LimitsAreNumbers DEF SearchTypeOK, State, ClosedBelowThreshold
<1>1. CASE SearchTick
  BY <1>1 DEF SearchTick
<1>2. ASSUME NEW c \in Caller, Search(c) PROVE ClosedBelowThreshold'
  BY <1>2 DEF Search, Observed
<1>3. ASSUME NEW c \in Caller, BeginTrial(c) PROVE ClosedBelowThreshold'
  BY <1>3 DEF BeginTrial, breakerVars
<1>4. ASSUME NEW c \in Caller, Acquire(c) PROVE ClosedBelowThreshold'
  BY <1>4 DEF Acquire, breakerVars
<1>5. ASSUME NEW c \in Caller, Succeed(c) PROVE ClosedBelowThreshold'
  BY <1>5 DEF Succeed, Reset
<1>6. ASSUME NEW c \in Caller, RetryLater(c) PROVE ClosedBelowThreshold'
  BY <1>6 DEF RetryLater, breakerVars
<1>7. ASSUME NEW c \in Caller, TryAgain(c) PROVE ClosedBelowThreshold'
  BY <1>7 DEF TryAgain, breakerVars
<1>8. ASSUME NEW c \in Caller, GiveUp(c) PROVE ClosedBelowThreshold'
  BY <1>8 DEF GiveUp, Trip
<1>9. ASSUME NEW c \in Caller, Abandon(c) PROVE ClosedBelowThreshold'
  BY <1>9 DEF Abandon, breakerVars
<1>10. CASE UNCHANGED searchVars
  BY <1>10 DEF searchVars, breakerVars
<1> QED
  BY <1>1, <1>2, <1>3, <1>4, <1>5, <1>6, <1>7, <1>8, <1>9, <1>10,
     SearchStepCases

-----------------------------------------------------------------------------
(* The quota.                                                              *)

\* A step that neither starts nor counts a search disturbs nothing.
LEMMA NobodyNewCounted ==
  ASSUME SearchTypeOK, EveryoneCounted, used' = used, Busy' \subseteq Busy
  PROVE  EveryoneCounted'
<1>1. IsFiniteSet(Busy) /\ Cardinality(Busy) \in Nat /\ Cardinality(Caller) \in Nat
  BY BusyIsFinite
<1>2. IsFiniteSet(Busy') /\ Cardinality(Busy') <= Cardinality(Busy)
  BY <1>1, FS_Subset
<1>3. Cardinality(Busy') \in Nat
  BY <1>2, FS_CardinalityType
<1>4. Cardinality(Busy)' = Cardinality(Busy')
  OBVIOUS
<1> QED
  BY <1>1, <1>2, <1>3, <1>4, LimitsAreNumbers DEF EveryoneCounted, SearchTypeOK

LEMMA QuotaStep ==
  ASSUME SearchTypeOK, EveryoneCounted, [SearchNext]_searchVars
  PROVE  EveryoneCounted'
<1> USE DEF SearchTypeOK
<1>1. CASE SearchTick
  BY <1>1, NobodyNewCounted DEF SearchTick, callVars, meterVars, Busy
<1>2. ASSUME NEW c \in Caller, Search(c) PROVE EveryoneCounted'
  BY <1>2, LimitsAreNumbers DEF Search, WouldExceed, EveryoneCounted, meterVars
<1>3. ASSUME NEW c \in Caller, BeginTrial(c) PROVE EveryoneCounted'
  BY <1>3, NobodyNewCounted DEF BeginTrial, Suspend, meterVars, Busy
<1>4. ASSUME NEW c \in Caller, Acquire(c) PROVE EveryoneCounted'
  BY <1>4, NobodyNewCounted DEF Acquire, Suspend, meterVars, Busy
<1>5. ASSUME NEW c \in Caller, Succeed(c) PROVE EveryoneCounted'
  <2>1. c \in Busy /\ Busy' = Busy \ {c}
    BY <1>5 DEF Succeed, Suspend, Busy
  <2>2. Cardinality(Busy') = Cardinality(Busy) - 1
    BY <2>1, OneLessBusy
  <2>3. used' = used + 1
    BY <1>5 DEF Succeed
  <2>4. Cardinality(Busy)' = Cardinality(Busy')
    OBVIOUS
  <2> QED
    BY <2>2, <2>3, <2>4, BusyIsFinite, LimitsAreNumbers DEF EveryoneCounted
<1>6. ASSUME NEW c \in Caller, RetryLater(c) PROVE EveryoneCounted'
  BY <1>6, NobodyNewCounted DEF RetryLater, Suspend, meterVars, Busy
<1>7. ASSUME NEW c \in Caller, TryAgain(c) PROVE EveryoneCounted'
  BY <1>7, NobodyNewCounted DEF TryAgain, Suspend, meterVars, Busy
<1>8. ASSUME NEW c \in Caller, GiveUp(c) PROVE EveryoneCounted'
  BY <1>8, NobodyNewCounted DEF GiveUp, Suspend, meterVars, Busy
<1>9. ASSUME NEW c \in Caller, Abandon(c) PROVE EveryoneCounted'
  BY <1>9, NobodyNewCounted DEF Abandon, Suspend, meterVars, Busy
<1>10. CASE UNCHANGED searchVars
  BY <1>10, NobodyNewCounted DEF searchVars, callVars, meterVars, Busy
<1> QED
  BY <1>1, <1>2, <1>3, <1>4, <1>5, <1>6, <1>7, <1>8, <1>9, <1>10,
     SearchStepCases

-----------------------------------------------------------------------------
LEMMA SearchInvariantInit ==
  ASSUME SearchInit
  PROVE  SearchInvariant
<1>1. SearchTypeOK
  BY LimitsAreNumbers DEF SearchInit, SearchTypeOK, State, Suspended
<1>2. BreakerHolds
  BY LimitsAreNumbers DEF SearchInit, BreakerHolds, InTrial
<1>3. EveryoneCounted
  <2>1. Busy = {}
    BY DEF SearchInit, Busy
  <2>2. Cardinality(Busy) = 0
    BY <2>1, FS_EmptySet
  <2> QED
    BY <2>2, BusyIsFinite, LimitsAreNumbers DEF SearchInit, EveryoneCounted
<1> QED BY <1>1, <1>2, <1>3 DEF SearchInvariant

LEMMA SearchInvariantStep ==
  ASSUME SearchInvariant, [SearchNext]_searchVars
  PROVE  SearchInvariant'
<1>1. SearchTypeOK /\ OneTrial /\ ClosedBelowThreshold /\ EveryoneCounted
  BY DEF SearchInvariant, BreakerHolds, OneTrial, ClosedBelowThreshold
<1>2. SearchTypeOK'
  BY <1>1, SearchTypeStep
<1>3. OneTrial' /\ ClosedBelowThreshold'
  BY <1>1, TrialStep, ThresholdStep
<1>4. EveryoneCounted'
  BY <1>1, QuotaStep
<1> QED
  BY <1>2, <1>3, <1>4
  DEF SearchInvariant, BreakerHolds, OneTrial, ClosedBelowThreshold

LEMMA SearchInvariantSuffices ==
  ASSUME SearchInvariant
  PROVE  SearchesStayInBounds
<1>1. OvershootIsBounded
  BY BusyIsFinite, LimitsAreNumbers
  DEF SearchInvariant, EveryoneCounted, OvershootIsBounded, SearchTypeOK
<1> QED BY <1>1 DEF SearchInvariant, SearchesStayInBounds

\* However many searches overlap, the quota is exceeded by fewer than there are
\* callers, a half-open breaker lets one of them through, and a breaker is
\* closed only below its threshold of failures: ReliableBochaService and
\* CircuitBreaker, for any limits.
THEOREM SearchesBounded == SearchSpec => []SearchesStayInBounds
<1>1. SearchInit => SearchInvariant
  BY SearchInvariantInit
<1>2. SearchInvariant /\ [SearchNext]_searchVars => SearchInvariant'
  BY SearchInvariantStep
<1>3. SearchInvariant => SearchesStayInBounds
  BY SearchInvariantSuffices
<1> QED BY <1>1, <1>2, <1>3, PTL DEF SearchSpec

-----------------------------------------------------------------------------
(* The turn, for any tools, batches and limits.                            *)
(*                                                                         *)
(* CallsAreAnswered speaks of the moments when the model is asked.  In     *)
(* between, the conversation is in form up to the messages owed to the     *)
(* calls under way (Conversation).  BurnedStaysBurned lasts because what   *)
(* has failed often enough is burned, by whatever step one counts          *)
(* (BurnedAreKnown), and no entry is of a step still to come.              *)

Utterance == [role : Role, step : Nat, n : 0 .. MaxBatch]
LogEntry == [step : 1 .. MaxSteps, call : 1 .. MaxBatch, signature : Signature, success : BOOLEAN]

\* Where the turn is, and what it may still spend.
TurnFits ==
  /\ turn = "model" => step < MaxSteps /\ spentCny < MaxBudget
  /\ turn # "ended" => step <= MaxSteps /\ spentCny < MaxBudget + MaxCost
  /\ turn \in {"tools", "approval"} => step > 0
  /\ turn \notin {"tools", "approval"} => pending = <<>>
  /\ turn = "approval" => ~Asks
  /\ spentCny < MaxBudget + 2 * MaxCost

\* The conversation is in form once the calls under way have their messages.
Conversation == Answered(messages \o ResultMessages)

ConsentedEntries ==
  \A i \in 1 .. Len(entries) :
    entries[i].signature \in Risky => <<entries[i].step, entries[i].call>> \in consented

\* What failed often enough is burned, by whatever step one counts.
BurnedAreKnown ==
  \A s \in Signature, u \in Nat : FailCount(s, u) >= BurnThreshold => s \in burned

EntriesFit ==
  /\ \A i \in 1 .. Len(entries) :
       /\ entries[i].step <= step
       /\ entries[i].signature = AskUser => entries[i].success
  /\ ConsentedEntries
  /\ BurnedStaysBurned
  /\ BurnedAreKnown

TurnInvariant == TurnTypeOK /\ TurnFits /\ Conversation /\ EntriesFit

-----------------------------------------------------------------------------
LEMMA BoundsOfTheTurn ==
  /\ {MaxBatch, MaxSteps, MaxBudget, BurnThreshold, MaxFailures, Margin, MaxCost} \subseteq Nat \ {0}
  /\ AskUser \in Signature
  /\ Risky \subseteq Signature \ {AskUser}
  BY TurnAssumption

LEMMA BatchShape ==
  ASSUME NEW calls \in Batch
  PROVE  /\ calls \in Seq(Signature)
         /\ Len(calls) \in 0 .. MaxBatch
         /\ DOMAIN calls = 1 .. Len(calls)
<1>1. PICK n \in 0 .. MaxBatch : calls \in [1 .. n -> Signature]
  BY DEF Batch
<1>2. n \in Nat /\ MaxBatch \in Nat
  BY BoundsOfTheTurn
<1>3. calls \in Seq(Signature)
  BY <1>1, <1>2
<1>4. Len(calls) = n
  BY <1>1, <1>2, <1>3
<1> QED BY <1>1, <1>3, <1>4

\* A message of the user leaves the conversation in form.
LEMMA UserMessageFits ==
  ASSUME NEW text \in Seq(Utterance), Answered(text), NEW st \in Nat
  PROVE  /\ Append(text, [role |-> "user", step |-> st, n |-> 0]) \in Seq(Utterance)
         /\ Answered(Append(text, [role |-> "user", step |-> st, n |-> 0]))
<1> DEFINE m == [role |-> "user", step |-> st, n |-> 0]
           all == Append(text, m)
<1>1. m \in Utterance
  BY BoundsOfTheTurn DEF Utterance, Role
<1>2. /\ all \in Seq(Utterance)
      /\ Len(all) = Len(text) + 1
      /\ \A i \in 1 .. Len(text) : all[i] = text[i]
      /\ all[Len(text) + 1] = m
      /\ Len(text) \in Nat
  BY <1>1
<1>3. ASSUME NEW i \in 1 .. Len(all), all[i].role = "assistant", NEW k \in 1 .. all[i].n
      PROVE  /\ i + k <= Len(all)
             /\ all[i + k] = [role |-> "tool", step |-> all[i].step, n |-> k]
  <2>1. i \in 1 .. Len(text) /\ all[i] = text[i] /\ text[i] \in Utterance
    BY <1>2, <1>3
  <2>2. text[i].n \in Nat
    BY <2>1, BoundsOfTheTurn DEF Utterance
  <2>3. i + k <= Len(text) /\ text[i + k] = [role |-> "tool", step |-> text[i].step, n |-> k]
    BY <1>3, <2>1 DEF Answered
  <2> QED BY <1>2, <2>1, <2>2, <2>3
<1>4. ASSUME NEW i \in 1 .. Len(all), all[i].role = "tool"
      PROVE  /\ all[i].n \in 1 .. i - 1
             /\ all[i - all[i].n].role = "assistant"
             /\ all[i - all[i].n].n >= all[i].n
  <2>1. i \in 1 .. Len(text) /\ all[i] = text[i]
    BY <1>2, <1>4
  <2>2. /\ text[i].n \in 1 .. i - 1
        /\ text[i - text[i].n].role = "assistant"
        /\ text[i - text[i].n].n >= text[i].n
    BY <1>4, <2>1 DEF Answered
  <2>3. i - text[i].n \in 1 .. Len(text)
    BY <2>1, <2>2, <1>2
  <2> QED BY <1>2, <2>1, <2>2, <2>3
<1> HIDE DEF all
<1>5. Answered(all)
  BY <1>3, <1>4 DEF Answered
<1> QED BY <1>2, <1>5 DEF all

\* An answer of the model with the messages of its calls behind it.
LEMMA AnswerFits ==
  ASSUME NEW text \in Seq(Utterance), Answered(text), NEW st \in Nat, NEW n \in 0 .. MaxBatch,
         NEW results \in Seq(Utterance), Len(results) = n,
         \A k \in 1 .. n : results[k] = [role |-> "tool", step |-> st, n |-> k]
  PROVE  Answered(Append(text, [role |-> "assistant", step |-> st, n |-> n]) \o results)
<1> DEFINE m == [role |-> "assistant", step |-> st, n |-> n]
           head == Append(text, m)
           all == head \o results
<1>1. MaxBatch \in Nat /\ n \in Nat /\ Len(text) \in Nat
  BY BoundsOfTheTurn
<1>2. m \in Utterance
  BY <1>1 DEF Utterance, Role
<1>4. /\ head \in Seq(Utterance)
      /\ Len(head) = Len(text) + 1
      /\ \A i \in 1 .. Len(text) : head[i] = text[i]
      /\ head[Len(text) + 1] = m
  BY <1>2
<1> HIDE DEF head, m
<1>5. /\ all \in Seq(Utterance)
      /\ Len(all) = Len(text) + 1 + n
      /\ \A i \in 1 .. Len(all) :
           all[i] = IF i <= Len(head) THEN head[i] ELSE results[i - Len(head)]
  <2>1. /\ all \in Seq(Utterance)
        /\ Len(all) = Len(head) + Len(results)
        /\ \A i \in 1 .. Len(head) + Len(results) :
             all[i] = IF i <= Len(head) THEN head[i] ELSE results[i - Len(head)]
    BY <1>4, ConcatProperties
  <2> HIDE DEF all
  <2> QED BY <1>4, <2>1
<1>6. /\ \A i \in 1 .. Len(text) : all[i] = text[i]
      /\ all[Len(text) + 1] = m
      /\ \A k \in 1 .. n : all[Len(text) + 1 + k] = [role |-> "tool", step |-> st, n |-> k]
  <2> HIDE DEF all
  <2>1. \A i \in 1 .. Len(text) : all[i] = text[i]
    BY <1>1, <1>4, <1>5
  <2>2. all[Len(text) + 1] = m
    BY <1>1, <1>4, <1>5
  <2>3. ASSUME NEW k \in 1 .. n
        PROVE  all[Len(text) + 1 + k] = results[k]
    <3>1. Len(text) + 1 + k \in 1 .. Len(all) /\ (Len(text) + 1 + k) - Len(head) = k
      BY <1>1, <1>4, <1>5
    <3>2. ~(Len(text) + 1 + k <= Len(head))
      BY <1>1, <1>4
    <3> QED BY <1>5, <3>1, <3>2
  <2> QED BY <2>1, <2>2, <2>3
<1> HIDE DEF all
<1>7. ASSUME NEW i \in 1 .. Len(all), all[i].role = "assistant", NEW k \in 1 .. all[i].n
      PROVE  /\ i + k <= Len(all)
             /\ all[i + k] = [role |-> "tool", step |-> all[i].step, n |-> k]
  <2>1. CASE i <= Len(text)
    <3>1. i \in 1 .. Len(text) /\ all[i] = text[i] /\ text[i] \in Utterance
      BY <1>1, <1>5, <1>6, <2>1
    <3>2. text[i].n \in Nat
      BY <3>1, <1>1 DEF Utterance
    <3>3. i + k <= Len(text) /\ text[i + k] = [role |-> "tool", step |-> text[i].step, n |-> k]
      BY <1>7, <3>1 DEF Answered
    <3>4. i + k \in 1 .. Len(text)
      BY <1>1, <3>1, <3>2, <3>3
    <3> QED BY <1>1, <1>5, <1>6, <3>1, <3>3, <3>4
  <2>2. CASE i = Len(text) + 1
    <3>1. all[i].n = n /\ all[i].step = st
      BY <1>6, <2>2 DEF m
    <3>2. k \in 1 .. n
      BY <3>1
    <3>3. all[i + k] = [role |-> "tool", step |-> st, n |-> k]
      BY <1>6, <2>2, <3>2
    <3>4. i + k <= Len(all)
      BY <1>1, <1>5, <2>2, <3>2
    <3> QED BY <3>1, <3>3, <3>4
  <2>3. CASE i > Len(text) + 1
    <3>1. PICK j \in 1 .. n : i = Len(text) + 1 + j
      <4>1. i - (Len(text) + 1) \in 1 .. n /\ i = Len(text) + 1 + (i - (Len(text) + 1))
        BY <1>1, <1>5, <2>3
      <4> QED BY <4>1
    <3>2. all[i] = [role |-> "tool", step |-> st, n |-> j]
      BY <1>6, <3>1
    <3>3. all[i].role = "tool"
      BY <3>2
    <3> QED BY <1>7, <3>3
  <2> QED BY <1>1, <2>1, <2>2, <2>3
<1>8. ASSUME NEW i \in 1 .. Len(all), all[i].role = "tool"
      PROVE  /\ all[i].n \in 1 .. i - 1
             /\ all[i - all[i].n].role = "assistant"
             /\ all[i - all[i].n].n >= all[i].n
  <2>1. CASE i <= Len(text)
    <3>1. i \in 1 .. Len(text) /\ all[i] = text[i]
      BY <1>1, <1>5, <1>6, <2>1
    <3>2. /\ text[i].n \in 1 .. i - 1
          /\ text[i - text[i].n].role = "assistant"
          /\ text[i - text[i].n].n >= text[i].n
      BY <1>8, <3>1 DEF Answered
    <3>3. i - text[i].n \in 1 .. Len(text)
      <4> HIDE DEF all
      <4> DEFINE back == text[i].n
      <4>1. back \in 1 .. i - 1
        BY <3>2
      <4> HIDE DEF back
      <4>2. i - back \in 1 .. Len(text)
        BY <1>1, <3>1, <4>1
      <4> QED BY <4>2 DEF back
    <3> QED BY <1>6, <3>1, <3>2, <3>3
  <2>2. CASE i = Len(text) + 1
    BY <1>6, <1>8, <2>2 DEF m
  <2>3. CASE i > Len(text) + 1
    <3>1. PICK k \in 1 .. n : i = Len(text) + 1 + k
      <4>1. i - (Len(text) + 1) \in 1 .. n /\ i = Len(text) + 1 + (i - (Len(text) + 1))
        BY <1>1, <1>5, <2>3
      <4> QED BY <4>1
    <3>2. all[i].n = k
      BY <1>6, <3>1
    <3>3. i - k = Len(text) + 1 /\ k \in 1 .. i - 1
      BY <1>1, <3>1
    <3>4. all[i - k].role = "assistant" /\ all[i - k].n = n
      BY <1>6, <3>3 DEF m
    <3> QED BY <1>1, <3>2, <3>3, <3>4
  <2> QED BY <1>1, <2>1, <2>2, <2>3
<1> QED BY <1>7, <1>8 DEF Answered, all, head, m

\* The messages of the calls of a step.
LEMMA MessagesOfCalls ==
  ASSUME NEW calls \in Batch, NEW st \in Nat, NEW results,
         results = [k \in 1 .. Len(calls) |-> [role |-> "tool", step |-> st, n |-> k]]
  PROVE  /\ results \in Seq(Utterance)
         /\ Len(results) = Len(calls)
         /\ \A k \in 1 .. Len(calls) : results[k] = [role |-> "tool", step |-> st, n |-> k]
<1>1. Len(calls) \in 0 .. MaxBatch /\ MaxBatch \in Nat
  BY BatchShape, BoundsOfTheTurn
<1>2. \A k \in 1 .. Len(calls) : [role |-> "tool", step |-> st, n |-> k] \in Utterance
  BY <1>1 DEF Utterance, Role
<1>3. results \in [1 .. Len(calls) -> Utterance]
  BY <1>2
<1> QED BY <1>1, <1>3

\* The messages still owed to the calls under way.
LEMMA OwedMessages ==
  ASSUME TurnTypeOK
  PROVE  messages \o ResultMessages \in Seq(Utterance)
<1>1. pending \in Batch /\ step \in Nat /\ messages \in Seq(Utterance)
  BY BoundsOfTheTurn DEF TurnTypeOK, Utterance
<1>2. ResultMessages \in Seq(Utterance)
  BY <1>1, MessagesOfCalls DEF ResultMessages, Message
<1> QED BY <1>1, <1>2, ConcatProperties

\* Once no call is under way nothing is owed.
LEMMA NothingOwed ==
  ASSUME pending' = <<>>, messages' \in Seq(Utterance), Answered(messages')
  PROVE  Conversation'
<1>1. ResultMessages' = <<>>
  BY DEF ResultMessages
<1>2. (messages \o ResultMessages)' = messages'
  BY <1>1, ConcatEmptySeq
<1> QED BY <1>2 DEF Conversation, Answered

LEMMA NothingOwedYet ==
  ASSUME TurnInvariant, pending = <<>>
  PROVE  messages \in Seq(Utterance) /\ Answered(messages)
<1>1. ResultMessages = <<>>
  BY DEF ResultMessages
<1>2. messages \in Seq(Utterance)
  BY DEF TurnInvariant, TurnTypeOK, Utterance
<1>3. messages \o ResultMessages = messages
  BY <1>1, <1>2, ConcatEmptySeq
<1> QED BY <1>2, <1>3 DEF TurnInvariant, Conversation

LEMMA SaidFits ==
  ASSUME NEW text \in Seq(Utterance), Answered(text), step \in Nat
  PROVE  Said(text) \in Seq(Utterance) /\ Answered(Said(text))
  BY UserMessageFits DEF Said, Message

-----------------------------------------------------------------------------
(* The log.                                                                *)

LEMMA FailCountIsNat ==
  ASSUME TurnTypeOK, NEW s, NEW u
  PROVE  FailCount(s, u) \in Nat
<1> DEFINE F == {i \in 1 .. Len(entries) :
                   entries[i].signature = s /\ ~entries[i].success /\ entries[i].step <= u}
<1>1. Len(entries) \in Nat
  BY DEF TurnTypeOK
<1>2. IsFiniteSet(1 .. Len(entries)) /\ F \in SUBSET (1 .. Len(entries))
  BY <1>1, FS_Interval
<1>3. IsFiniteSet(F)
  BY <1>2, FS_Subset
<1> HIDE DEF F
<1>4. Cardinality(F) \in Nat
  BY <1>3, FS_CardinalityType
<1> QED BY <1>4 DEF FailCount, F

LEMMA LogGrows ==
  ASSUME TurnTypeOK, NEW new \in Seq(LogEntry), entries' = entries \o new
  PROVE  /\ entries' \in Seq(LogEntry)
         /\ Len(entries) \in Nat /\ Len(entries') \in Nat
         /\ \A i \in 1 .. Len(entries) : i \in 1 .. Len(entries') /\ entries'[i] = entries[i]
         /\ \A i \in 1 .. Len(entries') : i \notin 1 .. Len(entries) =>
              \E k \in 1 .. Len(new) : entries'[i] = new[k]
<1>1. entries \in Seq(LogEntry)
  BY DEF TurnTypeOK, LogEntry
<1>2. /\ entries' \in Seq(LogEntry)
      /\ Len(entries') = Len(entries) + Len(new)
      /\ \A i \in 1 .. Len(entries) + Len(new) :
           entries'[i] = IF i <= Len(entries) THEN entries[i] ELSE new[i - Len(entries)]
  BY <1>1, ConcatProperties
<1>3. Len(entries) \in Nat /\ Len(new) \in Nat
  BY <1>1
<1>4. ASSUME NEW i \in 1 .. Len(entries'), i \notin 1 .. Len(entries)
      PROVE  \E k \in 1 .. Len(new) : entries'[i] = new[k]
  <2>1. i - Len(entries) \in 1 .. Len(new) /\ ~(i <= Len(entries))
    BY <1>2, <1>3, <1>4
  <2> QED BY <1>2, <1>3, <1>4, <2>1
<1> QED BY <1>2, <1>3, <1>4

\* Successes and later entries change no count of earlier failures.
LEMMA EarlierFailures ==
  ASSUME TurnTypeOK, NEW new \in Seq(LogEntry), entries' = entries \o new,
         NEW s, NEW u \in Nat,
         \A k \in 1 .. Len(new) : new[k].success \/ new[k].step > u
  PROVE  FailCount(s, u)' = FailCount(s, u)
<1> DEFINE F == {i \in 1 .. Len(entries) :
                   entries[i].signature = s /\ ~entries[i].success /\ entries[i].step <= u}
           G == {i \in 1 .. Len(entries') :
                   entries'[i].signature = s /\ ~entries'[i].success /\ entries'[i].step <= u}
<1>1. ASSUME NEW k \in 1 .. Len(new)
      PROVE  new[k].step \in Nat
  <2>1. new[k] \in LogEntry
    BY ElementOfSeq
  <2> QED BY <2>1, BoundsOfTheTurn DEF LogEntry
<1>2. F \subseteq G
  BY LogGrows
<1>3. ASSUME NEW i \in G
      PROVE  i \in F
  <2>1. i \in 1 .. Len(entries)
    <3> SUFFICES ASSUME i \notin 1 .. Len(entries) PROVE FALSE
      OBVIOUS
    <3>1. PICK k \in 1 .. Len(new) : entries'[i] = new[k]
      BY LogGrows
    <3> QED BY <1>1, <3>1
  <2> QED BY <2>1, LogGrows
<1>4. F = G
  BY <1>2, <1>3
<1> HIDE DEF F, G
<1> QED BY <1>4 DEF FailCount, F, G

\* No entry is of a later step, so no later count is higher.
LEMMA LaterCounts ==
  ASSUME TurnTypeOK', \A i \in 1 .. Len(entries') : entries'[i].step <= step',
         NEW s, NEW u \in Nat
  PROVE  FailCount(s, u)' <= FailCount(s, step)'
<1> DEFINE F(v) == {i \in 1 .. Len(entries') :
                      entries'[i].signature = s /\ ~entries'[i].success /\ entries'[i].step <= v}
<1>1. Len(entries') \in Nat
  BY DEF TurnTypeOK
<1>2. IsFiniteSet(1 .. Len(entries')) /\ F(step') \in SUBSET (1 .. Len(entries'))
  BY <1>1, FS_Interval
<1>3. IsFiniteSet(F(step'))
  BY <1>2, FS_Subset
<1>4. F(u) \subseteq F(step')
  OBVIOUS
<1> HIDE DEF F
<1>5. Cardinality(F(u)) <= Cardinality(F(step'))
  BY <1>3, <1>4, FS_Subset
<1> QED BY <1>5 DEF FailCount, F

LEMMA RecordedShape ==
  ASSUME TurnInvariant, turn \in {"tools", "approval"},
         NEW calls \in SUBSET (1 .. Len(pending)), NEW order \in InOrder(calls),
         NEW success \in BOOLEAN
  PROVE  /\ Recorded(order, success) \in Seq(LogEntry)
         /\ \A k \in 1 .. Len(Recorded(order, success)) :
              \E i \in calls :
                Recorded(order, success)[k] =
                  [step |-> step, call |-> i, signature |-> pending[i], success |-> success]
<1> DEFINE entry(i) == [step |-> step, call |-> i, signature |-> pending[i], success |-> success]
<1>1. /\ pending \in Seq(Signature) /\ Len(pending) \in 0 .. MaxBatch
      /\ MaxBatch \in Nat /\ MaxSteps \in Nat /\ step \in 1 .. MaxSteps
  BY BatchShape, BoundsOfTheTurn DEF TurnInvariant, TurnTypeOK, TurnFits
<1>2. IsFiniteSet(1 .. Len(pending))
  BY <1>1, FS_Interval
<1>3. Cardinality(calls) \in Nat
  BY <1>2, FS_Subset, FS_CardinalityType
<1>4. /\ order \in [1 .. Cardinality(calls) -> calls]
      /\ Len(order) = Cardinality(calls)
  BY <1>3 DEF InOrder
<1>5. \A i \in calls : entry(i) \in LogEntry
  BY <1>1 DEF LogEntry
<1>6. Recorded(order, success) = [k \in 1 .. Len(order) |-> entry(order[k])]
  BY DEF Recorded
<1>7. Recorded(order, success) \in [1 .. Len(order) -> LogEntry]
  BY <1>4, <1>5, <1>6
<1>8. Recorded(order, success) \in Seq(LogEntry) /\ Len(Recorded(order, success)) = Len(order)
  BY <1>3, <1>4, <1>7
<1> QED BY <1>4, <1>6, <1>8

\* What a batch leaves in the log.  The calls that are executed are not burned,
\* unless the log does not know them, and the risky ones among them have a yes.
LEMMA LogKeeps ==
  ASSUME TurnInvariant, TurnTypeOK', step' = step, consented \subseteq consented',
         NEW new \in Seq(LogEntry), entries' = entries \o new,
         \A k \in 1 .. Len(new) :
           /\ new[k].step = step
           /\ new[k].signature \in Risky => <<step, new[k].call>> \in consented'
           /\ new[k].signature = AskUser => new[k].success
           /\ \/ new[k].signature = AskUser
              \/ new[k].signature \notin burned
              \/ new[k].signature \in Unmatched,
         \/ (\A k \in 1 .. Len(new) : new[k].success) /\ burned' = burned
         \/ burned' = burned \union {s \in Signature : FailCount(s, step)' >= BurnThreshold}
  PROVE  EntriesFit'
<1>1. /\ TurnTypeOK /\ EntriesFit /\ step \in Nat
      /\ BurnThreshold \in Nat \ {0}
      /\ \A i \in 1 .. Len(entries) : entries[i] \in LogEntry
      /\ \A i \in 1 .. Len(entries') : entries'[i] \in LogEntry
      /\ MaxSteps \in Nat
  <2>1. entries \in Seq(LogEntry) /\ entries' \in Seq(LogEntry) /\ step \in 0 .. MaxSteps + 1
    BY DEF TurnInvariant, TurnTypeOK, LogEntry
  <2>2. /\ \A i \in 1 .. Len(entries) : entries[i] \in LogEntry
        /\ \A i \in 1 .. Len(entries') : entries'[i] \in LogEntry
    BY <2>1, ElementOfSeq
  <2>3. TurnTypeOK /\ EntriesFit
    BY DEF TurnInvariant
  <2> QED BY <2>1, <2>2, <2>3, BoundsOfTheTurn
<1>2. ASSUME NEW i \in 1 .. Len(entries')
      PROVE  \/ i \in 1 .. Len(entries) /\ entries'[i] = entries[i]
             \/ \E k \in 1 .. Len(new) : entries'[i] = new[k]
  BY <1>1, LogGrows
<1>3. ASSUME NEW i \in 1 .. Len(entries')
      PROVE  /\ entries'[i].step <= step'
             /\ entries'[i].signature = AskUser => entries'[i].success
             /\ entries'[i].signature \in Risky =>
                  <<entries'[i].step, entries'[i].call>> \in consented'
  <2>1. CASE i \in 1 .. Len(entries) /\ entries'[i] = entries[i]
    BY <1>1, <2>1 DEF EntriesFit, ConsentedEntries
  <2>2. CASE \E k \in 1 .. Len(new) : entries'[i] = new[k]
    <3>1. PICK k \in 1 .. Len(new) : entries'[i] = new[k]
      BY <2>2
    <3>2. new[k].step = step
      OBVIOUS
    <3>3. new[k].step <= step'
      BY <1>1, <3>2
    <3>4. <<new[k].step, new[k].call>> = <<step, new[k].call>>
      BY <3>2
    <3> QED BY <3>1, <3>3, <3>4
  <2> QED BY <1>2, <2>1, <2>2
<1>4. \A s, u : FailCount(s, u) \in Nat
  BY <1>1, FailCountIsNat
<1>5. ASSUME NEW s, NEW u \in Nat, u < step
      PROVE  FailCount(s, u)' = FailCount(s, u)
  <2>1. \A k \in 1 .. Len(new) : new[k].step > u
    BY <1>1, <1>5
  <2> QED BY <1>1, <2>1, EarlierFailures
<1>6. BurnedStaysBurned'
  <2>1. ASSUME NEW i \in 1 .. Len(entries'), NEW s, NEW u,
               s = entries'[i].signature, u = entries'[i].step - 1
        PROVE  s \in Unmatched \/ FailCount(s, u)' < BurnThreshold
    <3>1. u \in Nat /\ u < step /\ s \in Signature
      <4>1. entries'[i] \in LogEntry
        BY <1>1
      <4>2. entries'[i].step \in 1 .. MaxSteps /\ s \in Signature
        BY <2>1, <4>1 DEF LogEntry
      <4>3. entries'[i].step <= step
        BY <1>3
      <4>4. entries'[i].step \in Nat /\ entries'[i].step >= 1
        BY <1>1, <4>2
      <4> QED BY <1>1, <2>1, <4>2, <4>3, <4>4
    <3>2. FailCount(s, u)' = FailCount(s, u)
      BY <3>1, <1>5
    <3>3. CASE i \in 1 .. Len(entries) /\ entries'[i] = entries[i]
      <4>1. s \in Unmatched \/ FailCount(s, u) < BurnThreshold
        BY <1>1, <2>1, <3>3 DEF EntriesFit, BurnedStaysBurned
      <4> QED BY <3>2, <4>1
    <3>4. CASE s = AskUser
      <4>1. {j \in 1 .. Len(entries) :
               entries[j].signature = s /\ ~entries[j].success /\ entries[j].step <= u} = {}
        BY <1>1, <3>4 DEF EntriesFit
      <4>2. FailCount(s, u) = 0
        BY <4>1, FS_EmptySet DEF FailCount
      <4> QED BY <1>1, <3>2, <4>2
    <3>5. CASE s \notin burned
      <4>1. ~(FailCount(s, u) >= BurnThreshold)
        BY <1>1, <3>1, <3>5 DEF EntriesFit, BurnedAreKnown
      <4> QED BY <1>1, <1>4, <3>2, <4>1
    <3>6. CASE s \in Unmatched
      BY <3>6
    <3>7. \/ i \in 1 .. Len(entries) /\ entries'[i] = entries[i]
          \/ \E k \in 1 .. Len(new) : entries'[i] = new[k]
      BY <1>2
    <3> QED BY <2>1, <3>3, <3>4, <3>5, <3>6, <3>7
  <2>2. ASSUME NEW i \in 1 .. Len(entries')
        PROVE  (entries[i].signature \in Unmatched
                  \/ FailCount(entries[i].signature, entries[i].step - 1) < BurnThreshold)'
    <3>1. PICK s, u : s = entries'[i].signature /\ u = entries'[i].step - 1
      OBVIOUS
    <3>2. s \in Unmatched \/ FailCount(s, u)' < BurnThreshold
      BY <2>1, <3>1
    <3> QED BY <3>1, <3>2 DEF FailCount
  <2> QED BY <2>2 DEF BurnedStaysBurned
<1>7. BurnedAreKnown'
  <2> SUFFICES ASSUME NEW s \in Signature, NEW u \in Nat, FailCount(s, u)' >= BurnThreshold
               PROVE  s \in burned'
    BY DEF BurnedAreKnown
  <2>1. CASE (\A k \in 1 .. Len(new) : new[k].success) /\ burned' = burned
    <3>1. FailCount(s, u)' = FailCount(s, u)
      BY <1>1, <2>1, EarlierFailures
    <3> QED BY <1>1, <2>1, <3>1 DEF EntriesFit, BurnedAreKnown
  <2>2. CASE burned' = burned \union {x \in Signature : FailCount(x, step)' >= BurnThreshold}
    <3>1. FailCount(s, u)' <= FailCount(s, step)'
      BY <1>3, LaterCounts
    <3>2. FailCount(s, u)' \in Nat /\ FailCount(s, step)' \in Nat
      <4> DEFINE F(v) == {i \in 1 .. Len(entries') :
                            entries'[i].signature = s /\ ~entries'[i].success /\ entries'[i].step <= v}
      <4>1. Len(entries') \in Nat
        BY DEF TurnTypeOK
      <4>2. IsFiniteSet(1 .. Len(entries'))
        <5> HIDE DEF F
        <5>1. 1 \in Int /\ Len(entries') \in Int
          BY <4>1
        <5> QED BY <5>1, FS_Interval
      <4>3. \A v : F(v) \in SUBSET (1 .. Len(entries'))
        OBVIOUS
      <4> HIDE DEF F
      <4>4. \A v : Cardinality(F(v)) \in Nat
        BY <4>2, <4>3, FS_Subset, FS_CardinalityType
      <4> QED BY <4>4 DEF FailCount, F
    <3>3. FailCount(s, step)' >= BurnThreshold
      BY <1>1, <3>1, <3>2
    <3> QED BY <2>2, <3>3
  <2> QED BY <2>1, <2>2
<1> QED BY <1>3, <1>6, <1>7 DEF EntriesFit, ConsentedEntries

\* Without an entry only the step may go on, and the user say yes.
LEMMA LogStays ==
  ASSUME TurnInvariant, UNCHANGED <<entries, burned>>, consented \subseteq consented',
         step' \in Nat, step <= step'
  PROVE  EntriesFit'
<1>1. /\ \A i \in 1 .. Len(entries) : entries[i].step \in Nat
      /\ step \in Nat
  <2>1. entries \in Seq(LogEntry) /\ step \in 0 .. MaxSteps + 1
    BY DEF TurnInvariant, TurnTypeOK, LogEntry
  <2>2. ASSUME NEW i \in 1 .. Len(entries)
        PROVE  entries[i].step \in Nat
    <3>1. entries[i] \in LogEntry
      BY <2>1, ElementOfSeq
    <3> QED BY <3>1, BoundsOfTheTurn DEF LogEntry
  <2> QED BY <2>1, <2>2, BoundsOfTheTurn
<1>2. ConsentedEntries' /\ BurnedStaysBurned' /\ BurnedAreKnown'
  BY DEF TurnInvariant, EntriesFit, ConsentedEntries, BurnedStaysBurned, BurnedAreKnown, FailCount
<1> QED BY <1>1, <1>2 DEF TurnInvariant, EntriesFit

-----------------------------------------------------------------------------
(* The steps.                                                              *)

\* What the invariant says of the numbers.
LEMMA NumbersOfTheTurn ==
  ASSUME TurnInvariant
  PROVE  /\ MaxBatch \in Nat /\ MaxSteps \in Nat \ {0} /\ MaxBudget \in Nat \ {0}
         /\ MaxCost \in Nat \ {0} /\ BurnThreshold \in Nat \ {0}
         /\ step \in 0 .. MaxSteps + 1 /\ step \in Nat /\ spentCny \in Nat
         /\ messages \in Seq(Utterance) /\ entries \in Seq(LogEntry)
         /\ pending \in Seq(Signature) /\ Len(pending) \in 0 .. MaxBatch
  BY BoundsOfTheTurn, BatchShape DEF TurnInvariant, TurnTypeOK, Utterance, LogEntry

LEMMA NoCalls == <<>> \in Batch
<1>1. 0 \in 0 .. MaxBatch /\ <<>> \in [1 .. 0 -> Signature]
  BY BoundsOfTheTurn
<1> QED BY <1>1 DEF Batch

LEMMA BoundaryKeeps ==
  ASSUME TurnInvariant, Boundary
  PROVE  TurnInvariant'
<1>1. pending = <<>> /\ messages \in Seq(Utterance) /\ Answered(messages)
  BY NothingOwedYet DEF TurnInvariant, TurnFits, Boundary
<1>2. messages' \in {messages, Said(messages)} \union {Said(messages \o <<>>)}
  BY DEF Boundary, ForceConclude
<1>3. messages' \in Seq(Utterance) /\ Answered(messages')
  BY <1>1, <1>2, NumbersOfTheTurn, ConcatEmptySeq, SaidFits
<1>4. UNCHANGED <<step, entries, burned, spentCny, pending, consented>> /\ turn = "boundary"
  BY DEF Boundary
<1>5. \/ turn' = "conclude"
      \/ turn' = "model" /\ ~Halt
  <2>1. CASE Halt
    BY <2>1 DEF Boundary, ForceConclude
  <2>2. CASE ~Halt
    BY <2>2 DEF Boundary
  <2> QED BY <2>1, <2>2
<1>6. TurnTypeOK'
  BY <1>3, <1>4, <1>5 DEF TurnInvariant, TurnTypeOK, Utterance
<1>7. TurnFits'
  BY <1>1, <1>4, <1>5, NumbersOfTheTurn DEF TurnInvariant, TurnFits, Halt
<1>8. Conversation'
  BY <1>1, <1>3, <1>4, NothingOwed
<1>9. EntriesFit'
  BY <1>4, NumbersOfTheTurn, LogStays
<1> QED BY <1>6, <1>7, <1>8, <1>9 DEF TurnInvariant

LEMMA CallModelKeeps ==
  ASSUME TurnInvariant, CallModel
  PROVE  TurnInvariant'
<1>1. PICK calls \in Batch, cost \in 0 .. MaxCost :
        /\ ApplyStep(Len(calls), cost)
        /\ pending' = calls
        /\ turn' = IF calls = <<>> THEN "ended" ELSE "tools"
  BY DEF CallModel
<1>2. /\ turn = "model" /\ pending = <<>> /\ step < MaxSteps /\ spentCny < MaxBudget
      /\ UNCHANGED <<entries, burned, consented>>
  BY DEF CallModel, TurnInvariant, TurnFits
<1>3. messages \in Seq(Utterance) /\ Answered(messages)
  BY <1>2, NothingOwedYet
<1>4. /\ messages' = Append(messages, [role |-> "assistant", step |-> step', n |-> Len(calls)])
      /\ step' = step + 1
      /\ spentCny' = spentCny + cost
  BY <1>1 DEF ApplyStep
<1>5. Len(calls) \in 0 .. MaxBatch /\ step' \in 1 .. MaxSteps /\ step' \in Nat
  BY <1>2, <1>4, NumbersOfTheTurn, BatchShape
<1>6. messages' \in Seq(Utterance)
  <2>1. [role |-> "assistant", step |-> step', n |-> Len(calls)] \in Utterance
    BY <1>5 DEF Utterance, Role
  <2> QED BY <1>3, <1>4, <2>1
<1>7. TurnTypeOK'
  BY <1>1, <1>2, <1>4, <1>5, <1>6, NumbersOfTheTurn DEF TurnInvariant, TurnTypeOK, Utterance
<1>8. TurnFits'
  <2>1. spentCny' < MaxBudget + MaxCost /\ spentCny' < MaxBudget + 2 * MaxCost
    <3>1. spentCny \in Nat /\ MaxBudget \in Nat /\ MaxCost \in Nat \ {0} /\ cost \in 0 .. MaxCost
      BY NumbersOfTheTurn
    <3> QED BY <1>2, <1>4, <3>1
  <2>2. turn' \in {"ended", "tools"} /\ (turn' # "tools" => pending' = <<>>)
    BY <1>1
  <2>3. step' <= MaxSteps /\ step' > 0
    BY <1>5, NumbersOfTheTurn
  <2> QED BY <2>1, <2>2, <2>3 DEF TurnFits
<1>9. Conversation'
  <2>1. /\ ResultMessages' \in Seq(Utterance)
        /\ Len(ResultMessages') = Len(calls)
        /\ \A k \in 1 .. Len(calls) :
             ResultMessages'[k] = [role |-> "tool", step |-> step', n |-> k]
    <3>1. ResultMessages' = [k \in 1 .. Len(calls) |-> [role |-> "tool", step |-> step', n |-> k]]
      BY <1>1 DEF ResultMessages, Message
    <3> QED BY <1>5, <3>1, MessagesOfCalls
  <2>2. Answered(messages' \o ResultMessages')
    BY <1>3, <1>4, <1>5, <2>1, AnswerFits
  <2> QED BY <2>2 DEF Conversation, Answered
<1>10. EntriesFit'
  BY <1>2, <1>4, NumbersOfTheTurn, LogStays
<1> QED BY <1>7, <1>8, <1>9, <1>10 DEF TurnInvariant

LEMMA ConcludeKeeps ==
  ASSUME TurnInvariant, Conclude
  PROVE  TurnInvariant'
<1>1. PICK cost \in 0 .. MaxCost : ApplyStep(0, cost)
  BY DEF Conclude
<1>2. /\ turn' = "ended" /\ pending = <<>> /\ step <= MaxSteps
      /\ spentCny < MaxBudget + MaxCost
      /\ UNCHANGED <<entries, burned, consented, pending>>
  BY DEF Conclude, TurnInvariant, TurnFits
<1>3. messages \in Seq(Utterance) /\ Answered(messages)
  BY <1>2, NothingOwedYet
<1>4. /\ messages' = Append(messages, [role |-> "assistant", step |-> step', n |-> 0])
      /\ step' = step + 1
      /\ spentCny' = spentCny + cost
  BY <1>1 DEF ApplyStep
<1>5. step' \in 0 .. MaxSteps + 1 /\ step' \in Nat
  BY <1>2, <1>4, NumbersOfTheTurn
<1>6. messages' \in Seq(Utterance)
  <2>1. [role |-> "assistant", step |-> step', n |-> 0] \in Utterance
    BY <1>5, NumbersOfTheTurn DEF Utterance, Role
  <2> QED BY <1>3, <1>4, <2>1
<1>7. TurnTypeOK'
  BY <1>2, <1>4, <1>5, <1>6, NumbersOfTheTurn DEF TurnInvariant, TurnTypeOK, Utterance
<1>8. TurnFits'
  <2>1. spentCny' < MaxBudget + 2 * MaxCost
    <3>1. spentCny \in Nat /\ MaxBudget \in Nat /\ MaxCost \in Nat \ {0} /\ cost \in 0 .. MaxCost
      BY NumbersOfTheTurn
    <3> QED BY <1>2, <1>4, <3>1
  <2> QED BY <1>2, <2>1 DEF TurnFits
<1>9. Conversation'
  <2>1. Answered(messages' \o <<>>)
    <3> DEFINE none == <<>>
    <3>1. none \in Seq(Utterance) /\ Len(none) = 0 /\ 0 \in 0 .. MaxBatch
      BY NumbersOfTheTurn
    <3>2. \A k \in 1 .. 0 : none[k] = [role |-> "tool", step |-> step', n |-> k]
      OBVIOUS
    <3> HIDE DEF none
    <3>3. Answered(Append(messages, [role |-> "assistant", step |-> step', n |-> 0]) \o none)
      BY <1>3, <1>5, <3>1, <3>2, AnswerFits
    <3> QED BY <1>4, <3>3 DEF none
  <2>2. messages' \o <<>> = messages'
    BY <1>6, ConcatEmptySeq
  <2> QED BY <1>2, <1>6, <2>1, <2>2, NothingOwed
<1>10. EntriesFit'
  BY <1>2, <1>4, NumbersOfTheTurn, LogStays
<1> QED BY <1>7, <1>8, <1>9, <1>10 DEF TurnInvariant

LEMMA PauseForApprovalKeeps ==
  ASSUME TurnInvariant, PauseForApproval
  PROVE  TurnInvariant'
<1>1. /\ UNCHANGED <<messages, step, entries, burned, spentCny, pending, consented>>
      /\ turn' = "approval" /\ turn = "tools" /\ ~Asks
  BY DEF PauseForApproval
<1>2. TurnTypeOK' /\ TurnFits'
  BY <1>1 DEF TurnInvariant, TurnTypeOK, TurnFits, Asks
<1>3. Conversation'
  <2>1. ResultMessages' = ResultMessages
    BY <1>1 DEF ResultMessages, Message
  <2> QED BY <1>1, <2>1 DEF TurnInvariant, Conversation, Answered
<1>4. EntriesFit'
  BY <1>1, NumbersOfTheTurn, LogStays
<1> QED BY <1>2, <1>3, <1>4 DEF TurnInvariant

LEMMA RespondKeeps ==
  ASSUME TurnInvariant, Respond
  PROVE  TurnInvariant'
<1>1. /\ UNCHANGED <<step, entries, burned, spentCny, pending, consented>>
      /\ turn' = "boundary" /\ turn = "input" /\ pending = <<>>
      /\ messages' = Said(messages)
  BY DEF Respond, TurnInvariant, TurnFits
<1>2. messages' \in Seq(Utterance) /\ Answered(messages')
  BY <1>1, NothingOwedYet, NumbersOfTheTurn, SaidFits
<1>3. TurnTypeOK' /\ TurnFits'
  BY <1>1, <1>2 DEF TurnInvariant, TurnTypeOK, TurnFits, Utterance
<1>4. Conversation'
  BY <1>1, <1>2, NothingOwed
<1>5. EntriesFit'
  BY <1>1, NumbersOfTheTurn, LogStays
<1> QED BY <1>3, <1>4, <1>5 DEF TurnInvariant

\* What a batch adds to the conversation.
LEMMA ResultsFit ==
  ASSUME TurnInvariant,
         messages' \in {messages \o ResultMessages, Said(messages \o ResultMessages)}
  PROVE  messages' \in Seq(Utterance) /\ Answered(messages')
<1>1. /\ messages \o ResultMessages \in Seq(Utterance)
      /\ Answered(messages \o ResultMessages)
      /\ step \in Nat
  BY OwedMessages, NumbersOfTheTurn DEF TurnInvariant, Conversation
<1> QED BY <1>1, SaidFits

\* The calls under way are answered without being executed.
LEMMA SkipKeeps ==
  ASSUME TurnInvariant, turn \in {"tools", "approval"},
         messages' \in {messages \o ResultMessages, Said(messages \o ResultMessages)},
         turn' \in {"boundary", "conclude"}, pending' = <<>>,
         UNCHANGED <<step, entries, burned, spentCny>>,
         consented \subseteq consented', consented' \subseteq Place
  PROVE  TurnInvariant'
<1>1. messages' \in Seq(Utterance) /\ Answered(messages')
  BY ResultsFit
<1>2. TurnTypeOK'
  BY <1>1, NoCalls DEF TurnInvariant, TurnTypeOK, Utterance
<1>3. TurnFits'
  BY DEF TurnInvariant, TurnFits
<1>4. Conversation'
  BY <1>1, NothingOwed
<1>5. EntriesFit'
  BY NumbersOfTheTurn, LogStays
<1> QED BY <1>2, <1>3, <1>4, <1>5 DEF TurnInvariant

\* Some of the calls under way are executed.
LEMMA DispatchKeeps ==
  ASSUME TurnInvariant, turn \in {"tools", "approval"}, ~Asks,
         NEW selected \in SUBSET (1 .. Len(pending)), Dispatch(selected),
         messages' \in {messages \o ResultMessages, Said(messages \o ResultMessages)},
         consented \subseteq consented', consented' \subseteq Place,
         \A i \in selected : pending[i] \in Risky => <<step, i>> \in consented'
  PROVE  TurnInvariant'
<1> DEFINE allowed == Allowed(selected)
<1>1. PICK succeed \in SUBSET allowed :
        \E first \in InOrder(succeed), rest \in InOrder(allowed \ succeed) :
          entries' = entries \o Recorded(first, TRUE) \o Recorded(rest, FALSE)
  BY DEF Dispatch
<1>2. PICK first \in InOrder(succeed), rest \in InOrder(allowed \ succeed) :
        entries' = entries \o Recorded(first, TRUE) \o Recorded(rest, FALSE)
  BY <1>1
<1>3. /\ allowed \subseteq selected /\ allowed \subseteq 1 .. Len(pending)
      /\ \A i \in allowed : pending[i] \notin burned \/ pending[i] \in Unmatched
  BY DEF Allowed
<1> DEFINE good == Recorded(first, TRUE)
           bad == Recorded(rest, FALSE)
           new == good \o bad
<1> HIDE DEF allowed
<1>4. /\ good \in Seq(LogEntry)
      /\ \A k \in 1 .. Len(good) : \E i \in allowed :
           good[k] = [step |-> step, call |-> i, signature |-> pending[i], success |-> TRUE]
  <2>1. succeed \in SUBSET (1 .. Len(pending)) /\ succeed \subseteq allowed /\ TRUE \in BOOLEAN
    BY <1>3
  <2>2. /\ Recorded(first, TRUE) \in Seq(LogEntry)
        /\ \A k \in 1 .. Len(Recorded(first, TRUE)) : \E i \in succeed :
             Recorded(first, TRUE)[k] =
               [step |-> step, call |-> i, signature |-> pending[i], success |-> TRUE]
    BY <2>1, RecordedShape
  <2> QED BY <2>1, <2>2
<1>5. /\ bad \in Seq(LogEntry)
      /\ \A k \in 1 .. Len(bad) : \E i \in allowed :
           bad[k] = [step |-> step, call |-> i, signature |-> pending[i], success |-> FALSE]
  <2>1. allowed \ succeed \in SUBSET (1 .. Len(pending)) /\ allowed \ succeed \subseteq allowed /\ FALSE \in BOOLEAN
    BY <1>3
  <2>2. /\ Recorded(rest, FALSE) \in Seq(LogEntry)
        /\ \A k \in 1 .. Len(Recorded(rest, FALSE)) : \E i \in allowed \ succeed :
             Recorded(rest, FALSE)[k] =
               [step |-> step, call |-> i, signature |-> pending[i], success |-> FALSE]
    BY <2>1, RecordedShape
  <2> QED BY <2>1, <2>2
<1> HIDE DEF good, bad
<1>6. /\ new \in Seq(LogEntry)
      /\ Len(new) = Len(good) + Len(bad)
      /\ \A k \in 1 .. Len(good) + Len(bad) :
           new[k] = IF k <= Len(good) THEN good[k] ELSE bad[k - Len(good)]
  BY <1>4, <1>5, ConcatProperties
<1>7. entries' = entries \o new
  <2>1. entries \in Seq(LogEntry)
    BY NumbersOfTheTurn
  <2>2. entries' = (entries \o good) \o bad
    BY <1>2 DEF good, bad
  <2> QED BY <1>4, <1>5, <2>1, <2>2, ConcatAssociative
<1> HIDE DEF new
<1>8. \A k \in 1 .. Len(new) : \E i \in allowed, success \in BOOLEAN :
        new[k] = [step |-> step, call |-> i, signature |-> pending[i], success |-> success]
  <2> SUFFICES ASSUME NEW k \in 1 .. Len(new)
               PROVE  \E i \in allowed, success \in BOOLEAN :
                        new[k] = [step |-> step, call |-> i, signature |-> pending[i],
                                  success |-> success]
    OBVIOUS
  <2>1. Len(good) \in Nat /\ Len(bad) \in Nat
    BY <1>4, <1>5
  <2>2. CASE k <= Len(good)
    <3>1. k \in 1 .. Len(good) /\ new[k] = good[k]
      BY <1>6, <2>1, <2>2
    <3> QED BY <1>4, <3>1
  <2>3. CASE ~(k <= Len(good))
    <3>1. k - Len(good) \in 1 .. Len(bad) /\ new[k] = bad[k - Len(good)]
      BY <1>6, <2>1, <2>3
    <3> QED BY <1>5, <3>1
  <2> QED BY <2>2, <2>3
<1>9. ASSUME NEW k \in 1 .. Len(new)
      PROVE  /\ new[k].step = step
             /\ new[k].signature \in Risky => <<step, new[k].call>> \in consented'
             /\ new[k].signature = AskUser => new[k].success
             /\ \/ new[k].signature = AskUser
                \/ new[k].signature \notin burned
                \/ new[k].signature \in Unmatched
  <2>1. PICK i \in allowed, success \in BOOLEAN :
          new[k] = [step |-> step, call |-> i, signature |-> pending[i], success |-> success]
    BY <1>8
  <2>2. i \in selected /\ i \in 1 .. Len(pending) /\ pending[i] # AskUser
    BY <1>3 DEF Asks
  <2> QED BY <1>3, <2>1, <2>2
<1>10. messages' \in Seq(Utterance) /\ Answered(messages')
  BY ResultsFit
<1>11. /\ step' = step /\ spentCny' = spentCny /\ pending' = <<>> /\ turn' = "boundary"
       /\ burned' = burned \union {s \in Signature : FailCount(s, step)' >= BurnThreshold}
  BY DEF Dispatch
<1>12. TurnTypeOK'
  <2>1. entries' \in Seq(LogEntry)
    BY <1>6, <1>7, LogGrows DEF TurnInvariant
  <2>2. burned' \subseteq Signature
    BY <1>11 DEF TurnInvariant, TurnTypeOK
  <2> QED BY <1>10, <1>11, <2>1, <2>2, NoCalls DEF TurnInvariant, TurnTypeOK, Utterance, LogEntry
<1>13. TurnFits'
  BY <1>11 DEF TurnInvariant, TurnFits
<1>14. Conversation'
  BY <1>10, <1>11, NothingOwed
<1>15. EntriesFit'
  BY <1>6, <1>7, <1>9, <1>11, <1>12, LogKeeps
<1> QED BY <1>12, <1>13, <1>14, <1>15 DEF TurnInvariant

LEMMA RunToolsKeeps ==
  ASSUME TurnInvariant, RunTools
  PROVE  TurnInvariant'
<1>1. /\ turn = "tools" /\ ~Asks /\ NeedConsent = {} /\ consented' = consented
      /\ consented \subseteq Place
  BY DEF RunTools, TurnInvariant, TurnTypeOK
<1>2. CASE SkipForBudget
  BY <1>1, <1>2, SkipKeeps DEF SkipForBudget, ForceConclude
<1>3. CASE Interrupted
  BY <1>1, <1>3, SkipKeeps DEF Interrupted
<1>4. CASE Dispatch(1 .. Len(pending)) /\ messages' = messages \o Merged
  <2>1. \A i \in 1 .. Len(pending) : pending[i] \notin Risky
    BY <1>1 DEF NeedConsent
  <2>2. messages' = messages \o ResultMessages
    BY <1>4 DEF Merged
  <2> QED BY <1>1, <1>4, <2>1, <2>2, DispatchKeeps
<1> QED BY <1>2, <1>3, <1>4 DEF RunTools

LEMMA DecideKeeps ==
  ASSUME TurnInvariant, Decide
  PROVE  TurnInvariant'
<1>1. PICK yes \in SUBSET NeedConsent :
        /\ consented' = consented \union {<<step, i>> : i \in yes}
        /\ IF Selected(yes) # {} /\ MarginExhausted
           THEN SkipForBudget
           ELSE Dispatch(Selected(yes)) /\ messages' = Said(messages \o Merged)
  BY DEF Decide
<1>2. turn = "approval" /\ ~Asks /\ step \in 1 .. MaxSteps /\ Len(pending) \in 0 .. MaxBatch
  BY NumbersOfTheTurn DEF Decide, TurnInvariant, TurnFits
<1>3. consented \subseteq consented' /\ consented' \subseteq Place
  <2>1. \A i \in yes : <<step, i>> \in Place
    BY <1>2, NumbersOfTheTurn DEF Place, NeedConsent
  <2> QED BY <1>1, <2>1 DEF TurnInvariant, TurnTypeOK
<1>4. CASE SkipForBudget
  BY <1>2, <1>3, <1>4, SkipKeeps DEF SkipForBudget, ForceConclude
<1>5. CASE Dispatch(Selected(yes)) /\ messages' = Said(messages \o Merged)
  <2>1. Selected(yes) \in SUBSET (1 .. Len(pending))
    BY DEF Selected
  <2>2. \A i \in Selected(yes) : pending[i] \in Risky => <<step, i>> \in consented'
    BY <1>1 DEF Selected, NeedConsent
  <2>3. messages' = Said(messages \o ResultMessages)
    BY <1>5 DEF Merged
  <2> QED BY <1>2, <1>3, <1>5, <2>1, <2>2, <2>3, DispatchKeeps
<1> QED BY <1>1, <1>4, <1>5

LEMMA PauseForInputKeeps ==
  ASSUME TurnInvariant, PauseForInput
  PROVE  TurnInvariant'
<1>1. /\ turn = "tools" /\ turn' = "input" /\ pending = <<AskUser>> /\ pending' = <<>>
      /\ entries' = entries \o Recorded(<<1>>, TRUE)
      /\ messages' = messages \o ResultMessages
      /\ UNCHANGED <<step, burned, spentCny, consented>>
  BY DEF PauseForInput
<1>2. messages' \in Seq(Utterance) /\ Answered(messages')
  BY <1>1, ResultsFit
<1> DEFINE new == Recorded(<<1>>, TRUE)
<1>3. /\ new \in Seq(LogEntry)
      /\ \A k \in 1 .. Len(new) :
           new[k] = [step |-> step, call |-> 1, signature |-> AskUser, success |-> TRUE]
  <2>1. Len(pending) = 1 /\ pending[1] = AskUser
    BY <1>1
  <2>2. <<1>> \in InOrder({1})
    <3>1. Cardinality({1}) = 1
      BY FS_Singleton
    <3> QED BY <3>1 DEF InOrder
  <2>3. /\ new \in Seq(LogEntry)
        /\ \A k \in 1 .. Len(new) : \E i \in {1} :
             new[k] = [step |-> step, call |-> i, signature |-> pending[i], success |-> TRUE]
    <3>1. {1} \in SUBSET (1 .. Len(pending)) /\ TRUE \in BOOLEAN
      BY <2>1
    <3> QED BY <1>1, <2>2, <3>1, RecordedShape
  <2> QED BY <2>1, <2>3
<1> HIDE DEF new
<1>4. entries' = entries \o new
  BY <1>1 DEF new
<1>5. TurnTypeOK'
  <2>1. entries' \in Seq(LogEntry)
    BY <1>3, <1>4, LogGrows DEF TurnInvariant
  <2> QED BY <1>1, <1>2, <2>1, NoCalls DEF TurnInvariant, TurnTypeOK, Utterance, LogEntry
<1>6. TurnFits'
  BY <1>1 DEF TurnInvariant, TurnFits
<1>7. Conversation'
  BY <1>1, <1>2, NothingOwed
<1>8. EntriesFit'
  <2>1. ASSUME NEW k \in 1 .. Len(new)
        PROVE  /\ new[k].step = step /\ new[k].signature = AskUser
               /\ new[k].signature \notin Risky /\ new[k].success = TRUE
    <3>1. new[k] = [step |-> step, call |-> 1, signature |-> AskUser, success |-> TRUE]
      BY <1>3
    <3> QED BY <3>1, BoundsOfTheTurn
  <2>2. \A k \in 1 .. Len(new) : new[k].success
    BY <2>1
  <2>3. step' = step /\ burned' = burned /\ consented \subseteq consented'
    BY <1>1
  <2> QED BY <1>3, <1>4, <1>5, <2>1, <2>2, <2>3, LogKeeps
<1> QED BY <1>5, <1>6, <1>7, <1>8 DEF TurnInvariant

LEMMA TurnStutterKeeps ==
  ASSUME TurnInvariant, UNCHANGED turnVars
  PROVE  TurnInvariant'
<1>1. TurnTypeOK' /\ TurnFits'
  BY DEF turnVars, TurnInvariant, TurnTypeOK, TurnFits, Asks
<1>2. Conversation'
  <2>1. ResultMessages' = ResultMessages
    BY DEF turnVars, ResultMessages, Message
  <2> QED BY <2>1 DEF turnVars, TurnInvariant, Conversation, Answered
<1>3. EntriesFit'
  BY NumbersOfTheTurn, LogStays DEF turnVars
<1> QED BY <1>1, <1>2, <1>3 DEF TurnInvariant

LEMMA TurnInvariantInit ==
  ASSUME TurnInit
  PROVE  TurnInvariant
<1> DEFINE m == [role |-> "user", step |-> 0, n |-> 0]
<1>1. m \in Utterance
  BY BoundsOfTheTurn DEF Utterance, Role
<1>2. /\ messages \in Seq(Utterance) /\ Len(messages) = 1 /\ messages[1] = m
      /\ pending = <<>> /\ entries = <<>> /\ step = 0 /\ spentCny = 0
      /\ turn = "boundary" /\ burned = {} /\ consented = {}
  BY <1>1 DEF TurnInit
<1>3. TurnTypeOK
  BY <1>2, NoCalls, BoundsOfTheTurn DEF TurnTypeOK, Utterance
<1>4. TurnFits
  BY <1>2, BoundsOfTheTurn DEF TurnFits
<1>5. Conversation
  <2>1. ResultMessages = <<>>
    BY <1>2 DEF ResultMessages
  <2>2. messages \o ResultMessages = messages
    BY <1>2, <2>1, ConcatEmptySeq
  <2>3. Answered(messages)
    BY <1>2 DEF Answered
  <2> QED BY <2>2, <2>3 DEF Conversation
<1>6. EntriesFit
  <2>1. ASSUME NEW s, NEW u
        PROVE  FailCount(s, u) = 0
    <3>1. {i \in 1 .. Len(entries) :
             entries[i].signature = s /\ ~entries[i].success /\ entries[i].step <= u} = {}
      BY <1>2
    <3> QED BY <3>1, FS_EmptySet DEF FailCount
  <2>2. BurnedAreKnown
    BY <2>1, BoundsOfTheTurn DEF BurnedAreKnown
  <2> QED BY <1>2, <2>2 DEF EntriesFit, ConsentedEntries, BurnedStaysBurned
<1> QED BY <1>3, <1>4, <1>5, <1>6 DEF TurnInvariant

LEMMA TurnInvariantSuffices ==
  ASSUME TurnInvariant
  PROVE  TurnIsOrderly
<1>1. CallsAreAnswered
  BY NothingOwedYet DEF CallsAreAnswered, TurnInvariant, TurnFits
<1> QED
  BY <1>1
  DEF TurnInvariant, TurnIsOrderly, TurnFits, EntriesFit, ConsentedEntries

\* However a turn goes on - approvals, refusals, interruptions, burned calls,
\* budgets - the model sees every call answered in its place, nothing risky is
\* executed without a yes for this very call, what failed too often is not
\* executed again, and the turn keeps to its steps and its budget: ToolLoop.run,
\* for any tools, batches and limits.
THEOREM TurnsAreOrderly == TurnSpec => []TurnIsOrderly
<1>1. TurnInit => TurnInvariant
  BY TurnInvariantInit
<1>2. TurnInvariant /\ [TurnNext]_turnVars => TurnInvariant'
  BY BoundaryKeeps, CallModelKeeps, ConcludeKeeps, PauseForInputKeeps,
     PauseForApprovalKeeps, RunToolsKeeps, DecideKeeps, RespondKeeps,
     TurnStutterKeeps
  DEF TurnNext
<1>3. TurnInvariant => TurnIsOrderly
  BY TurnInvariantSuffices
<1> QED BY <1>1, <1>2, <1>3, PTL DEF TurnSpec
=============================================================================
