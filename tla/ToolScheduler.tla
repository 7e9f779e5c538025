---------------------------- MODULE ToolScheduler ----------------------------
(***************************************************************************)
(* One batch of tool calls: TaskBuilder has made a task of every call,     *)
(* DependencyResolver validates the graph, and TaskScheduler.run executes  *)
(* it: tasks wait for those they depend on, for the lock of their          *)
(* concurrency group and for one of max_concurrency slots; a failed        *)
(* execution is tried again if the tool allows it; the whole batch may be  *)
(* cancelled while it waits.                                               *)
(*                                                                         *)
(* run() and the tasks it creates are coroutines of one event loop: a step *)
(* here is what one of them does between two awaits that suspend it.       *)
(***************************************************************************)
EXTENDS Naturals, FiniteSets, Sequences

CONSTANTS
  Order,           \* the calls, in the order of the model
  GroupOf,         \* CapabilityDefinition.concurrency_group, or NoGroup
  NoGroup,
  Repeatable,      \* tasks whose tool is read_only or idempotent
  MaxAttempts,     \* CapabilityDefinition.max_attempts
  MaxConcurrency   \* of the scheduler

Task == {Order[i] : i \in 1 .. Len(Order)}

ASSUME SchedulerAssumption ==
  /\ Order \in Seq(Task)
  /\ Repeatable \subseteq Task
  /\ {MaxAttempts, MaxConcurrency} \subseteq Nat \ {0}

VARIABLES
  needs,     \* Task.depends_on
  awaits,    \* Task.optional_depends_on
  phase,     \* what run() is doing
  stage,     \* how far the coroutine of a task is
  current_attempt,   \* Task.current_attempt
  outcome,   \* what a finished coroutine returns
  result     \* results, by task

batchVars == <<needs, awaits, phase, stage, current_attempt, outcome, result>>

Running(t) == stage[t] \in {"launched", "grouped", "executing", "done"}

BatchTypeOK ==
  /\ needs \in [Task -> SUBSET Task]
  /\ awaits \in [Task -> SUBSET Task]
  /\ phase \in {"validate", "plan", "wait", "over", "cancelled", "refused", "stuck"}
  /\ stage \in [Task -> {"new", "launched", "grouped", "executing", "done", "ended"}]
  /\ current_attempt \in [Task -> 0 .. MaxAttempts]
  /\ outcome \in [Task -> {"none", "succeeded", "failed"}]
  /\ result \in [Task -> {"none", "succeeded", "failed", "cancelled"}]

\* The calls of a model may depend on each other in any way.
BatchInit ==
  /\ needs \in [Task -> SUBSET Task]
  /\ awaits \in [Task -> SUBSET Task]
  /\ phase = "validate"
  /\ stage = [t \in Task |-> "new"]
  /\ current_attempt = [t \in Task |-> 0]
  /\ outcome = [t \in Task |-> "none"]
  /\ result = [t \in Task |-> "none"]

-----------------------------------------------------------------------------
\* DependencyResolver.validate: no dependency is both strong and optional, and
\* the tasks can be put in order.
Acyclic ==
  \A group \in SUBSET Task :
    group # {} => \E t \in group : (needs[t] \union awaits[t]) \intersect group = {}

Valid == Acyclic /\ \A t \in Task : needs[t] \intersect awaits[t] = {}

Validate ==
  /\ phase = "validate"
  /\ phase' = IF Valid THEN "plan" ELSE "refused"
  /\ UNCHANGED <<needs, awaits, stage, current_attempt, outcome, result>>

Open(t) == result[t] = "none" /\ stage[t] = "new"

\* Some task it needs has failed, or fails in the same pass and comes before it
\* in the batch.
Doomed ==
  LET doomed[i \in 1 .. Len(Order)] ==
        \E d \in needs[Order[i]] :
          \/ result[d] \in {"failed", "cancelled"}
          \/ \E j \in 1 .. i - 1 : Order[j] = d /\ Open(d) /\ doomed[j]
  IN  {Order[i] : i \in {j \in 1 .. Len(Order) : doomed[j]}}

\* Mutant: dependents of failed tasks are left open.
FailNobody == result

\* A task that has not started fails with the first of its dependencies.
FailDependents == [t \in Task |-> IF Open(t) /\ t \in Doomed THEN "failed" ELSE result[t]]

Ready(t, results) ==
  /\ results[t] = "none"
  /\ stage[t] = "new"
  /\ \A d \in needs[t] : results[d] = "succeeded"
  /\ \A d \in awaits[t] : results[d] # "none"

\* One turn of the loop: dependents of failed tasks fail, ready ones start.
\* Without progress the scheduler raises.
Plan ==
  LET ready == {t \in Task : Ready(t, FailDependents)}
      running == ready \union {t \in Task : Running(t)}
      finished == \A t \in Task : FailDependents[t] # "none"
  IN  /\ phase = "plan"
      /\ result' = FailDependents
      /\ stage' = [t \in Task |-> IF t \in ready THEN "launched" ELSE stage[t]]
      /\ phase' = CASE running # {} -> "wait"
                    [] running = {} /\ finished -> "over"
                    [] running = {} /\ ~finished /\ result' # result -> "plan"
                    [] OTHER -> "stuck"
      /\ UNCHANGED <<needs, awaits, current_attempt, outcome>>

\* asyncio.wait(FIRST_COMPLETED): everything that is done by now.
Collect ==
  LET completed == {t \in Task : stage[t] = "done"}
  IN  /\ phase = "wait"
      /\ completed # {}
      /\ result' = [t \in Task |-> IF t \in completed THEN outcome[t] ELSE result[t]]
      /\ stage' = [t \in Task |-> IF t \in completed THEN "ended" ELSE stage[t]]
      /\ phase' = IF \A t \in Task : result'[t] # "none" THEN "over" ELSE "plan"
      /\ UNCHANGED <<needs, awaits, current_attempt, outcome>>

\* The Run is cancelled: the coroutines are cancelled and awaited, every task
\* without a result gets one.
Cancel ==
  /\ phase = "wait"
  /\ phase' = "cancelled"
  /\ stage' = [t \in Task |-> IF Running(t) THEN "ended" ELSE stage[t]]
  /\ result' = [t \in Task |-> IF result[t] = "none" THEN "cancelled" ELSE result[t]]
  /\ UNCHANGED <<needs, awaits, current_attempt, outcome>>

-----------------------------------------------------------------------------
(* _run_one.                                                               *)

InGroup(t) == stage[t] \in {"grouped", "executing"}

\* The lock of the group first, so that waiting for it holds no slot.
EnterGroup(t) ==
  /\ stage[t] = "launched"
  /\ GroupOf[t] # NoGroup => \A u \in Task \ {t} : GroupOf[u] = GroupOf[t] => ~InGroup(u)
  /\ stage' = [stage EXCEPT ![t] = "grouped"]
  /\ UNCHANGED <<needs, awaits, phase, current_attempt, outcome, result>>

Executing == {t \in Task : stage[t] = "executing"}

TakeSlot(t) ==
  /\ stage[t] = "grouped"
  /\ Cardinality(Executing) < MaxConcurrency
  /\ stage' = [stage EXCEPT ![t] = "executing"]
  /\ current_attempt' = [current_attempt EXCEPT ![t] = 1]
  /\ UNCHANGED <<needs, awaits, phase, outcome, result>>

\* The coroutine returns; slot and lock are released.
Return(t, value) ==
  /\ stage' = [stage EXCEPT ![t] = "done"]
  /\ outcome' = [outcome EXCEPT ![t] = value]
  /\ UNCHANGED <<needs, awaits, phase, current_attempt, result>>

\* Mutant: a transient failure is retried whatever the tool.
ShouldRetryAlways(t, retryable) == retryable /\ current_attempt[t] < MaxAttempts

\* _should_retry.
ShouldRetry(t, retryable) == retryable /\ t \in Repeatable /\ current_attempt[t] < MaxAttempts

\* The tool answers, fails for good, or fails transiently or by timeout.
FinishAttempt(t) ==
  /\ stage[t] = "executing"
  /\ \/ Return(t, "succeeded")
     \/ \E retryable \in BOOLEAN :
          IF ShouldRetry(t, retryable)
          THEN /\ current_attempt' = [current_attempt EXCEPT ![t] = @ + 1]
               /\ UNCHANGED <<needs, awaits, phase, stage, outcome, result>>
          ELSE Return(t, "failed")

TaskStep(t) == EnterGroup(t) \/ TakeSlot(t) \/ FinishAttempt(t)
RunStep == Validate \/ Plan \/ Collect

BatchNext == RunStep \/ Cancel \/ \E t \in Task : TaskStep(t)

BatchSpec == BatchInit /\ [][BatchNext]_batchVars

-----------------------------------------------------------------------------
Over == phase \in {"over", "cancelled", "refused", "stuck"}

\* A batch executes what it should and nothing else: a task only after the
\* tasks it needs have succeeded and the ones it awaits have finished; one task
\* of a group at a time and no more than there are slots; a tool with side
\* effects at most once.  When run() has returned no task is left running, and
\* unless the graph was refused every task has its result.
BatchIsSafe ==
  /\ BatchTypeOK
  /\ \A t \in Task : current_attempt[t] > 0 =>
       /\ \A d \in needs[t] : result[d] = "succeeded"
       /\ \A d \in awaits[t] : result[d] # "none"
       /\ t \in Repeatable \/ current_attempt[t] = 1
  /\ \A t, u \in Task : InGroup(t) /\ InGroup(u) /\ GroupOf[t] = GroupOf[u] =>
       t = u \/ GroupOf[t] = NoGroup
  /\ Cardinality(Executing) <= MaxConcurrency
  /\ Over => \A t \in Task : ~Running(t)
  /\ phase \in {"over", "cancelled"} => \A t \in Task : result[t] # "none"

\* Every graph that is accepted is executed to its end: the scheduler never
\* waits for a lock or a slot that nobody gives back, and never finds itself
\* with open tasks and nothing to do.
BatchEnds == phase = "plan" ~> phase \in {"over", "cancelled"}

=============================================================================
