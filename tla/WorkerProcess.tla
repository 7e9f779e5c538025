--------------------------- MODULE WorkerProcess ---------------------------
(***************************************************************************)
(* The inside of one Worker process (processes/run_worker.py): the loop    *)
(* that reads the assignment stream, the asyncio tasks that handle one     *)
(* entry each, the executions they start, the monitors that listen for     *)
(* cancellations, and the way they all come to an end.                     *)
(*                                                                         *)
(* A coroutine runs from one await to the next in a step of its own.  An   *)
(* entry of the stream is handled by a task, or, when it is found again    *)
(* after trouble with Redis, inline by the loop itself.  A handler is a    *)
(* pair of an entry and the way it is handled.                             *)
(*                                                                         *)
(* Every call of Redis or PostgreSQL may fail; MaxTrouble bounds how often *)
(* that happens in a behaviour.                                            *)
(***************************************************************************)
EXTENDS Naturals, FiniteSets

CONSTANTS
  Attempt,     \* run_attempts assigned to this Worker
  Entry,       \* entries of its stream; an outbox row may be published twice
  AttemptOf,   \* the Attempt an entry is about
  Capacity,    \* RUN_WORKER_CAPACITY
  MaxTrouble

ASSUME WorkerAssumption ==
  /\ AttemptOf \in [Entry -> Attempt]
  /\ Capacity \in Nat \ {0}
  /\ MaxTrouble \in Nat

VARIABLES
  phase,     \* where run_forever is
  shutdown,  \* the event set by the signal handlers and by stop()
  inflight,  \* the tasks in _inflight, by their entries
  inline,    \* the recovered entries still to be handled by the loop
  pc,        \* where each handler is
  entry,     \* the stream and its pending list
  att,       \* the Attempt in the tables, as far as this Worker can tell
  exec,      \* its execution task
  monitor,   \* its _wait_for_cancel task
  asked,     \* a cancellation has been recorded
  control,   \* its control stream: "new" and "pending" entries
  trouble

loopVars == <<phase, inflight, inline>>
taskVars == <<pc, exec, monitor>>
worldVars == <<entry, att, asked, control>>
vars == <<loopVars, shutdown, taskVars, worldVars, trouble>>

Handler == Entry \X {"task", "inline"}
Subject(x) == AttemptOf[x[1]]
Finished == {"done", "redis", "error", "cancelled"}

TypeOK ==
  /\ phase \in {"poll", "reconnect", "inline", "stopping", "cancelling", "offline", "gone"}
  /\ shutdown \in BOOLEAN
  /\ inflight \subseteq Entry
  /\ inline \subseteq Entry
  /\ pc \in [Handler -> {"none", "check", "claim", "group", "attend", "wind", "stop", "await", "quit",
                         "ack"} \union Finished]
  /\ entry \in [Entry -> {"none", "new", "pending", "gone"}]
  /\ att \in [Attempt -> {"none", "assigned", "claimed", "over"}]
  /\ exec \in [Attempt -> {"none", "running", "cancelling", "ended", "raised"}]
  /\ monitor \in [Attempt -> {"none", "listening", "retry", "heard", "failed", "ended"}]
  /\ asked \in [Attempt -> BOOLEAN]
  /\ control \in [Attempt -> SUBSET {"new", "pending"}]
  /\ trouble \in 0 .. MaxTrouble

\* start(): registered, the stream of the new identity is empty.
Init ==
  /\ phase = "poll"
  /\ shutdown = FALSE
  /\ inflight = {}
  /\ inline = {}
  /\ pc = [x \in Handler |-> "none"]
  /\ entry = [e \in Entry |-> "none"]
  /\ att = [a \in Attempt |-> "none"]
  /\ exec = [a \in Attempt |-> "none"]
  /\ monitor = [a \in Attempt |-> "none"]
  /\ asked = [a \in Attempt |-> FALSE]
  /\ control = [a \in Attempt |-> {}]
  /\ trouble = 0

Trouble == trouble < MaxTrouble /\ trouble' = trouble + 1
NoTrouble == trouble' = trouble

-----------------------------------------------------------------------------
(* The tables and the streams, as other processes change them.             *)

Live == {a \in Attempt : att[a] \in {"assigned", "claimed"}}

World == UNCHANGED <<loopVars, shutdown, taskVars, trouble>>

\* A Scheduler assigns an Attempt, while the Worker has not begun to drain.
Assign(a) ==
  /\ att[a] = "none" /\ Cardinality(Live) < Capacity
  /\ phase \in {"poll", "reconnect", "inline"}
  /\ att' = [att EXCEPT ![a] = "assigned"]
  /\ World /\ UNCHANGED <<entry, asked, control>>

\* A Dispatcher publishes the row, or publishes it again.
Publish(e) ==
  /\ entry[e] = "none" /\ att[AttemptOf[e]] = "assigned"
  /\ entry' = [entry EXCEPT ![e] = "new"]
  /\ World /\ UNCHANGED <<att, asked, control>>

\* The lease of an Attempt expired: a Scheduler takes it back.
TakeBack(a) ==
  /\ a \in Live
  /\ att' = [att EXCEPT ![a] = "over"]
  /\ World /\ UNCHANGED <<entry, asked, control>>

\* cancel_run of a claimed Attempt.
Ask(a) ==
  /\ att[a] = "claimed" /\ ~asked[a]
  /\ asked' = [asked EXCEPT ![a] = TRUE]
  /\ World /\ UNCHANGED <<entry, att, control>>

\* Its outbox row stays pending, and is published again, until the Run is
\* cancelled.
PublishCancel(a) ==
  /\ asked[a] /\ att[a] = "claimed" /\ "new" \notin control[a]
  /\ control' = [control EXCEPT ![a] = @ \union {"new"}]
  /\ World /\ UNCHANGED <<entry, att, asked>>

-----------------------------------------------------------------------------
(* run_forever.                                                            *)

Tasks(S) == [x \in Handler |->
  IF x[1] \in S /\ x[2] = "task" THEN "check" ELSE pc[x]]

\* len(_inflight) counts a task until _wait_for_inflight has seen its end.
Ended == {e \in inflight : pc[<<e, "task">>] \in Finished}
Failed == {e \in Ended : pc[<<e, "task">>] \in {"redis", "error"}}
Available == Capacity - Cardinality(inflight)

\* Some of the new entries, as many as there are free slots, are delivered.
Deliver(S) ==
  /\ S \subseteq {e \in Entry : entry[e] = "new"}
  /\ S # {} => Cardinality(S) <= Available
  /\ entry' = [e \in Entry |-> IF e \in S THEN "pending" ELSE entry[e]]
  /\ UNCHANGED <<shutdown, inline, exec, monitor, att, asked, control>>

\* xreadgroup; when the shutdown came while it was blocked, what it delivered
\* is left pending.
Read ==
  /\ phase = "poll" /\ NoTrouble
  /\ \E S \in SUBSET Entry \ {{}} :
       /\ Deliver(S)
       /\ IF shutdown
          THEN phase' = "stopping" /\ UNCHANGED <<pc, inflight>>
          ELSE pc' = Tasks(S) /\ inflight' = inflight \union S /\ UNCHANGED phase

\* The call fails, before or after Redis has delivered; or a ping does, when all
\* slots are taken.
ReadFails ==
  /\ phase = "poll" /\ ~shutdown /\ Trouble
  /\ \E S \in SUBSET Entry : Deliver(S)
  /\ phase' = "reconnect"
  /\ UNCHANGED <<pc, inflight>>

\* All slots are taken: wait for the end of a task.  The exception of a task is
\* raised here and ends the loop.
Reap ==
  /\ phase = "poll" /\ ~shutdown /\ NoTrouble
  /\ Available <= 0 /\ Ended # {}
  /\ IF Failed = {}
     THEN inflight' = inflight \ Ended /\ UNCHANGED phase
     ELSE phase' = "stopping" /\ UNCHANGED inflight
  /\ UNCHANGED <<shutdown, inline, taskVars, worldVars>>

\* The loop ends with the shutdown, or by an error it does not survive: of the
\* heartbeat, or a reply of Redis that is no trouble with the connection.
LeaveLoop ==
  /\ phase = "poll"
  /\ IF shutdown THEN NoTrouble ELSE Trouble
  /\ phase' = "stopping"
  /\ UNCHANGED <<shutdown, inflight, inline, taskVars, worldVars>>

\* One recovered entry after the other is handled by the loop itself.
Inline(S) == \E e \in S : pc' = [x \in Handler |->
  IF x = <<e, "inline">> THEN "check" ELSE IF x[2] = "inline" THEN "none" ELSE pc[x]]

GoInline(S) ==
  /\ inline' = S
  /\ IF S = {} THEN phase' = "poll" /\ UNCHANGED pc ELSE phase' = "inline" /\ Inline(S)

\* _reconnect_assignment_stream: entries that have been pending for longer than
\* RUN_PENDING_IDLE_MS are claimed, those of tasks at work among them.
Reconnect ==
  /\ phase = "reconnect"
  /\ \/ NoTrouble /\ \E S \in SUBSET {e \in Entry : entry[e] = "pending"} : GoInline(S)
     \/ Trouble /\ GoInline({})
  /\ UNCHANGED <<shutdown, inflight, exec, monitor, worldVars>>

\* The entry the loop is at has been handled.  Trouble with Redis ends the
\* recovery, any other exception the loop.
NextInline ==
  /\ phase = "inline" /\ NoTrouble
  /\ \E e \in inline :
       CASE pc[<<e, "inline">>] = "done"  -> GoInline(inline \ {e})
         [] pc[<<e, "inline">>] = "redis" -> GoInline({})
         [] pc[<<e, "inline">>] = "error" -> phase' = "stopping" /\ inline' = {} /\ UNCHANGED pc
         [] OTHER -> FALSE
  /\ UNCHANGED <<shutdown, inflight, exec, monitor, worldVars>>

RequestShutdown ==
  /\ ~shutdown
  /\ shutdown' = TRUE
  /\ UNCHANGED <<loopVars, taskVars, worldVars, trouble>>

-----------------------------------------------------------------------------
(* handle_assignment and _execute_with_cancel_control.                     *)

Goto(x, where) == pc' = [pc EXCEPT ![x] = where]
Execution(x, state) == exec' = [exec EXCEPT ![Subject(x)] = state]
AtWork == UNCHANGED <<loopVars, shutdown, asked, control>>

\* Mutant: the entry is acknowledged on the way out.
CheckAcknowledging(x) ==
  /\ pc[x] = "check"
  /\ Goto(x, IF shutdown THEN "ack" ELSE "claim")
  /\ NoTrouble /\ AtWork /\ UNCHANGED <<exec, monitor, entry, att>>

Check(x) ==
  /\ pc[x] = "check"
  /\ Goto(x, IF shutdown THEN "done" ELSE "claim")
  /\ NoTrouble /\ AtWork /\ UNCHANGED <<exec, monitor, entry, att>>

\* AttemptService.claim: refused when the Attempt is claimed, taken back or over.
ClaimAttempt(x) ==
  /\ pc[x] = "claim"
  /\ IF att[Subject(x)] = "assigned"
     THEN att' = [att EXCEPT ![Subject(x)] = "claimed"] /\ Goto(x, "group")
     ELSE Goto(x, "ack") /\ UNCHANGED att
  /\ NoTrouble /\ AtWork /\ UNCHANGED <<exec, monitor, entry>>

\* The group of the control stream; then execution and monitor are started.
StartExecution(x) ==
  /\ pc[x] = "group"
  /\ Goto(x, "attend")
  /\ Execution(x, "running")
  /\ monitor' = [monitor EXCEPT ![Subject(x)] = "listening"]
  /\ NoTrouble /\ AtWork /\ UNCHANGED <<entry, att>>

\* The database or Redis fails a handler; an acknowledgement may have had its
\* effect.
HandlerFails(x) ==
  /\ pc[x] \in {"claim", "group", "ack"}
  /\ Goto(x, IF pc[x] = "claim" THEN "error" ELSE "redis")
  /\ entry' \in {entry, [entry EXCEPT ![x[1]] = IF pc[x] = "ack" THEN "gone" ELSE @]}
  /\ Trouble /\ AtWork /\ UNCHANGED <<exec, monitor, att>>

\* Mutant: the end of the monitor is taken for the end of the execution.
AfterListeningDone == [failed |-> "redis", ended |-> "ack"]

\* What the handler does when the monitor is done without a cancellation: its
\* error is raised, the end of listening is not the end of the execution.
AfterListening == [failed |-> "redis", ended |-> "await"]

\* asyncio.wait({execution, control}, FIRST_COMPLETED)
Attend(x) ==
  LET a == Subject(x)
      over == exec[a] \in {"ended", "raised"}
      listener == monitor[a]
  IN  /\ pc[x] = "attend"
      /\ \/ /\ over
            /\ Goto(x, IF listener = "failed" THEN "redis"
                       ELSE IF exec[a] = "raised" THEN "error" ELSE "ack")
            /\ monitor' = [monitor EXCEPT ![a] = IF @ = "failed" THEN @ ELSE "ended"]
            /\ UNCHANGED exec
         \* request_cancel(): the executor knows the Attempt, or not
         \/ /\ ~over /\ listener = "heard"
            /\ \/ Goto(x, "wind") /\ UNCHANGED exec
               \/ Goto(x, "stop") /\ Execution(x, "cancelling")
            /\ UNCHANGED monitor
         \/ /\ ~over /\ listener \in DOMAIN AfterListening
            /\ Goto(x, AfterListening[listener])
            /\ UNCHANGED <<exec, monitor>>
      /\ NoTrouble /\ AtWork /\ UNCHANGED <<entry, att>>

\* Mutant: the executor is asked, and that is all.
WindUpWaiting(x) ==
  /\ pc[x] = "wind" /\ exec[Subject(x)] \in {"ended", "raised"}
  /\ Goto(x, IF exec[Subject(x)] = "ended" THEN "ack" ELSE "error")
  /\ NoTrouble /\ AtWork /\ UNCHANGED <<exec, monitor, entry, att>>

\* The executor is given the grace period to wind up, then it is cancelled.
WindUp(x) ==
  /\ pc[x] = "wind"
  /\ CASE exec[Subject(x)] = "ended"   -> Goto(x, "ack") /\ UNCHANGED exec
       [] exec[Subject(x)] = "raised"  -> Goto(x, "error") /\ UNCHANGED exec
       [] exec[Subject(x)] = "running" -> Goto(x, "stop") /\ Execution(x, "cancelling")
  /\ NoTrouble /\ AtWork /\ UNCHANGED <<monitor, entry, att>>

\* acknowledge_cancel, when the cancelled execution has come to its end.
AcknowledgeCancel(x) ==
  /\ pc[x] = "stop"
  /\ exec[Subject(x)] = "ended"
  /\ att' = [att EXCEPT ![Subject(x)] = "over"]
  /\ Goto(x, "ack")
  /\ NoTrouble /\ AtWork /\ UNCHANGED <<exec, monitor, entry>>

AwaitExecution(x) ==
  /\ pc[x] \in {"await", "quit"}
  /\ exec[Subject(x)] \in {"ended", "raised"}
  /\ Goto(x, IF exec[Subject(x)] = "raised" THEN "error"
             ELSE IF pc[x] = "quit" THEN "cancelled" ELSE "ack")
  /\ NoTrouble /\ AtWork /\ UNCHANGED <<exec, monitor, entry, att>>

\* acknowledge_and_delete of the entry.
AckEntry(x) ==
  /\ pc[x] = "ack"
  /\ entry' = [entry EXCEPT ![x[1]] = "gone"]
  /\ Goto(x, "done")
  /\ NoTrouble /\ AtWork /\ UNCHANGED <<exec, monitor, att>>

HandlerStep(x) ==
  \/ Check(x) \/ ClaimAttempt(x) \/ StartExecution(x) \/ Attend(x) \/ WindUp(x)
  \/ AcknowledgeCancel(x) \/ AwaitExecution(x) \/ AckEntry(x) \/ HandlerFails(x)

-----------------------------------------------------------------------------
(* The execution, as a task: RunChatWorker.execute_assignment.             *)

\* It tells the control plane its outcome, or gives up without one.
ExecutionEnds(a) ==
  /\ exec[a] = "running"
  /\ exec' = [exec EXCEPT ![a] = "ended"]
  /\ att' \in {att, [att EXCEPT ![a] = "over"]}
  /\ UNCHANGED <<loopVars, shutdown, pc, monitor, entry, asked, control, trouble>>

\* A command of an Attempt that is no longer its own is rejected.
ExecutionRaises(a) ==
  /\ exec[a] = "running"
  /\ att[a] = "over"
  /\ exec' = [exec EXCEPT ![a] = "raised"]
  /\ UNCHANGED <<loopVars, shutdown, pc, monitor, worldVars, trouble>>

ExecutionIsCancelled(a) ==
  /\ exec[a] = "cancelling"
  /\ exec' = [exec EXCEPT ![a] = "ended"]
  /\ UNCHANGED <<loopVars, shutdown, pc, monitor, worldVars, trouble>>

-----------------------------------------------------------------------------
(* _wait_for_cancel.                                                       *)

Listening(a) == monitor[a] \in {"listening", "retry"}

Monitor(a, state, stream) ==
  /\ monitor' = [monitor EXCEPT ![a] = state]
  /\ control' = [control EXCEPT ![a] = stream]
  /\ UNCHANGED <<loopVars, shutdown, pc, exec, entry, att, asked>>

\* A cancellation is delivered and acknowledged; trouble with the second of
\* these is not caught.
MonitorReads(a) ==
  /\ monitor[a] = "listening"
  /\ "new" \in control[a]
  /\ \/ NoTrouble /\ Monitor(a, "heard", control[a] \ {"new"})
     \/ Trouble /\ Monitor(a, "failed", {"pending"})

MonitorReadFails(a) ==
  /\ monitor[a] = "listening"
  /\ Trouble
  /\ \E stream \in {control[a], IF "new" \in control[a] THEN {"pending"} ELSE control[a]} :
       Monitor(a, "retry", stream)

\* _reconnect_control claims what has been pending long enough.
MonitorReconnects(a) ==
  /\ monitor[a] = "retry"
  /\ \/ /\ "pending" \in control[a]
        /\ NoTrouble
        /\ Monitor(a, "heard", control[a] \ {"pending"})
     \/ NoTrouble /\ Monitor(a, "listening", control[a])

MonitorEnds(a) ==
  /\ Listening(a)
  /\ shutdown
  /\ NoTrouble
  /\ Monitor(a, "ended", control[a])

MonitorStep(a) ==
  MonitorReads(a) \/ MonitorReadFails(a) \/ MonitorReconnects(a) \/ MonitorEnds(a)

-----------------------------------------------------------------------------
(* stop().                                                                 *)

AtWorkStill == {x \in Handler : /\ x[1] \in inflight
                                /\ x[2] = "task"
                                /\ pc[x] \notin Finished}

\* The event is set first, whatever made the loop end.
BeginStop ==
  /\ phase = "stopping"
  /\ ~shutdown
  /\ shutdown' = TRUE
  /\ UNCHANGED <<loopVars, taskVars, worldVars, trouble>>

\* What becomes of a task that is cancelled at its await.
WhenCancelled ==
  [none |-> "none", check |-> "cancelled", claim |-> "cancelled", group |-> "cancelled",
   attend |-> "cancelled", wind |-> "quit", stop |-> "stop", await |-> "quit",
   quit |-> "quit", ack |-> "cancelled"]

\* Mutant: the executions are shielded.
AwaitedShielded == {}

\* The executions that are cancelled with the task that awaits them.
Awaited == {Subject(x) : x \in {y \in AtWorkStill : pc[y] \in {"wind", "await"}}}

\* The grace period is over.  It is long enough for the monitors to notice the
\* shutdown and for the tasks to go on, unless Redis keeps a monitor waiting.
GraceEnds ==
  /\ phase = "stopping" /\ shutdown
  /\ AtWorkStill # {}
  /\ \A x \in AtWorkStill : pc[x] = "attend" => Listening(Subject(x))
  /\ IF \E x \in AtWorkStill : pc[x] = "attend" THEN Trouble ELSE NoTrouble
  /\ phase' = "cancelling"
  /\ pc' = [x \in Handler |-> IF x \in AtWorkStill THEN WhenCancelled[pc[x]] ELSE pc[x]]
  /\ exec' = [a \in Attempt |->
       IF exec[a] = "running" /\ a \in Awaited THEN "cancelling" ELSE exec[a]]
  \* a claim or an acknowledgement may have been under way
  /\ \E S \in SUBSET {x \in AtWorkStill : pc[x] \in {"claim", "ack"}} :
       /\ att' = [a \in Attempt |->
            IF att[a] = "assigned" /\ \E x \in S : pc[x] = "claim" /\ Subject(x) = a
            THEN "claimed" ELSE att[a]]
       /\ entry' = [e \in Entry |->
            IF <<e, "task">> \in S /\ pc[<<e, "task">>] = "ack" THEN "gone" ELSE entry[e]]
  /\ UNCHANGED <<inflight, inline, shutdown, monitor, asked, control>>

\* mark_offline, when no task is left.
GoOffline ==
  /\ phase \in {"stopping", "cancelling"} /\ shutdown
  /\ AtWorkStill = {}
  /\ phase' = "offline"
  /\ UNCHANGED <<inflight, inline, shutdown, taskVars, worldVars, trouble>>

\* asyncio.run cancels what is left and the process ends.
Exit ==
  /\ phase = "offline"
  /\ phase' = "gone"
  /\ exec' = [a \in Attempt |-> IF exec[a] = "none" THEN "none" ELSE "ended"]
  /\ monitor' = [a \in Attempt |-> IF Listening(a) THEN "ended" ELSE monitor[a]]
  /\ UNCHANGED <<inflight, inline, shutdown, pc, worldVars, trouble>>

LoopStep ==
  \/ Read \/ ReadFails \/ Reap \/ LeaveLoop \/ Reconnect \/ NextInline
  \/ BeginStop \/ GraceEnds \/ GoOffline \/ Exit

Next ==
  \/ LoopStep \/ RequestShutdown
  \/ \E x \in Handler : HandlerStep(x)
  \/ \E a \in Attempt :
       \/ Assign(a) \/ TakeBack(a) \/ Ask(a) \/ PublishCancel(a)
       \/ ExecutionEnds(a) \/ ExecutionRaises(a) \/ ExecutionIsCancelled(a)
       \/ MonitorStep(a)
  \/ \E e \in Entry : Publish(e)

Spec == Init /\ [][Next]_vars

\* The event loop runs every task that can go on, and Dispatchers publish again
\* what has had no effect.  Nothing makes an execution end by itself, and no
\* user needs to shut the process down.
Fairness ==
  /\ WF_vars(LoopStep)
  /\ \A x \in Handler : WF_vars(HandlerStep(x))
  /\ \A a \in Attempt :
       WF_vars(ExecutionIsCancelled(a)) /\ WF_vars(MonitorStep(a)) /\ WF_vars(PublishCancel(a))

FairSpec == Spec /\ Fairness

-----------------------------------------------------------------------------
\* An assignment leaves the stream only when its Attempt was claimed or taken
\* back: neither the shutdown nor trouble with Redis, a cancelled task nor a
\* duplicate loses one that still has to be executed.
NothingDroppedUnclaimed ==
  /\ TypeOK
  /\ \A e \in Entry : entry[e] = "gone" => att[AttemptOf[e]] # "assigned"

\* While the process works, no execution is left alone except by the failure of
\* its monitor; a stop leaves one alone only if Redis kept the monitor from
\* noticing.  What is left alone is not heard of again by this process.
Attended(a) ==
  \E x \in Handler : Subject(x) = a /\ pc[x] \in {"attend", "wind", "stop", "await", "quit"}

OrphansExplained ==
  \A a \in Attempt :
    exec[a] \in {"running", "cancelling"} /\ ~Attended(a) =>
      \/ monitor[a] = "failed"
      \/ shutdown /\ phase \in {"cancelling", "offline"} /\ trouble > 0

\* An execution the loop itself attends to.
Blocked == \E e \in inline : /\ pc[<<e, "inline">>] \in {"attend", "await"}
                             /\ exec[AttemptOf[e]] = "running"

\* A shutdown ends the process, however long its executions take, except the one
\* it handles inline.
StopsUnlessInline == shutdown ~> (phase = "gone" \/ Blocked)

\* An execution that a user cancels is stopped even when it does not react:
\* unless its monitor failed, or it is handled inline during a shutdown.
CancelStopsExecution ==
  \A a \in Attempt :
    asked[a] /\ exec[a] = "running" ~>
      \/ exec[a] # "running" \/ monitor[a] = "failed"
      \/ att[a] = "over"
      \/ (shutdown /\ Blocked)

=============================================================================
