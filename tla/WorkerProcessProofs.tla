------------------------ MODULE WorkerProcessProofs ------------------------
(***************************************************************************)
(* Proofs about WorkerProcess, for any Attempts, any entries, any capacity *)
(* and any number of faults.                                               *)
(*                                                                         *)
(* An assignment is claimed before anything is acknowledged (ClaimsFit),   *)
(* and by one handler, which alone starts and awaits its execution         *)
(* (OneHandler, ExecutionsFit): so an execution is left alone only when    *)
(* this handler leaves it.  That handlers are not started over in the      *)
(* middle of their work is a matter of the entries: a task is started for  *)
(* a new entry only, and the loop handles one recovered entry at a time    *)
(* (HandlersFit).                                                          *)
(***************************************************************************)
EXTENDS WorkerProcess, TLAPS

Claimed == {"claimed", "over"}
Attending == {"attend", "wind", "stop", "await", "quit"}
Busy == Attending \union {"group"}
Alive == {"running", "cancelling"}

\* Who works for an Attempt, or is about to acknowledge its entry, knows that
\* it is no longer to be claimed; so do those who left nothing in the stream.
ClaimsFit ==
  /\ \A x \in Handler : pc[x] \in Busy \union {"ack"} => att[Subject(x)] \in Claimed
  /\ \A e \in Entry : entry[e] = "gone" => att[AttemptOf[e]] \in Claimed

\* What is published was assigned.
PublishedIsAssigned == \A e \in Entry : entry[e] # "none" => att[AttemptOf[e]] # "none"

\* One handler works for an Attempt, however often its entry was published.
OneHandler ==
  \A x, y \in Handler :
    Subject(x) = Subject(y) /\ pc[x] \in Busy /\ pc[y] \in Busy => x = y

\* An execution is started once, after the claim, and is not yet cancelled when
\* its executor is given time.
ExecutionsFit ==
  /\ \A a \in Attempt : exec[a] # "none" => att[a] \in Claimed
  /\ \A x \in Handler :
       /\ pc[x] = "group" => exec[Subject(x)] = "none"
       /\ pc[x] \in Attending => exec[Subject(x)] # "none"
       /\ pc[x] \in {"attend", "wind"} => exec[Subject(x)] # "cancelling"

Idle == {"none"} \union Finished

\* An entry that was not delivered is handled by nobody; the loop is at one
\* recovered entry while it is at any, and at none otherwise.
HandlersFit ==
  /\ \A e \in Entry : entry[e] \in {"none", "new"} =>
       pc[<<e, "task">>] = "none" /\ pc[<<e, "inline">>] = "none" /\ e \notin inline
  /\ phase # "inline" => \A e \in Entry : pc[<<e, "inline">>] \in Idle
  /\ phase = "inline" => \A e, f \in Entry :
       pc[<<e, "inline">>] # "none" /\ pc[<<f, "inline">>] # "none" => e = f

WorkerInvariant ==
  /\ TypeOK /\ ClaimsFit /\ PublishedIsAssigned
  /\ OneHandler /\ ExecutionsFit /\ HandlersFit /\ OrphansExplained

-----------------------------------------------------------------------------
LEMMA HandlerIsPair ==
  ASSUME NEW x \in Handler
  PROVE  /\ x[1] \in Entry /\ x[2] \in {"task", "inline"} /\ x = <<x[1], x[2]>>
         /\ Subject(x) \in Attempt
  BY WorkerAssumption DEF Handler, Subject

LEMMA PairIsHandler ==
  ASSUME NEW e \in Entry
  PROVE  /\ <<e, "task">> \in Handler /\ <<e, "inline">> \in Handler
         /\ <<e, "task">>[1] = e /\ <<e, "inline">>[1] = e
         /\ <<e, "task">>[2] = "task" /\ <<e, "inline">>[2] = "inline"
         /\ <<e, "task">> # <<e, "inline">>
         /\ Subject(<<e, "task">>) = AttemptOf[e] /\ Subject(<<e, "inline">>) = AttemptOf[e]
  BY DEF Handler, Subject

-----------------------------------------------------------------------------
(* What each part of the invariant needs of a step.                        *)

LEMMA ClaimsLast ==
  ASSUME ClaimsFit,
         \A a \in Attempt : att[a] \in Claimed => att'[a] \in Claimed,
         \A x \in Handler : pc'[x] \in Busy \union {"ack"} =>
           pc[x] \in Busy \union {"ack"} \/ att'[Subject(x)] \in Claimed,
         \A e \in Entry : entry'[e] = "gone" =>
           entry[e] = "gone" \/ att'[AttemptOf[e]] \in Claimed
  PROVE  ClaimsFit'
<1>1. ASSUME NEW x \in Handler, pc'[x] \in Busy \union {"ack"}
      PROVE  att'[Subject(x)] \in Claimed
  BY <1>1, HandlerIsPair DEF ClaimsFit
<1>2. ASSUME NEW e \in Entry, entry'[e] = "gone"
      PROVE  att'[AttemptOf[e]] \in Claimed
  BY <1>2, WorkerAssumption DEF ClaimsFit
<1> QED BY <1>1, <1>2 DEF ClaimsFit, Subject

LEMMA PublishedLasts ==
  ASSUME PublishedIsAssigned,
         \A a \in Attempt : att[a] # "none" => att'[a] # "none",
         \A e \in Entry : entry'[e] # "none" => entry[e] # "none" \/ att[AttemptOf[e]] # "none"
  PROVE  PublishedIsAssigned'
  BY WorkerAssumption DEF PublishedIsAssigned

LEMMA OneHandlerLasts ==
  ASSUME OneHandler,
         \A x \in Handler : pc'[x] \in Busy => pc[x] \in Busy
  PROVE  OneHandler'
  BY DEF OneHandler, Subject

LEMMA ExecutionsLast ==
  ASSUME ExecutionsFit,
         \A a \in Attempt : att[a] \in Claimed => att'[a] \in Claimed,
         \A a \in Attempt : exec'[a] # exec[a] =>
           exec[a] # "none" /\ exec'[a] \notin {"none", "cancelling"},
         \A x \in Handler : pc'[x] \in Busy =>
           pc'[x] = pc[x] \/ (exec'[Subject(x)] # "none" /\ pc'[x] \notin {"group", "attend", "wind"})
  PROVE  ExecutionsFit'
<1>1. \A a \in Attempt : exec'[a] # "none" => att'[a] \in Claimed
  BY DEF ExecutionsFit
<1>2. ASSUME NEW x \in Handler
      PROVE  /\ pc'[x] = "group" => exec'[Subject(x)] = "none"
             /\ pc'[x] \in Attending => exec'[Subject(x)] # "none"
             /\ pc'[x] \in {"attend", "wind"} => exec'[Subject(x)] # "cancelling"
  <2>1. Subject(x) \in Attempt
    BY HandlerIsPair
  <2> QED BY <2>1 DEF ExecutionsFit, Busy, Attending
<1> QED BY <1>1, <1>2 DEF ExecutionsFit, Subject

\* A stop that was held up by Redis.
HeldUp == shutdown /\ phase \in {"cancelling", "offline"} /\ trouble > 0

LEMMA OrphansLast ==
  ASSUME OrphansExplained,
         HeldUp => HeldUp',
         \A a \in Attempt : exec'[a] \in Alive =>
           \/ Attended(a)'
           \/ HeldUp'
           \/ monitor'[a] = "failed"
           \/ /\ exec[a] \in Alive /\ ~Attended(a)
              /\ monitor[a] = "failed" => monitor'[a] = "failed"
  PROVE  OrphansExplained'
<1> SUFFICES ASSUME NEW a \in Attempt, exec'[a] \in Alive, ~Attended(a)'
             PROVE  monitor'[a] = "failed" \/ HeldUp'
  BY DEF OrphansExplained, Alive, HeldUp
<1> QED BY DEF OrphansExplained, Alive, HeldUp

\* The handlers and their executions do not move.
LEMMA HandlersRest ==
  ASSUME WorkerInvariant, TypeOK', UNCHANGED <<pc, exec, phase, inline>>,
         HeldUp => HeldUp',
         \A a \in Attempt : att[a] \in Claimed => att'[a] \in Claimed,
         \A a \in Attempt : att[a] # "none" => att'[a] # "none",
         \A e \in Entry : entry'[e] # "none" => entry[e] # "none" \/ att[AttemptOf[e]] # "none",
         \A a \in Attempt : monitor[a] = "failed" => monitor'[a] = "failed",
         \A e \in Entry : entry'[e] = "gone" => entry[e] = "gone",
         \A e \in Entry : entry'[e] \in {"none", "new"} => entry[e] \in {"none", "new"}
  PROVE  WorkerInvariant'
<1>1. ClaimsFit'
  BY ClaimsLast DEF WorkerInvariant
<1>2. OneHandler'
  BY OneHandlerLasts DEF WorkerInvariant
<1>3. ExecutionsFit'
  <2>1. ExecutionsFit /\ exec' = exec /\ pc' = pc
    BY DEF WorkerInvariant
  <2>2. \A a \in Attempt : exec'[a] # exec[a] =>
          exec[a] # "none" /\ exec'[a] \notin {"none", "cancelling"}
    BY <2>1
  <2>3. \A x \in Handler : pc'[x] \in Busy =>
          pc'[x] = pc[x] \/ (exec'[Subject(x)] # "none" /\ pc'[x] \notin {"group", "attend", "wind"})
    BY <2>1
  <2> QED BY <2>1, <2>2, <2>3, ExecutionsLast
<1>4. HandlersFit'
  BY DEF WorkerInvariant, HandlersFit, Idle, Finished
<1>5. \A a \in Attempt : Attended(a)' <=> Attended(a)
  BY DEF Attended, Subject
<1>6. OrphansExplained'
  BY <1>5, OrphansLast DEF WorkerInvariant
<1>7. PublishedIsAssigned'
  BY PublishedLasts DEF WorkerInvariant
<1> QED BY <1>1, <1>2, <1>3, <1>4, <1>6, <1>7 DEF WorkerInvariant

-----------------------------------------------------------------------------
(* The tables and the streams.                                             *)

LEMMA WorldMoves ==
  ASSUME WorkerInvariant,
         NEW a \in Attempt, Assign(a) \/ TakeBack(a) \/ Ask(a) \/ PublishCancel(a)
  PROVE  WorkerInvariant'
<1>1. TypeOK
  BY DEF WorkerInvariant
<1>2. /\ UNCHANGED <<pc, exec, phase, monitor, shutdown, trouble, inflight, inline>>
      /\ entry' = entry
  BY DEF Assign, TakeBack, Ask, PublishCancel, World, loopVars, taskVars
<1>3. \/ att' = att
      \/ att[a] = "none" /\ att' = [att EXCEPT ![a] = "assigned"]
      \/ att' = [att EXCEPT ![a] = "over"]
  BY DEF Assign, TakeBack, Ask, PublishCancel
<1>4. att' \in [Attempt -> {"none", "assigned", "claimed", "over"}]
  BY <1>1, <1>3 DEF TypeOK
<1>5. asked' \in [Attempt -> BOOLEAN]
  BY <1>1 DEF TypeOK, Assign, TakeBack, Ask, PublishCancel
<1>6. control' \in [Attempt -> SUBSET {"new", "pending"}]
  BY <1>1 DEF TypeOK, Assign, TakeBack, Ask, PublishCancel
<1>7. TypeOK'
  BY <1>1, <1>2, <1>4, <1>5, <1>6 DEF TypeOK
<1>8. /\ \A b \in Attempt : att[b] \in Claimed => att'[b] \in Claimed
      /\ \A b \in Attempt : att[b] # "none" => att'[b] # "none"
  BY <1>1, <1>3 DEF TypeOK, Claimed
<1>9. HeldUp => HeldUp'
  BY <1>2 DEF HeldUp
<1> QED BY <1>2, <1>7, <1>8, <1>9, HandlersRest

LEMMA PublishKeeps ==
  ASSUME WorkerInvariant, NEW e \in Entry, Publish(e)
  PROVE  WorkerInvariant'
<1>1. TypeOK
  BY DEF WorkerInvariant
<1>2. /\ UNCHANGED <<pc, exec, phase, monitor, shutdown, trouble, inflight, inline, att, asked, control>>
      /\ entry[e] = "none" /\ entry' = [entry EXCEPT ![e] = "new"]
      /\ att[AttemptOf[e]] = "assigned"
  BY DEF Publish, World, loopVars, taskVars
<1>3. TypeOK'
  BY <1>1, <1>2 DEF TypeOK
<1>4. /\ \A f \in Entry : entry'[f] = "gone" => entry[f] = "gone"
      /\ \A f \in Entry : entry'[f] \in {"none", "new"} => entry[f] \in {"none", "new"}
      /\ \A f \in Entry : entry'[f] # "none" => entry[f] # "none" \/ att[AttemptOf[f]] # "none"
  BY <1>1, <1>2 DEF TypeOK
<1>5. HeldUp => HeldUp'
  BY <1>2 DEF HeldUp
<1> QED BY <1>2, <1>3, <1>4, <1>5, HandlersRest

-----------------------------------------------------------------------------
(* The executions and the monitors.                                        *)

LEMMA ExecutionMoves ==
  ASSUME WorkerInvariant, NEW a \in Attempt,
         ExecutionEnds(a) \/ ExecutionRaises(a) \/ ExecutionIsCancelled(a)
  PROVE  WorkerInvariant'
<1>1. /\ TypeOK /\ ClaimsFit /\ PublishedIsAssigned
      /\ OneHandler /\ ExecutionsFit /\ HandlersFit /\ OrphansExplained
  BY DEF WorkerInvariant
<1>2. /\ UNCHANGED <<pc, phase, monitor, shutdown, trouble, inflight, inline, entry, asked, control>>
      /\ exec[a] \in Alive
      /\ \E end \in {"ended", "raised"} : exec' = [exec EXCEPT ![a] = end]
      /\ att' = att \/ att' = [att EXCEPT ![a] = "over"]
  BY DEF ExecutionEnds, ExecutionRaises, ExecutionIsCancelled, loopVars, worldVars, Alive
<1>3. TypeOK'
  BY <1>1, <1>2 DEF TypeOK
<1>4. /\ \A b \in Attempt : att[b] \in Claimed => att'[b] \in Claimed
      /\ \A b \in Attempt : att[b] # "none" => att'[b] # "none"
  BY <1>1, <1>2 DEF TypeOK, Claimed
<1>5. /\ \A b \in Attempt : exec'[b] # exec[b] =>
           exec[b] # "none" /\ exec'[b] \notin {"none", "cancelling"}
      /\ \A b \in Attempt : exec'[b] \in Alive => exec[b] \in Alive
  BY <1>1, <1>2 DEF TypeOK, Alive
<1>6. ClaimsFit'
  BY <1>1, <1>2, <1>4, ClaimsLast
<1>7. OneHandler'
  BY <1>1, <1>2, OneHandlerLasts
<1>8. ExecutionsFit'
  BY <1>1, <1>2, <1>4, <1>5, ExecutionsLast
<1>9. HandlersFit'
  BY <1>1, <1>2 DEF HandlersFit
<1>10. OrphansExplained'
  <2>1. \A b \in Attempt : Attended(b)' <=> Attended(b)
    BY <1>2 DEF Attended, Subject
  <2>2. HeldUp => HeldUp'
    BY <1>2 DEF HeldUp
  <2> QED BY <1>1, <1>2, <1>5, <2>1, <2>2, OrphansLast
<1>11. PublishedIsAssigned'
  BY <1>1, <1>2, <1>4, PublishedLasts
<1> QED BY <1>3, <1>6, <1>7, <1>8, <1>9, <1>10, <1>11 DEF WorkerInvariant

LEMMA TroubleIsCounted ==
  ASSUME TypeOK, Trouble \/ NoTrouble
  PROVE  trouble' \in 0 .. MaxTrouble /\ (trouble > 0 => trouble' > 0) /\ (Trouble => trouble' > 0)
  BY WorkerAssumption DEF TypeOK, Trouble, NoTrouble

LEMMA MonitorMoves ==
  ASSUME WorkerInvariant, NEW a \in Attempt, MonitorStep(a)
  PROVE  WorkerInvariant'
<1>1. TypeOK
  BY DEF WorkerInvariant
<1>2. PICK state \in {"listening", "retry", "heard", "failed", "ended"},
           left \in SUBSET {"new", "pending"} :
        Monitor(a, state, left) /\ Listening(a) /\ (Trouble \/ NoTrouble)
  <2>1. control[a] \in SUBSET {"new", "pending"}
    BY <1>1 DEF TypeOK
  <2>2. CASE MonitorReads(a)
    BY <2>1, <2>2 DEF MonitorReads, Listening
  <2>3. CASE MonitorReadFails(a)
    BY <2>1, <2>3 DEF MonitorReadFails, Listening
  <2>4. CASE MonitorReconnects(a)
    BY <2>1, <2>4 DEF MonitorReconnects, Listening
  <2>5. CASE MonitorEnds(a)
    BY <2>1, <2>5 DEF MonitorEnds
  <2> QED BY <2>2, <2>3, <2>4, <2>5 DEF MonitorStep
<1>3. /\ UNCHANGED <<pc, phase, exec, shutdown, inflight, inline, entry, att, asked>>
      /\ monitor[a] # "failed"
      /\ monitor' = [monitor EXCEPT ![a] = state]
      /\ control' = [control EXCEPT ![a] = left]
  BY <1>2 DEF Monitor, Listening, loopVars
<1>4. trouble' \in 0 .. MaxTrouble /\ (trouble > 0 => trouble' > 0)
  BY <1>1, <1>2, TroubleIsCounted
<1>5. TypeOK'
  BY <1>1, <1>3, <1>4 DEF TypeOK
<1>6. HeldUp => HeldUp'
  BY <1>3, <1>4 DEF HeldUp
<1>7. \A b \in Attempt : monitor[b] = "failed" => monitor'[b] = "failed"
  BY <1>1, <1>3 DEF TypeOK
<1> QED BY <1>3, <1>5, <1>6, <1>7, HandlersRest

-----------------------------------------------------------------------------
(* The handlers.                                                           *)

\* A handler at work takes a step; the world follows in what concerns its
\* Attempt.
LEMMA HandlerMoves ==
  ASSUME WorkerInvariant, TypeOK', NEW x \in Handler, NEW where,
         pc[x] \notin Idle, where # "none", pc' = [pc EXCEPT ![x] = where],
         UNCHANGED <<phase, shutdown, inline>>, trouble > 0 => trouble' > 0,
         \A b \in Attempt : att[b] \in Claimed => att'[b] \in Claimed,
         \A b \in Attempt : att[b] # "none" => att'[b] # "none",
         \/ entry' = entry
         \/ entry' = [entry EXCEPT ![x[1]] = "gone"] /\ att[Subject(x)] \in Claimed,
         where \in Busy \union {"ack"} => att'[Subject(x)] \in Claimed,
         where \in Busy => pc[x] \in Busy \/ att[Subject(x)] = "assigned",
         \A b \in Attempt \ {Subject(x)} : exec'[b] = exec[b] /\ monitor'[b] = monitor[b],
         exec' = exec \/ pc[x] \in Busy,
         exec'[Subject(x)] # "none" => att'[Subject(x)] \in Claimed,
         where = "group" => exec'[Subject(x)] = "none",
         where \in Attending => exec'[Subject(x)] # "none",
         where \in {"attend", "wind"} => exec'[Subject(x)] # "cancelling",
         exec'[Subject(x)] \in Alive =>
           \/ where \in Attending
           \/ monitor'[Subject(x)] = "failed"
           \/ pc[x] \notin Attending /\ exec' = exec /\ monitor' = monitor
  PROVE  WorkerInvariant'
<1> DEFINE a == Subject(x)
<1>1. /\ TypeOK /\ ClaimsFit /\ PublishedIsAssigned
      /\ OneHandler /\ ExecutionsFit /\ HandlersFit /\ OrphansExplained
      /\ a \in Attempt /\ x[1] \in Entry /\ AttemptOf[x[1]] = a
  BY HandlerIsPair DEF WorkerInvariant, Subject
<1>2. pc'[x] = where /\ \A y \in Handler \ {x} : pc'[y] = pc[y]
  BY <1>1 DEF TypeOK
<1>3. entry' = entry \/ (att[a] \in Claimed /\ entry'[x[1]] = "gone" /\ \A e \in Entry \ {x[1]} : entry'[e] = entry[e])
  BY <1>1 DEF TypeOK
<1>4. \A y \in Handler \ {x} : Subject(y) = a /\ pc[y] \in Busy =>
        pc[x] \notin Busy /\ att[a] # "assigned"
  BY <1>1 DEF OneHandler, ClaimsFit, Claimed
<1>5. ClaimsFit'
  <2>1. \A y \in Handler : pc'[y] \in Busy \union {"ack"} =>
          pc[y] \in Busy \union {"ack"} \/ att'[Subject(y)] \in Claimed
    BY <1>2
  <2>2. \A e \in Entry : entry'[e] = "gone" => entry[e] = "gone" \/ att'[AttemptOf[e]] \in Claimed
    BY <1>1, <1>3
  <2> QED BY <1>1, <2>1, <2>2, ClaimsLast
<1>6. OneHandler'
  <2> SUFFICES ASSUME NEW y \in Handler, NEW z \in Handler, Subject(y) = Subject(z),
                      pc'[y] \in Busy, pc'[z] \in Busy, y # z
               PROVE  FALSE
    BY DEF OneHandler, Subject
  <2>1. CASE y # x /\ z # x
    BY <2>1, <1>1, <1>2 DEF OneHandler
  <2>2. CASE y = x
    BY <2>2, <1>2, <1>4
  <2>3. CASE z = x
    BY <2>3, <1>2, <1>4
  <2> QED BY <2>1, <2>2, <2>3
<1>7. ExecutionsFit'
  <2>1. \A b \in Attempt : exec'[b] # "none" => att'[b] \in Claimed
    BY <1>1 DEF ExecutionsFit
  <2>2. ASSUME NEW y \in Handler
        PROVE  /\ pc'[y] = "group" => exec'[Subject(y)] = "none"
               /\ pc'[y] \in Attending => exec'[Subject(y)] # "none"
               /\ pc'[y] \in {"attend", "wind"} => exec'[Subject(y)] # "cancelling"
    <3>1. CASE y = x
      BY <3>1, <1>2
    <3>2. CASE y # x /\ (Subject(y) # a \/ exec' = exec)
      <4>1. exec'[Subject(y)] = exec[Subject(y)] /\ pc'[y] = pc[y]
        BY <3>2, <1>2, HandlerIsPair
      <4> QED BY <4>1, <1>1 DEF ExecutionsFit
    <3>3. CASE y # x /\ Subject(y) = a /\ exec' # exec
      BY <3>3, <1>2, <1>4 DEF Busy, Attending
    <3> QED BY <3>1, <3>2, <3>3
  <2> QED BY <2>1, <2>2 DEF ExecutionsFit, Subject
<1>8. HandlersFit'
  <2>1. ASSUME NEW e \in Entry, entry'[e] \in {"none", "new"}
        PROVE  pc'[<<e, "task">>] = "none" /\ pc'[<<e, "inline">>] = "none" /\ e \notin inline
    <3>1. entry[e] = entry'[e]
      BY <2>1, <1>3
    <3>2. /\ pc[<<e, "task">>] = "none" /\ <<e, "task">> \in Handler
          /\ pc[<<e, "inline">>] = "none" /\ <<e, "inline">> \in Handler
          /\ e \notin inline
      BY <2>1, <3>1, <1>1, PairIsHandler DEF HandlersFit
    <3> QED BY <3>2, <1>2 DEF Idle
  <2>2. ASSUME phase # "inline", NEW e \in Entry
        PROVE  pc'[<<e, "inline">>] \in Idle
    BY <2>2, <1>1, <1>2, PairIsHandler DEF HandlersFit
  <2>3. ASSUME phase = "inline", NEW e \in Entry, NEW g \in Entry,
               pc'[<<e, "inline">>] # "none", pc'[<<g, "inline">>] # "none"
        PROVE  e = g
    <3>1. pc[<<e, "inline">>] # "none" /\ pc[<<g, "inline">>] # "none"
      BY <2>3, <1>2, PairIsHandler DEF Idle
    <3> QED BY <2>3, <3>1, <1>1 DEF HandlersFit
  <2> QED BY <2>1, <2>2, <2>3 DEF HandlersFit, Idle, Finished
<1>9. OrphansExplained'
  <2>1. HeldUp => HeldUp'
    BY DEF HeldUp
  <2>2. ASSUME NEW b \in Attempt, exec'[b] \in Alive
        PROVE  \/ Attended(b)'
               \/ monitor'[b] = "failed"
               \/ /\ exec[b] \in Alive /\ ~Attended(b)
                  /\ monitor[b] = "failed" => monitor'[b] = "failed"
    <3>1. CASE b # a
      <4>1. Attended(b) => Attended(b)'
        BY <3>1, <1>2 DEF Attended, Subject
      <4> QED BY <3>1, <4>1, <2>2
    <3>2. CASE b = a /\ where \in Attending
      BY <3>2, <1>2 DEF Attended, Subject, Attending
    <3>3. CASE b = a /\ pc[x] \notin Attending /\ exec' = exec /\ monitor' = monitor
      <4>1. Attended(b) => Attended(b)'
        BY <3>3, <1>2 DEF Attended, Subject, Attending
      <4> QED BY <3>3, <4>1, <2>2
    <3> QED BY <3>1, <3>2, <3>3, <2>2
  <2> QED BY <2>1, <2>2, <1>1, OrphansLast
<1>10. PublishedIsAssigned'
  <2>1. \A e \in Entry : entry'[e] # "none" => entry[e] # "none" \/ att[AttemptOf[e]] # "none"
    BY <1>1, <1>3 DEF Claimed
  <2> QED BY <1>1, <2>1, PublishedLasts
<1> QED BY <1>5, <1>6, <1>7, <1>8, <1>9, <1>10 DEF WorkerInvariant

LEMMA AtWorkFacts ==
  ASSUME WorkerInvariant, NEW x \in Handler, AtWork, Trouble \/ NoTrouble
  PROVE  /\ TypeOK /\ Subject(x) \in Attempt /\ x[1] \in Entry
         /\ UNCHANGED <<phase, shutdown, inflight, inline, asked, control>>
         /\ trouble' \in 0 .. MaxTrouble /\ (trouble > 0 => trouble' > 0)
         /\ pc[x] \in Busy \union {"ack"} => att[Subject(x)] \in Claimed
         /\ exec[Subject(x)] # "none" => att[Subject(x)] \in Claimed
         /\ pc[x] = "group" => exec[Subject(x)] = "none"
         /\ pc[x] \in Attending => exec[Subject(x)] # "none"
         /\ pc[x] \in {"attend", "wind"} => exec[Subject(x)] # "cancelling"
         /\ pc[x] # "none" => att[Subject(x)] # "none"
<1>1. TypeOK /\ ClaimsFit /\ ExecutionsFit /\ Subject(x) \in Attempt /\ x[1] \in Entry
  BY HandlerIsPair DEF WorkerInvariant
<1>2. UNCHANGED <<phase, shutdown, inflight, inline, asked, control>>
  BY DEF AtWork, loopVars
<1>3. trouble' \in 0 .. MaxTrouble /\ (trouble > 0 => trouble' > 0)
  BY <1>1, TroubleIsCounted
<1>4. pc[x] # "none" => att[Subject(x)] # "none"
  <2>1. x = <<x[1], "task">> \/ x = <<x[1], "inline">>
    BY HandlerIsPair
  <2>2. pc[x] # "none" => entry[x[1]] # "none"
    BY <1>1, <2>1 DEF WorkerInvariant, HandlersFit
  <2> QED BY <1>1, <2>2 DEF WorkerInvariant, PublishedIsAssigned, Subject
<1> QED BY <1>1, <1>2, <1>3, <1>4 DEF ClaimsFit, ExecutionsFit

LEMMA CheckKeeps ==
  ASSUME WorkerInvariant, NEW x \in Handler, Check(x)
  PROVE  WorkerInvariant'
<1> DEFINE where == IF shutdown THEN "done" ELSE "claim"
<1>1. /\ pc[x] = "check" /\ pc' = [pc EXCEPT ![x] = where]
      /\ AtWork /\ NoTrouble /\ UNCHANGED <<exec, monitor, entry, att>>
  BY DEF Check, Goto
<1>2. where \in {"done", "claim"}
  OBVIOUS
<1> HIDE DEF where
<1>3. TypeOK'
  BY <1>1, <1>2, AtWorkFacts DEF TypeOK, Finished
<1> QED
  BY <1>1, <1>2, <1>3, AtWorkFacts, HandlerMoves DEF Idle, Finished, Busy, Attending

LEMMA ClaimAttemptKeeps ==
  ASSUME WorkerInvariant, NEW x \in Handler, ClaimAttempt(x)
  PROVE  WorkerInvariant'
<1> DEFINE a == Subject(x)
<1>1. /\ pc[x] = "claim" /\ AtWork /\ NoTrouble /\ UNCHANGED <<exec, monitor, entry>>
  BY DEF ClaimAttempt
<1>2. /\ TypeOK /\ a \in Attempt /\ (exec[a] # "none" => att[a] \in Claimed)
      /\ UNCHANGED <<phase, shutdown, inline>> /\ (trouble > 0 => trouble' > 0)
      /\ att[a] # "none"
  BY <1>1, AtWorkFacts
<1>3. CASE att[a] = "assigned"
  <2>1. att' = [att EXCEPT ![a] = "claimed"] /\ pc' = [pc EXCEPT ![x] = "group"]
    BY <1>3 DEF ClaimAttempt, Goto
  <2>2. TypeOK'
    BY <1>1, <2>1, AtWorkFacts DEF TypeOK, Finished
  <2>3. /\ att'[a] = "claimed"
        /\ \A b \in Attempt : att[b] \in Claimed => att'[b] \in Claimed
        /\ \A b \in Attempt : att[b] # "none" => att'[b] # "none"
    BY <1>2, <2>1 DEF TypeOK, Claimed
  <2>4. exec[a] = "none"
    BY <1>2, <1>3 DEF Claimed
  <2> QED
    BY <1>1, <1>2, <1>3, <2>1, <2>2, <2>3, <2>4, HandlerMoves
    DEF Idle, Finished, Busy, Attending, Claimed, Alive
<1>4. CASE att[a] # "assigned"
  <2>1. att' = att /\ pc' = [pc EXCEPT ![x] = "ack"]
    BY <1>4 DEF ClaimAttempt, Goto
  <2>2. TypeOK'
    BY <1>1, <2>1, AtWorkFacts DEF TypeOK, Finished
  <2>3. att[a] \in Claimed
    BY <1>2, <1>4 DEF TypeOK, Claimed
  <2> QED
    BY <1>1, <1>2, <1>4, <2>1, <2>2, <2>3, HandlerMoves
    DEF Idle, Finished, Busy, Attending, Alive
<1> QED BY <1>3, <1>4

LEMMA StartExecutionKeeps ==
  ASSUME WorkerInvariant, NEW x \in Handler, StartExecution(x)
  PROVE  WorkerInvariant'
<1> DEFINE a == Subject(x)
<1>1. /\ pc[x] = "group" /\ pc' = [pc EXCEPT ![x] = "attend"]
      /\ exec' = [exec EXCEPT ![a] = "running"]
      /\ monitor' = [monitor EXCEPT ![a] = "listening"]
      /\ AtWork /\ NoTrouble /\ UNCHANGED <<entry, att>>
  BY DEF StartExecution, Goto, Execution
<1>2. /\ TypeOK /\ a \in Attempt /\ att[a] \in Claimed
      /\ UNCHANGED <<phase, shutdown, inline>> /\ (trouble > 0 => trouble' > 0)
  BY <1>1, AtWorkFacts DEF Busy
<1>3. TypeOK'
  BY <1>1, AtWorkFacts DEF TypeOK, Finished
<1>4. exec'[a] = "running" /\ \A b \in Attempt \ {a} : exec'[b] = exec[b] /\ monitor'[b] = monitor[b]
  BY <1>1, <1>2 DEF TypeOK
<1> QED
  BY <1>1, <1>2, <1>3, <1>4, HandlerMoves DEF Idle, Finished, Busy, Attending

\* A handler that stays with its execution, or asks it to stop.
LEMMA StaysOn ==
  ASSUME WorkerInvariant, NEW x \in Handler, AtWork, NoTrouble, UNCHANGED <<entry, att, monitor>>,
         pc[x] \in Attending, NEW where \in Attending, pc' = [pc EXCEPT ![x] = where],
         \/ exec' = exec /\ (where \in {"attend", "wind"} => exec[Subject(x)] # "cancelling")
         \/ exec' = [exec EXCEPT ![Subject(x)] = "cancelling"] /\ where \notin {"attend", "wind"}
  PROVE  WorkerInvariant'
<1> DEFINE a == Subject(x)
<1>1. /\ TypeOK /\ a \in Attempt /\ att[a] \in Claimed /\ exec[a] # "none"
      /\ UNCHANGED <<phase, shutdown, inline>> /\ (trouble > 0 => trouble' > 0)
  BY AtWorkFacts DEF Busy
<1>2. TypeOK'
  BY AtWorkFacts DEF TypeOK, Attending, Finished
<1>3. /\ \A b \in Attempt \ {a} : exec'[b] = exec[b]
      /\ exec'[a] # "none" /\ (where \in {"attend", "wind"} => exec'[a] # "cancelling")
  BY <1>1 DEF TypeOK
<1>4. exec' = exec \/ pc[x] \in Busy
  BY DEF Busy
<1> QED
  BY <1>1, <1>2, <1>3, <1>4, HandlerMoves DEF Idle, Finished, Busy, Attending

\* A handler that leaves its execution, which has ended or whose monitor failed.
LEMMA Leaves ==
  ASSUME WorkerInvariant, NEW x \in Handler, AtWork, NoTrouble, UNCHANGED <<entry, exec>>,
         pc[x] \in Attending,
         NEW where \in {"ack", "error", "redis", "cancelled"}, pc' = [pc EXCEPT ![x] = where],
         att' = att \/ att' = [att EXCEPT ![Subject(x)] = "over"],
         monitor' = monitor \/ monitor' = [monitor EXCEPT ![Subject(x)] = "ended"],
         exec[Subject(x)] \in {"ended", "raised"} \/ monitor'[Subject(x)] = "failed"
  PROVE  WorkerInvariant'
<1> DEFINE a == Subject(x)
<1>1. /\ TypeOK /\ a \in Attempt /\ att[a] \in Claimed /\ exec[a] # "none"
      /\ UNCHANGED <<phase, shutdown, inline>> /\ (trouble > 0 => trouble' > 0)
  BY AtWorkFacts DEF Busy
<1>2. TypeOK'
  BY AtWorkFacts DEF TypeOK, Attending, Finished
<1>3. /\ \A b \in Attempt \ {a} : exec'[b] = exec[b] /\ monitor'[b] = monitor[b]
      /\ \A b \in Attempt : att[b] \in Claimed => att'[b] \in Claimed
      /\ \A b \in Attempt : att[b] # "none" => att'[b] # "none"
  BY <1>1 DEF TypeOK, Claimed
<1>4. att'[a] \in Claimed
  BY <1>1, <1>3
<1> QED
  BY <1>1, <1>2, <1>3, <1>4, HandlerMoves DEF Idle, Finished, Busy, Attending, Alive

LEMMA AttendKeeps ==
  ASSUME WorkerInvariant, NEW x \in Handler, Attend(x)
  PROVE  WorkerInvariant'
<1> DEFINE a == Subject(x)
           over == exec[a] \in {"ended", "raised"}
           listener == monitor[a]
<1>1. pc[x] = "attend" /\ AtWork /\ NoTrouble /\ UNCHANGED <<entry, att>>
  BY DEF Attend
<1>2. TypeOK /\ a \in Attempt
  BY <1>1, AtWorkFacts
<1>3. CASE /\ over
           /\ Goto(x, IF listener = "failed" THEN "redis"
                      ELSE IF exec[a] = "raised" THEN "error" ELSE "ack")
           /\ monitor' = [monitor EXCEPT ![a] = IF @ = "failed" THEN @ ELSE "ended"]
           /\ UNCHANGED exec
  <2>1. PICK where \in {"ack", "error", "redis"} : pc' = [pc EXCEPT ![x] = where]
    BY <1>3 DEF Goto
  <2>2. monitor' = monitor \/ monitor' = [monitor EXCEPT ![a] = "ended"]
    BY <1>2, <1>3 DEF TypeOK
  <2> QED BY <1>1, <1>3, <2>1, <2>2, Leaves DEF Attending
<1>4. CASE /\ ~over /\ listener = "heard"
           /\ \/ Goto(x, "wind") /\ UNCHANGED exec
              \/ Goto(x, "stop") /\ Execution(x, "cancelling")
           /\ UNCHANGED monitor
  <2>1. CASE Goto(x, "wind") /\ UNCHANGED exec
    <3>1. exec[a] # "cancelling"
      BY <1>1, AtWorkFacts
    <3> QED BY <1>1, <1>4, <2>1, <3>1, StaysOn DEF Goto, Attending
  <2>2. CASE Goto(x, "stop") /\ Execution(x, "cancelling")
    BY <1>1, <1>4, <2>2, StaysOn DEF Goto, Execution, Attending
  <2> QED BY <1>4, <2>1, <2>2
<1>5. CASE /\ ~over /\ listener \in DOMAIN AfterListening
           /\ Goto(x, AfterListening[listener])
           /\ UNCHANGED <<exec, monitor>>
  <2>1. DOMAIN AfterListening = {"failed", "ended"}
    BY DEF AfterListening
  <2>2. CASE listener = "failed"
    <3>1. pc' = [pc EXCEPT ![x] = "redis"]
      BY <1>5, <2>2 DEF Goto, AfterListening
    <3> QED BY <1>1, <1>5, <2>2, <3>1, Leaves DEF Attending
  <2>3. CASE listener = "ended"
    <3>1. pc' = [pc EXCEPT ![x] = "await"]
      BY <1>5, <2>3 DEF Goto, AfterListening
    <3> QED BY <1>1, <1>5, <3>1, StaysOn DEF Attending
  <2> QED BY <1>5, <2>1, <2>2, <2>3
<1> QED BY <1>3, <1>4, <1>5 DEF Attend

LEMMA WindUpKeeps ==
  ASSUME WorkerInvariant, NEW x \in Handler, WindUp(x)
  PROVE  WorkerInvariant'
<1> DEFINE a == Subject(x)
<1>1. pc[x] = "wind" /\ AtWork /\ NoTrouble /\ UNCHANGED <<monitor, entry, att>>
  BY DEF WindUp
<1>2. exec[a] \in {"running", "ended", "raised"}
  BY <1>1, AtWorkFacts DEF TypeOK, Attending
<1>3. CASE exec[a] = "running"
  <2>1. pc' = [pc EXCEPT ![x] = "stop"] /\ exec' = [exec EXCEPT ![a] = "cancelling"]
    BY <1>3 DEF WindUp, Goto, Execution
  <2> QED BY <1>1, <2>1, StaysOn DEF Attending
<1>4. CASE exec[a] \in {"ended", "raised"}
  <2>1. PICK where \in {"ack", "error"} : pc' = [pc EXCEPT ![x] = where] /\ exec' = exec
    BY <1>4 DEF WindUp, Goto
  <2> QED BY <1>1, <1>4, <2>1, Leaves DEF Attending
<1> QED BY <1>2, <1>3, <1>4

LEMMA AcknowledgeCancelKeeps ==
  ASSUME WorkerInvariant, NEW x \in Handler, AcknowledgeCancel(x)
  PROVE  WorkerInvariant'
<1>1. /\ pc[x] = "stop" /\ AtWork /\ NoTrouble /\ UNCHANGED <<exec, monitor, entry>>
      /\ exec[Subject(x)] = "ended" /\ pc' = [pc EXCEPT ![x] = "ack"]
      /\ att' = [att EXCEPT ![Subject(x)] = "over"]
  BY DEF AcknowledgeCancel, Goto
<1> QED BY <1>1, Leaves DEF Attending

LEMMA AwaitExecutionKeeps ==
  ASSUME WorkerInvariant, NEW x \in Handler, AwaitExecution(x)
  PROVE  WorkerInvariant'
<1>1. /\ pc[x] \in {"await", "quit"} /\ AtWork /\ NoTrouble /\ UNCHANGED <<exec, monitor, entry, att>>
      /\ exec[Subject(x)] \in {"ended", "raised"}
  BY DEF AwaitExecution
<1>2. PICK where \in {"ack", "error", "cancelled"} : pc' = [pc EXCEPT ![x] = where]
  BY DEF AwaitExecution, Goto
<1> QED BY <1>1, <1>2, Leaves DEF Attending

LEMMA AckEntryKeeps ==
  ASSUME WorkerInvariant, NEW x \in Handler, AckEntry(x)
  PROVE  WorkerInvariant'
<1>1. /\ pc[x] = "ack" /\ pc' = [pc EXCEPT ![x] = "done"]
      /\ entry' = [entry EXCEPT ![x[1]] = "gone"]
      /\ AtWork /\ NoTrouble /\ UNCHANGED <<exec, monitor, att>>
  BY DEF AckEntry, Goto
<1>2. TypeOK'
  BY <1>1, AtWorkFacts DEF TypeOK, Finished
<1> QED
  BY <1>1, <1>2, AtWorkFacts, HandlerMoves DEF Idle, Finished, Busy, Attending

LEMMA HandlerFailsKeeps ==
  ASSUME WorkerInvariant, NEW x \in Handler, HandlerFails(x)
  PROVE  WorkerInvariant'
<1>1. /\ pc[x] \in {"claim", "group", "ack"}
      /\ entry' = entry \/ (pc[x] = "ack" /\ entry' = [entry EXCEPT ![x[1]] = "gone"])
      /\ AtWork /\ Trouble /\ UNCHANGED <<exec, monitor, att>>
  <2>1. TypeOK
    BY DEF WorkerInvariant
  <2>2. CASE pc[x] # "ack"
    BY <2>1, <2>2 DEF HandlerFails, TypeOK
  <2>3. CASE pc[x] = "ack"
    BY <2>3 DEF HandlerFails
  <2> QED BY <2>2, <2>3 DEF HandlerFails
<1>2. PICK where \in {"error", "redis"} : pc' = [pc EXCEPT ![x] = where]
  BY DEF HandlerFails, Goto
<1>3. TypeOK'
  BY <1>1, <1>2, AtWorkFacts DEF TypeOK, Finished
<1>4. /\ Subject(x) \in Attempt
      /\ exec[Subject(x)] # "none" => att[Subject(x)] \in Claimed
      /\ pc[x] = "ack" => att[Subject(x)] \in Claimed
      /\ UNCHANGED <<phase, shutdown, inline>> /\ (trouble > 0 => trouble' > 0)
  BY <1>1, AtWorkFacts
<1> QED
  BY <1>1, <1>2, <1>3, <1>4, HandlerMoves DEF Idle, Finished, Busy, Attending

LEMMA HandlerStepKeeps ==
  ASSUME WorkerInvariant, NEW x \in Handler, HandlerStep(x)
  PROVE  WorkerInvariant'
BY CheckKeeps, ClaimAttemptKeeps, StartExecutionKeeps, AttendKeeps, WindUpKeeps,
   AcknowledgeCancelKeeps, AwaitExecutionKeeps, AckEntryKeeps, HandlerFailsKeeps
DEF HandlerStep

-----------------------------------------------------------------------------
(* The loop.                                                               *)

\* Nobody at work is disturbed.
LEMMA LoopMoves ==
  ASSUME WorkerInvariant, TypeOK', HandlersFit', UNCHANGED <<exec, monitor, att>>,
         HeldUp => HeldUp',
         \A x \in Handler : pc'[x] # pc[x] =>
           pc[x] \notin Busy \union {"ack"} /\ pc'[x] \notin Busy \union {"ack"},
         \A e \in Entry : entry'[e] = "gone" => entry[e] = "gone",
         \A e \in Entry : entry'[e] # "none" => entry[e] # "none"
  PROVE  WorkerInvariant'
<1>1. /\ TypeOK /\ ClaimsFit /\ PublishedIsAssigned
      /\ OneHandler /\ ExecutionsFit /\ HandlersFit /\ OrphansExplained
  BY DEF WorkerInvariant
<1>2. \A x \in Handler : pc'[x] \in Busy \union {"ack"} => pc'[x] = pc[x]
  OBVIOUS
<1>3. \A x \in Handler : pc[x] \in Busy => pc'[x] = pc[x]
  OBVIOUS
<1>4. \A x \in Handler : pc'[x] \in Busy => pc'[x] = pc[x]
  BY <1>2
<1>5. ClaimsFit'
  BY <1>1, <1>2, ClaimsLast
<1>6. PublishedIsAssigned'
  BY <1>1, PublishedLasts
<1>7. OneHandler'
  BY <1>1, <1>4, OneHandlerLasts
<1>8. ExecutionsFit'
  BY <1>1, <1>4, ExecutionsLast
<1>9. OrphansExplained'
  <2>1. ASSUME NEW a \in Attempt, Attended(a) PROVE Attended(a)'
    <3>1. PICK x \in Handler : Subject(x) = a /\ pc[x] \in Attending
      BY <2>1 DEF Attended, Attending
    <3>2. pc'[x] \in Attending
      BY <3>1, <1>3 DEF Busy
    <3> QED BY <3>1, <3>2 DEF Attended, Attending, Subject
  <2> QED BY <1>1, <2>1, OrphansLast
<1> QED BY <1>1, <1>5, <1>6, <1>7, <1>8, <1>9 DEF WorkerInvariant

LEMMA DeliveredEntries ==
  ASSUME TypeOK, NEW S, Deliver(S)
  PROVE  /\ \A e \in S : e \in Entry /\ entry[e] = "new" /\ entry'[e] = "pending"
         /\ \A e \in Entry \ S : entry'[e] = entry[e]
         /\ entry' \in [Entry -> {"none", "new", "pending", "gone"}]
         /\ S \subseteq Entry
         /\ UNCHANGED <<shutdown, inline, exec, monitor, att, asked, control>>
  BY DEF TypeOK, Deliver

LEMMA ReadMoves ==
  ASSUME WorkerInvariant, Read \/ ReadFails
  PROVE  WorkerInvariant'
<1>1. TypeOK /\ HandlersFit
  BY DEF WorkerInvariant
<1>2. PICK S \in SUBSET Entry :
        /\ Deliver(S) /\ phase = "poll" /\ phase' \in {"poll", "stopping", "reconnect"}
        /\ (Trouble \/ NoTrouble)
        /\ \/ pc' = Tasks(S) /\ inflight' = inflight \union S
           \/ pc' = pc /\ inflight' = inflight
  BY DEF Read, ReadFails
<1>3. /\ \A e \in S : e \in Entry /\ entry[e] = "new" /\ entry'[e] = "pending"
      /\ \A e \in Entry \ S : entry'[e] = entry[e]
      /\ entry' \in [Entry -> {"none", "new", "pending", "gone"}]
      /\ UNCHANGED <<shutdown, inline, exec, monitor, att, asked, control>>
  BY <1>1, <1>2, DeliveredEntries
<1>4. \A x \in Handler :
        \/ pc'[x] = pc[x]
        \/ x[1] \in S /\ x[2] = "task" /\ pc'[x] = "check"
  BY <1>2 DEF Tasks
<1>5. pc' \in [Handler -> {"none", "check", "claim", "group", "attend", "wind", "stop", "await", "quit",
                           "ack"} \union Finished]
  BY <1>1, <1>2 DEF TypeOK, Tasks
<1>6. TypeOK'
  BY <1>1, <1>2, <1>3, <1>5, TroubleIsCounted DEF TypeOK
<1>7. \A x \in Handler : pc'[x] # pc[x] => pc[x] = "none" /\ pc'[x] = "check"
  <2> SUFFICES ASSUME NEW x \in Handler, x[1] \in S, x[2] = "task" PROVE pc[x] = "none"
    BY <1>4
  <2>1. x = <<x[1], "task">>
    BY HandlerIsPair
  <2>2. pc[<<x[1], "task">>] = "none"
    BY <1>1, <1>3 DEF HandlersFit
  <2> QED BY <2>1, <2>2
<1>8. \A e \in Entry : pc'[<<e, "inline">>] = pc[<<e, "inline">>]
  BY <1>4, PairIsHandler
<1>9. HandlersFit'
  <2>1. ASSUME NEW e \in Entry, entry'[e] \in {"none", "new"}
        PROVE  pc'[<<e, "task">>] = "none" /\ pc'[<<e, "inline">>] = "none" /\ e \notin inline'
    <3>1. e \notin S /\ entry[e] \in {"none", "new"}
      BY <2>1, <1>3
    <3> QED BY <3>1, <1>1, <1>3, <1>4, <1>8, PairIsHandler DEF HandlersFit
  <2> QED BY <2>1, <1>1, <1>2, <1>8 DEF HandlersFit, Idle, Finished
<1>10. HeldUp => HeldUp'
  BY <1>2 DEF HeldUp
<1>11. /\ \A e \in Entry : entry'[e] = "gone" => entry[e] = "gone"
       /\ \A e \in Entry : entry'[e] # "none" => entry[e] # "none"
  BY <1>3
<1> QED BY <1>3, <1>6, <1>7, <1>9, <1>10, <1>11, LoopMoves DEF Busy, Attending

\* The loop goes elsewhere, but not to the recovered entries.
LEMMA PhaseMoves ==
  ASSUME WorkerInvariant, Reap \/ LeaveLoop \/ BeginStop \/ GoOffline \/ RequestShutdown
  PROVE  WorkerInvariant'
<1>1. TypeOK /\ HandlersFit
  BY DEF WorkerInvariant
<1>2. /\ UNCHANGED <<inline, pc, exec, monitor, entry, att, asked, control>>
      /\ phase' = phase \/ (phase # "inline" /\ phase' \in {"stopping", "offline"})
      /\ phase' \in {"poll", "reconnect", "inline", "stopping", "cancelling", "offline", "gone"}
      /\ shutdown' \in BOOLEAN /\ (shutdown => shutdown')
      /\ inflight' \subseteq Entry
      /\ trouble' = trouble \/ ((Trouble \/ NoTrouble) /\ phase = "poll")
      /\ phase \in {"cancelling", "offline"} => phase' \in {"cancelling", "offline"}
  BY <1>1 DEF TypeOK, Reap, LeaveLoop, BeginStop, GoOffline, RequestShutdown, taskVars, worldVars, loopVars,
              NoTrouble
<1>3. trouble' \in 0 .. MaxTrouble /\ (trouble > 0 => trouble' > 0)
  BY <1>1, <1>2, TroubleIsCounted DEF TypeOK
<1>4. TypeOK'
  BY <1>1, <1>2, <1>3 DEF TypeOK
<1>5. HandlersFit'
  BY <1>1, <1>2 DEF HandlersFit
<1>6. HeldUp => HeldUp'
  BY <1>2, <1>3 DEF HeldUp
<1> QED BY <1>2, <1>4, <1>5, <1>6, LoopMoves

\* The loop turns to a recovered entry, or to none.
LEMMA InlineMoves ==
  ASSUME WorkerInvariant, TypeOK', NEW S \in SUBSET Entry, GoInline(S),
         \A e \in S : entry[e] \notin {"none", "new"},
         \A e \in Entry : pc[<<e, "inline">>] \in Idle,
         phase \in {"reconnect", "inline"},
         UNCHANGED <<shutdown, exec, monitor, entry, att>>
  PROVE  WorkerInvariant'
<1>1. HandlersFit
  BY DEF WorkerInvariant
<1>2. HeldUp => HeldUp'
  BY DEF HeldUp
<1>3. CASE S = {}
  <2>1. pc' = pc /\ phase' = "poll" /\ inline' = {}
    BY <1>3 DEF GoInline
  <2>2. HandlersFit'
    BY <2>1, <1>1 DEF HandlersFit, Idle, Finished
  <2> QED BY <2>1, <2>2, <1>2, LoopMoves
<1>4. CASE S # {}
  <2>1. PICK e \in S :
          pc' = [x \in Handler |-> IF x = <<e, "inline">> THEN "check"
                                  ELSE IF x[2] = "inline" THEN "none" ELSE pc[x]]
    BY <1>4 DEF GoInline, Inline
  <2>2. phase' = "inline" /\ inline' = S
    BY <1>4 DEF GoInline
  <2>3. \A g \in Entry : /\ pc'[<<g, "task">>] = pc[<<g, "task">>]
                         /\ pc'[<<g, "inline">>] = IF g = e THEN "check" ELSE "none"
    BY <2>1, PairIsHandler
  <2>4. HandlersFit'
    <3>1. ASSUME NEW g \in Entry, entry[g] \in {"none", "new"}
          PROVE  pc'[<<g, "task">>] = "none" /\ pc'[<<g, "inline">>] = "none" /\ g \notin S
      BY <3>1, <2>3, <1>1 DEF HandlersFit
    <3>2. \A g, h \in Entry : pc'[<<g, "inline">>] # "none" /\ pc'[<<h, "inline">>] # "none" => g = h
      BY <2>3
    <3> QED BY <3>1, <3>2, <2>2 DEF HandlersFit
  <2>5. ASSUME NEW x \in Handler, pc'[x] # pc[x]
        PROVE  pc[x] \notin Busy \union {"ack"} /\ pc'[x] \notin Busy \union {"ack"}
    <3>1. x[2] = "inline" /\ pc'[x] \in {"check", "none"}
      BY <2>5, <2>1
    <3>2. x = <<x[1], "inline">> /\ x[1] \in Entry
      BY <3>1, HandlerIsPair
    <3>3. pc[<<x[1], "inline">>] \in Idle
      BY <3>2
    <3> QED BY <3>1, <3>2, <3>3 DEF Idle, Finished, Busy, Attending
  <2> QED BY <1>2, <2>4, <2>5, LoopMoves
<1> QED BY <1>3, <1>4

LEMMA InlineIsTyped ==
  ASSUME TypeOK, NEW S \in SUBSET Entry, GoInline(S)
  PROVE  /\ pc' \in [Handler -> {"none", "check", "claim", "group", "attend", "wind", "stop", "await",
                                 "quit", "ack"} \union Finished]
         /\ inline' \subseteq Entry /\ phase' \in {"poll", "inline"}
  BY DEF TypeOK, GoInline, Inline

LEMMA ReconnectKeeps ==
  ASSUME WorkerInvariant, Reconnect
  PROVE  WorkerInvariant'
<1>1. TypeOK /\ HandlersFit
  BY DEF WorkerInvariant
<1>2. PICK S \in SUBSET {e \in Entry : entry[e] = "pending"} : GoInline(S)
  BY DEF Reconnect
<1>3. /\ phase = "reconnect" /\ (Trouble \/ NoTrouble)
      /\ UNCHANGED <<shutdown, inflight, exec, monitor, entry, att, asked, control>>
  BY DEF Reconnect, worldVars
<1>4. TypeOK'
  BY <1>1, <1>2, <1>3, InlineIsTyped, TroubleIsCounted DEF TypeOK
<1>5. \A e \in Entry : pc[<<e, "inline">>] \in Idle
  BY <1>1, <1>3 DEF HandlersFit
<1> QED BY <1>2, <1>3, <1>4, <1>5, InlineMoves

LEMMA NextInlineKeeps ==
  ASSUME WorkerInvariant, NextInline
  PROVE  WorkerInvariant'
<1>1. TypeOK /\ HandlersFit
  BY DEF WorkerInvariant
<1>2. /\ phase = "inline" /\ NoTrouble
      /\ UNCHANGED <<shutdown, inflight, exec, monitor, entry, att, asked, control>>
  BY DEF NextInline, worldVars
<1>3. PICK e \in inline :
        \/ pc[<<e, "inline">>] = "done" /\ GoInline(inline \ {e})
        \/ pc[<<e, "inline">>] = "redis" /\ GoInline({})
        \/ pc[<<e, "inline">>] = "error" /\ phase' = "stopping" /\ inline' = {} /\ UNCHANGED pc
  BY DEF NextInline
<1>4. e \in Entry /\ \A g \in inline : g \in Entry /\ entry[g] \notin {"none", "new"}
  BY <1>1 DEF TypeOK, HandlersFit
<1>5. ASSUME NEW g \in Entry PROVE pc[<<g, "inline">>] \in Idle
  BY <1>1, <1>2, <1>3, <1>4 DEF HandlersFit, Idle, Finished
<1>6. CASE \E S \in SUBSET inline : GoInline(S)
  <2>1. PICK S \in SUBSET inline : GoInline(S)
    BY <1>6
  <2>2. S \in SUBSET Entry /\ \A g \in S : entry[g] \notin {"none", "new"}
    BY <2>1, <1>4
  <2>3. TypeOK'
    BY <1>1, <1>2, <2>1, <2>2, InlineIsTyped, TroubleIsCounted DEF TypeOK
  <2> QED BY <1>2, <1>5, <2>1, <2>2, <2>3, InlineMoves
<1>7. CASE phase' = "stopping" /\ inline' = {} /\ UNCHANGED pc
  <2>1. TypeOK'
    BY <1>1, <1>2, <1>7, TroubleIsCounted DEF TypeOK
  <2>2. HandlersFit'
    BY <1>1, <1>2, <1>5, <1>7 DEF HandlersFit, Idle, Finished
  <2>3. HeldUp => HeldUp'
    BY <1>2 DEF HeldUp
  <2> QED BY <1>2, <1>7, <2>1, <2>2, <2>3, LoopMoves
<1> QED BY <1>3, <1>6, <1>7

-----------------------------------------------------------------------------
(* The stop.                                                               *)

LEMMA CancelledWhere ==
  ASSUME TypeOK, NEW x \in AtWorkStill
  PROVE  /\ x \in Handler /\ x[2] = "task"
         /\ WhenCancelled[pc[x]] \in {"none", "cancelled", "quit", "stop"}
         /\ pc[x] = "none" => WhenCancelled[pc[x]] = "none"
         /\ pc[x] \in {"wind", "stop", "await", "quit"} => WhenCancelled[pc[x]] \in {"quit", "stop"}
         /\ pc[x] \notin {"wind", "stop", "await", "quit"} => WhenCancelled[pc[x]] \in {"none", "cancelled"}
  BY DEF TypeOK, AtWorkStill, WhenCancelled, Finished

LEMMA GraceEndsKeeps ==
  ASSUME WorkerInvariant, GraceEnds
  PROVE  WorkerInvariant'
<1>1. /\ TypeOK /\ ClaimsFit /\ PublishedIsAssigned
      /\ OneHandler /\ ExecutionsFit /\ HandlersFit /\ OrphansExplained
  BY DEF WorkerInvariant
<1>2. /\ phase = "stopping" /\ shutdown /\ phase' = "cancelling"
      /\ UNCHANGED <<inflight, inline, shutdown, monitor, asked, control>>
      /\ (Trouble \/ NoTrouble)
      /\ (\E x \in AtWorkStill : pc[x] = "attend") => Trouble
      /\ pc' = [x \in Handler |-> IF x \in AtWorkStill THEN WhenCancelled[pc[x]] ELSE pc[x]]
      /\ exec' = [a \in Attempt |->
                   IF exec[a] = "running" /\ a \in Awaited THEN "cancelling" ELSE exec[a]]
  BY DEF GraceEnds
<1>3. PICK S \in SUBSET {x \in AtWorkStill : pc[x] \in {"claim", "ack"}} :
        /\ att' = [a \in Attempt |->
             IF att[a] = "assigned" /\ \E x \in S : pc[x] = "claim" /\ Subject(x) = a
             THEN "claimed" ELSE att[a]]
        /\ entry' = [e \in Entry |->
             IF <<e, "task">> \in S /\ pc[<<e, "task">>] = "ack" THEN "gone" ELSE entry[e]]
  BY DEF GraceEnds
<1>4. \A x \in Handler :
        /\ x \notin AtWorkStill => pc'[x] = pc[x]
        /\ x \in AtWorkStill =>
             /\ x[2] = "task" /\ pc'[x] \in {"none", "cancelled", "quit", "stop"}
             /\ pc[x] = "none" => pc'[x] = "none"
             /\ pc[x] \in {"wind", "stop", "await", "quit"} => pc'[x] \in {"quit", "stop"}
             /\ pc[x] \notin {"wind", "stop", "await", "quit"} => pc'[x] \in {"none", "cancelled"}
  BY <1>1, <1>2, CancelledWhere
<1>5. \A e \in Entry :
        \/ entry'[e] = entry[e]
        \/ entry'[e] = "gone" /\ att[AttemptOf[e]] \in Claimed
  <2> SUFFICES ASSUME NEW e \in Entry, pc[<<e, "task">>] = "ack"
               PROVE  att[AttemptOf[e]] \in Claimed
    BY <1>3
  <2> QED BY <1>1, PairIsHandler DEF ClaimsFit
<1>6. /\ \A a \in Attempt : att[a] \in Claimed => att'[a] \in Claimed
      /\ \A a \in Attempt : att[a] # "none" => att'[a] # "none"
  BY <1>3 DEF Claimed
<1>7. trouble' \in 0 .. MaxTrouble /\ (Trouble => trouble' > 0)
  BY <1>1, <1>2, TroubleIsCounted
<1>8. TypeOK'
  <2>1. pc' \in [Handler -> {"none", "check", "claim", "group", "attend", "wind", "stop", "await",
                             "quit", "ack"} \union Finished]
    BY <1>1, <1>2, CancelledWhere DEF TypeOK, Finished
  <2>2. entry' \in [Entry -> {"none", "new", "pending", "gone"}]
    BY <1>1, <1>3 DEF TypeOK
  <2>3. att' \in [Attempt -> {"none", "assigned", "claimed", "over"}]
    BY <1>1, <1>3 DEF TypeOK
  <2>4. exec' \in [Attempt -> {"none", "running", "cancelling", "ended", "raised"}]
    BY <1>1, <1>2 DEF TypeOK
  <2> QED BY <1>1, <1>2, <1>7, <2>1, <2>2, <2>3, <2>4 DEF TypeOK
<1>9. \A x \in Handler : pc'[x] \in Busy \union {"ack"} => pc[x] \in Busy \union {"ack"}
  BY <1>4 DEF Busy, Attending
<1>10. \A x \in Handler : pc'[x] \in Busy => pc[x] \in Busy
  BY <1>4 DEF Busy, Attending
<1>11. ClaimsFit'
  <2>1. \A e \in Entry : entry'[e] = "gone" => entry[e] = "gone" \/ att'[AttemptOf[e]] \in Claimed
    BY <1>5, <1>6, WorkerAssumption
  <2> QED BY <1>1, <1>6, <1>9, <2>1, ClaimsLast
<1>12. PublishedIsAssigned'
  <2>1. \A e \in Entry : entry'[e] # "none" => entry[e] # "none" \/ att[AttemptOf[e]] # "none"
    BY <1>5 DEF Claimed
  <2> QED BY <1>1, <1>6, <2>1, PublishedLasts
<1>13. OneHandler'
  BY <1>1, <1>10, OneHandlerLasts
<1>14. ExecutionsFit'
  <2>1. \A a \in Attempt : /\ exec'[a] # "none" <=> exec[a] # "none"
                           /\ exec'[a] # exec[a] => a \in Awaited
    BY <1>2
  <2>2. \A a \in Attempt : exec'[a] # "none" => att'[a] \in Claimed
    BY <1>1, <1>6, <2>1 DEF ExecutionsFit
  <2>3. ASSUME NEW x \in Handler
        PROVE  /\ pc'[x] = "group" => exec'[Subject(x)] = "none"
               /\ pc'[x] \in Attending => exec'[Subject(x)] # "none"
    <3>1. Subject(x) \in Attempt
      BY HandlerIsPair
    <3>2. (pc'[x] = "group" => pc[x] = "group") /\ (pc'[x] \in Attending => pc[x] \in Attending)
      BY <1>4 DEF Attending
    <3> QED BY <1>1, <2>1, <3>1, <3>2 DEF ExecutionsFit
  <2>4. ASSUME NEW x \in Handler, pc'[x] \in {"attend", "wind"}
        PROVE  exec'[Subject(x)] # "cancelling"
    <3>1. Subject(x) \in Attempt /\ x \notin AtWorkStill /\ pc[x] \in {"attend", "wind"}
      BY <2>4, <1>4, HandlerIsPair
    <3>2. exec[Subject(x)] # "cancelling"
      BY <1>1, <3>1 DEF ExecutionsFit
    <3>3. Subject(x) \notin Awaited
      <4> SUFFICES ASSUME NEW y \in AtWorkStill, pc[y] \in {"wind", "await"}, Subject(y) = Subject(x)
                   PROVE  FALSE
        BY DEF Awaited
      <4>1. y \in Handler /\ pc[y] \in Busy /\ pc[x] \in Busy
        BY <3>1 DEF AtWorkStill, Busy, Attending
      <4>2. x = y
        BY <4>1, <1>1 DEF OneHandler
      <4> QED BY <4>2, <3>1
    <3> QED BY <3>1, <3>2, <3>3, <2>1
  <2> QED BY <2>2, <2>3, <2>4 DEF ExecutionsFit, Subject
<1>15. HandlersFit'
  <2>1. ASSUME NEW e \in Entry, entry'[e] \in {"none", "new"}
        PROVE  pc'[<<e, "task">>] = "none" /\ pc'[<<e, "inline">>] = "none" /\ e \notin inline'
    <3>1. entry[e] = entry'[e]
      BY <2>1, <1>5
    <3> QED BY <2>1, <3>1, <1>1, <1>2, <1>4, PairIsHandler DEF HandlersFit
  <2>2. ASSUME NEW e \in Entry PROVE pc'[<<e, "inline">>] \in Idle
    BY <1>1, <1>2, <1>4, PairIsHandler DEF HandlersFit
  <2> QED BY <2>1, <2>2, <1>2 DEF HandlersFit, Idle, Finished
<1>16. OrphansExplained'
  <2>1. ASSUME NEW a \in Attempt, exec'[a] \in Alive
        PROVE  \/ Attended(a)'
               \/ HeldUp'
               \/ exec[a] \in Alive /\ ~Attended(a)
    <3>1. exec[a] \in Alive
      BY <2>1, <1>2 DEF Alive
    <3>2. ASSUME NEW x \in Handler, Subject(x) = a, pc[x] \in Attending, pc[x] # "attend" \/ x \notin AtWorkStill
          PROVE  Attended(a)'
      <4>1. pc'[x] \in Attending
        BY <3>2, <1>4 DEF Attending
      <4> QED BY <3>2, <4>1 DEF Attended, Attending, Subject
    <3>3. ASSUME NEW x \in AtWorkStill, pc[x] = "attend"
          PROVE  HeldUp'
      BY <3>3, <1>2, <1>7 DEF HeldUp
    <3> QED BY <3>1, <3>2, <3>3 DEF Attended, Attending
  <2>2. HeldUp => HeldUp'
    BY <1>2 DEF HeldUp
  <2> QED BY <1>1, <1>2, <2>1, <2>2, OrphansLast
<1> QED BY <1>8, <1>11, <1>12, <1>13, <1>14, <1>15, <1>16 DEF WorkerInvariant

LEMMA ExitKeeps ==
  ASSUME WorkerInvariant, Exit
  PROVE  WorkerInvariant'
<1>1. /\ TypeOK /\ ClaimsFit /\ PublishedIsAssigned
      /\ OneHandler /\ ExecutionsFit /\ HandlersFit /\ OrphansExplained
  BY DEF WorkerInvariant
<1>2. /\ phase = "offline" /\ phase' = "gone"
      /\ exec' = [a \in Attempt |-> IF exec[a] = "none" THEN "none" ELSE "ended"]
      /\ monitor' = [a \in Attempt |-> IF Listening(a) THEN "ended" ELSE monitor[a]]
      /\ UNCHANGED <<inflight, inline, shutdown, pc, entry, att, asked, control, trouble>>
  BY DEF Exit, worldVars
<1>3. TypeOK'
  BY <1>1, <1>2 DEF TypeOK
<1>4. ClaimsFit' /\ PublishedIsAssigned' /\ OneHandler'
  BY <1>1, <1>2, ClaimsLast, PublishedLasts, OneHandlerLasts
<1>5. ExecutionsFit'
  <2>1. \A a \in Attempt : exec'[a] # exec[a] =>
          exec[a] # "none" /\ exec'[a] \notin {"none", "cancelling"}
    BY <1>2
  <2> QED BY <1>1, <1>2, <2>1, ExecutionsLast
<1>6. HandlersFit'
  BY <1>1, <1>2 DEF HandlersFit, Idle, Finished
<1>7. OrphansExplained'
  <2>1. \A a \in Attempt : exec'[a] \notin Alive
    BY <1>2 DEF Alive
  <2> QED BY <2>1 DEF OrphansExplained, Alive
<1> QED BY <1>3, <1>4, <1>5, <1>6, <1>7 DEF WorkerInvariant

-----------------------------------------------------------------------------
LEMMA WorkerInit ==
  ASSUME Init
  PROVE  WorkerInvariant
<1>1. TypeOK
  <2>1. 0 \in 0 .. MaxTrouble
    BY WorkerAssumption
  <2>2. [a \in Attempt |-> {}] \in [Attempt -> SUBSET {"new", "pending"}]
    OBVIOUS
  <2>3. control \in [Attempt -> SUBSET {"new", "pending"}] /\ trouble \in 0 .. MaxTrouble
    BY <2>1, <2>2 DEF Init
  <2> QED BY <2>3 DEF Init, TypeOK
<1>2. ClaimsFit /\ PublishedIsAssigned /\ OneHandler
  BY DEF Init, ClaimsFit, PublishedIsAssigned, OneHandler, Busy, Attending
<1>3. ExecutionsFit
  BY HandlerIsPair DEF Init, ExecutionsFit, Attending
<1>4. HandlersFit
  BY PairIsHandler DEF Init, HandlersFit, Idle
<1>5. OrphansExplained
  BY DEF Init, OrphansExplained
<1> QED BY <1>1, <1>2, <1>3, <1>4, <1>5 DEF WorkerInvariant

LEMMA WorkerStep ==
  ASSUME WorkerInvariant, [Next]_vars
  PROVE  WorkerInvariant'
<1>1. CASE UNCHANGED vars
  <2>1. UNCHANGED <<phase, inflight, inline, shutdown, pc, exec, monitor, entry, att, asked, control, trouble>>
    BY <1>1 DEF vars, loopVars, taskVars, worldVars
  <2>2. TypeOK'
    BY <2>1 DEF WorkerInvariant, TypeOK
  <2>3. HeldUp => HeldUp'
    BY <2>1 DEF HeldUp
  <2> QED BY <2>1, <2>2, <2>3, HandlersRest
<1>2. CASE LoopStep
  BY <1>2, ReadMoves, PhaseMoves, ReconnectKeeps, NextInlineKeeps, GraceEndsKeeps, ExitKeeps DEF LoopStep
<1>3. CASE RequestShutdown
  BY <1>3, PhaseMoves
<1>4. ASSUME NEW x \in Handler, HandlerStep(x) PROVE WorkerInvariant'
  BY <1>4, HandlerStepKeeps
<1>5. ASSUME NEW a \in Attempt,
             \/ Assign(a) \/ TakeBack(a) \/ Ask(a) \/ PublishCancel(a)
             \/ ExecutionEnds(a) \/ ExecutionRaises(a) \/ ExecutionIsCancelled(a)
             \/ MonitorStep(a)
      PROVE  WorkerInvariant'
  BY <1>5, WorldMoves, ExecutionMoves, MonitorMoves
<1>6. ASSUME NEW e \in Entry, Publish(e) PROVE WorkerInvariant'
  BY <1>6, PublishKeeps
<1> QED BY <1>1, <1>2, <1>3, <1>4, <1>5, <1>6 DEF Next

LEMMA WorkerKeepsInvariant == Spec => []WorkerInvariant
  BY WorkerInit, WorkerStep, PTL DEF Spec

\* No assignment leaves the stream while its Attempt may still be claimed:
\* whatever fails, is published twice, recovered or cancelled, for any number
\* of Attempts, entries and faults.
THEOREM NothingIsDropped == Spec => []NothingDroppedUnclaimed
<1>1. WorkerInvariant => NothingDroppedUnclaimed
  BY WorkerAssumption DEF WorkerInvariant, NothingDroppedUnclaimed, ClaimsFit, Claimed
<1> QED BY <1>1, WorkerKeepsInvariant, PTL

\* An execution goes on without a handler only if its monitor failed, or if
\* Redis held up a stop.
THEOREM OrphansAreExplained == Spec => []OrphansExplained
<1>1. WorkerInvariant => OrphansExplained
  BY DEF WorkerInvariant
<1> QED BY <1>1, WorkerKeepsInvariant, PTL

\* However often an assignment is published or recovered, one handler at a time
\* works for an Attempt, and its execution is started once, after its claim.
THEOREM AttemptsHaveOneHandler == Spec => [](OneHandler /\ ExecutionsFit)
<1>1. WorkerInvariant => OneHandler /\ ExecutionsFit
  BY DEF WorkerInvariant
<1> QED BY <1>1, WorkerKeepsInvariant, PTL
-----------------------------------------------------------------------------
(* Why a shutdown comes to its end.                                        *)
(*                                                                         *)
(* StopsUnlessInline needs fairness; what does not is shown here.  After a *)
(* shutdown something can go on, at every moment, unless the loop itself   *)
(* attends to an execution; and every step that the loop, a handler, an    *)
(* execution or a monitor takes brings it nearer to its end.               *)

\* The executions of the handlers that stop them, or wait for them after having
\* been cancelled, are not running; the loop is at one of the entries it has
\* left; after the grace period only those handlers are at work that an
\* execution keeps waiting.
StopFits ==
  /\ \A a \in Attempt : exec[a] = "none" <=> monitor[a] = "none"
  /\ \A x \in Handler :
       /\ pc[x] = "stop" => exec[Subject(x)] \in {"cancelling", "ended"}
       /\ pc[x] = "quit" => exec[Subject(x)] \in {"cancelling", "ended", "raised"}
       /\ pc[x] \in {"quit", "cancelled"} => x[2] = "task"
  /\ \A e \in inflight : pc[<<e, "task">>] # "none"
  /\ phase = "inline" => \E e \in inline : pc[<<e, "inline">>] # "none"
  /\ phase = "cancelling" => \A x \in AtWorkStill : pc[x] \in {"stop", "quit", "ack"}

\* The guards of the steps that Fairness is about, after a shutdown.
HandlerCanGoOn(x) ==
  LET a == Subject(x) IN
  \/ pc[x] \in {"check", "claim", "group", "ack"}
  \/ pc[x] = "attend" /\ (exec[a] \in {"ended", "raised"} \/ monitor[a] \in {"heard", "failed", "ended"})
  \/ pc[x] = "wind" /\ exec[a] \in {"running", "ended", "raised"}
  \/ pc[x] = "stop" /\ exec[a] = "ended"
  \/ pc[x] \in {"await", "quit"} /\ exec[a] \in {"ended", "raised"}

LoopCanGoOn ==
  \/ phase \in {"poll", "reconnect", "offline"}
  \/ phase = "inline" /\ \E e \in inline : pc[<<e, "inline">>] \in {"done", "redis", "error"}
  \/ phase \in {"stopping", "cancelling"} /\ AtWorkStill = {}
  \/ phase = "stopping" /\ \A x \in AtWorkStill : pc[x] # "attend"

SomethingCanGoOn ==
  \/ LoopCanGoOn
  \/ \E x \in Handler : HandlerCanGoOn(x)
  \/ \E a \in Attempt : exec[a] = "cancelling" \/ Listening(a)

\* A process that is to stop never stands still, however its tasks, recovered
\* entries, executions and monitors are interleaved and whatever failed: only
\* an execution that the loop attends to itself can hold it up.
StopNeverStandsStill == shutdown /\ phase # "gone" => SomethingCanGoOn \/ Blocked

PhaseOrder == [reconnect |-> 0, inline |-> 1, poll |-> 2, stopping |-> 3, cancelling |-> 4,
               offline |-> 5, gone |-> 6]
HandlerOrder == [none |-> 0, check |-> 1, claim |-> 2, group |-> 3, attend |-> 4, wind |-> 5,
                 await |-> 5, stop |-> 6, quit |-> 6, ack |-> 7,
                 done |-> 8, redis |-> 8, error |-> 8, cancelled |-> 8]
ExecutionOrder == [none |-> 0, running |-> 1, cancelling |-> 2, raised |-> 3, ended |-> 4]
MonitorOrder == [none |-> 0, listening |-> 1, retry |-> 1, heard |-> 2, failed |-> 3, ended |-> 3]

\* The loop comes nearer to its end, or is done with a recovered entry.
LoopAdvances ==
  \/ PhaseOrder[phase'] > PhaseOrder[phase]
  \/ phase' = phase /\ inline' \subseteq inline /\ inline' # inline

\* After a shutdown nothing starts over: no task is added, every handler,
\* execution and monitor only goes on, except that the loop turns to its next
\* entry and that a monitor may retry once for every fault.
NothingStartsOver ==
  shutdown =>
    /\ shutdown' /\ inflight' \subseteq inflight /\ trouble <= trouble'
    /\ UNCHANGED <<phase, inline>> \/ LoopAdvances
    /\ \A x \in Handler :
         \/ pc'[x] = pc[x]
         \/ HandlerOrder[pc'[x]] > HandlerOrder[pc[x]]
         \/ x[2] = "inline" /\ LoopAdvances
    /\ \A a \in Attempt :
         /\ exec'[a] = exec[a] \/ ExecutionOrder[exec'[a]] > ExecutionOrder[exec[a]]
         /\ \/ monitor'[a] = monitor[a]
            \/ MonitorOrder[monitor'[a]] > MonitorOrder[monitor[a]]
            \/ monitor[a] = "listening" /\ monitor'[a] = "retry" /\ trouble < trouble'
            \/ monitor[a] = "retry" /\ monitor'[a] = "listening"

\* And every step of the loop, of a handler, of a cancelled execution or of a
\* monitor is such a step of its own.
StepsAdvance ==
  shutdown =>
    /\ LoopStep => LoopAdvances
    /\ \A x \in Handler : HandlerStep(x) => HandlerOrder[pc'[x]] > HandlerOrder[pc[x]]
    /\ \A a \in Attempt :
         /\ ExecutionIsCancelled(a) => exec'[a] # exec[a]
         /\ MonitorStep(a) => monitor'[a] # monitor[a]

StopsAdvance == NothingStartsOver /\ StepsAdvance

\* What a step of a handler does, in the terms of StopFits and the orders.
HandlerGoesOn(x) ==
  LET a == Subject(x) IN
  /\ UNCHANGED <<phase, inline, inflight, shutdown>> /\ trouble <= trouble'
  /\ pc[x] \notin Idle
  /\ pc' = [pc EXCEPT ![x] = pc'[x]]
  /\ HandlerOrder[pc'[x]] > HandlerOrder[pc[x]]
  /\ pc'[x] \notin {"none", "quit"}
  /\ pc'[x] = "cancelled" => pc[x] = "quit"
  /\ pc'[x] = "stop" => exec'[a] = "cancelling"
  /\ pc[x] \in {"stop", "quit", "ack"} => pc'[x] \in Finished \union {"ack"}
  /\ \A b \in Attempt \ {a} : exec'[b] = exec[b] /\ monitor'[b] = monitor[b]
  /\ exec' = exec \/ (pc[x] \in Busy /\ ExecutionOrder[exec'[a]] > ExecutionOrder[exec[a]])
  /\ monitor'[a] = monitor[a] \/ MonitorOrder[monitor'[a]] > MonitorOrder[monitor[a]]
  /\ exec'[a] = "none" <=> monitor'[a] = "none"

LEMMA TroubleGrows ==
  ASSUME TypeOK, Trouble \/ NoTrouble
  PROVE  trouble <= trouble' /\ (Trouble => trouble < trouble')
  BY WorkerAssumption DEF TypeOK, Trouble, NoTrouble

\* Handlers only go on.
LEMMA HandlersGoOn ==
  ASSUME WorkerInvariant, StopFits, NEW x \in Handler, HandlerStep(x)
  PROVE  HandlerGoesOn(x)
<1> DEFINE a == Subject(x)
<1> USE DEF Idle, Finished
<1>0. /\ HandlerOrder["check"] = 1 /\ HandlerOrder["claim"] = 2 /\ HandlerOrder["group"] = 3
      /\ HandlerOrder["attend"] = 4 /\ HandlerOrder["wind"] = 5 /\ HandlerOrder["await"] = 5
      /\ HandlerOrder["stop"] = 6 /\ HandlerOrder["quit"] = 6 /\ HandlerOrder["ack"] = 7
      /\ HandlerOrder["done"] = 8 /\ HandlerOrder["redis"] = 8 /\ HandlerOrder["error"] = 8
      /\ HandlerOrder["cancelled"] = 8
  BY DEF HandlerOrder
<1>1. AtWork /\ (Trouble \/ NoTrouble)
  BY DEF HandlerStep, Check, ClaimAttempt, StartExecution, Attend, WindUp, AcknowledgeCancel,
         AwaitExecution, AckEntry, HandlerFails
<1>2. /\ TypeOK /\ a \in Attempt /\ UNCHANGED <<phase, inline, inflight, shutdown>>
      /\ trouble <= trouble'
      /\ pc[x] = "group" => exec[a] = "none"
      /\ pc[x] \in Attending => exec[a] # "none"
      /\ pc[x] \in {"attend", "wind"} => exec[a] # "cancelling"
      /\ exec[a] = "none" <=> monitor[a] = "none"
  BY <1>1, AtWorkFacts, TroubleGrows DEF StopFits
<1>3. ASSUME NEW where, pc' = [pc EXCEPT ![x] = where]
      PROVE  pc'[x] = where /\ pc' = [pc EXCEPT ![x] = pc'[x]]
  BY <1>2, <1>3 DEF TypeOK
<1>4. ASSUME UNCHANGED <<exec, monitor>>, pc' = [pc EXCEPT ![x] = pc'[x]],
             pc[x] \notin Idle, HandlerOrder[pc'[x]] > HandlerOrder[pc[x]],
             pc'[x] \notin {"none", "quit", "stop"}, pc'[x] = "cancelled" => pc[x] = "quit",
             pc[x] \in {"stop", "quit", "ack"} => pc'[x] \in Finished \union {"ack"}
      PROVE  HandlerGoesOn(x)
  BY <1>2, <1>4 DEF HandlerGoesOn
<1>5. CASE Check(x)
  <2>1. pc[x] = "check" /\ UNCHANGED <<exec, monitor>>
    BY <1>5 DEF Check
  <2>2. PICK where \in {"done", "claim"} : pc' = [pc EXCEPT ![x] = where]
    BY <1>5 DEF Check, Goto
  <2>3. pc'[x] = where /\ pc' = [pc EXCEPT ![x] = pc'[x]]
    BY <1>3, <2>2
  <2> QED BY <1>0, <1>4, <2>1, <2>2, <2>3
<1>6. CASE ClaimAttempt(x)
  <2>1. pc[x] = "claim" /\ UNCHANGED <<exec, monitor>>
    BY <1>6 DEF ClaimAttempt
  <2>2. PICK where \in {"group", "ack"} : pc' = [pc EXCEPT ![x] = where]
    BY <1>6 DEF ClaimAttempt, Goto
  <2>3. pc'[x] = where /\ pc' = [pc EXCEPT ![x] = pc'[x]]
    BY <1>3, <2>2
  <2> QED BY <1>0, <1>4, <2>1, <2>2, <2>3
<1>7. CASE StartExecution(x)
  <2>1. /\ pc[x] = "group" /\ pc' = [pc EXCEPT ![x] = "attend"]
        /\ exec' = [exec EXCEPT ![a] = "running"]
        /\ monitor' = [monitor EXCEPT ![a] = "listening"]
    BY <1>7 DEF StartExecution, Goto, Execution
  <2>2. /\ exec[a] = "none" /\ exec'[a] = "running" /\ monitor[a] = "none" /\ monitor'[a] = "listening"
        /\ \A b \in Attempt \ {a} : exec'[b] = exec[b] /\ monitor'[b] = monitor[b]
    BY <1>2, <2>1 DEF TypeOK
  <2>3. ExecutionOrder["running"] > ExecutionOrder["none"] /\ MonitorOrder["listening"] > MonitorOrder["none"]
    BY DEF ExecutionOrder, MonitorOrder
  <2>4. pc'[x] = "attend" /\ pc' = [pc EXCEPT ![x] = pc'[x]]
    BY <1>3, <2>1
  <2> QED BY <1>0, <1>2, <2>1, <2>2, <2>3, <2>4 DEF HandlerGoesOn, Busy
<1>8. ASSUME pc[x] \in {"attend", "wind"}, exec[a] \notin {"ended", "raised"}, monitor' = monitor,
             pc' = [pc EXCEPT ![x] = "stop"], exec' = [exec EXCEPT ![a] = "cancelling"]
      PROVE  HandlerGoesOn(x)
  <2>1. /\ exec[a] = "running" /\ exec'[a] = "cancelling" /\ monitor[a] # "none"
        /\ \A b \in Attempt \ {a} : exec'[b] = exec[b]
    BY <1>2, <1>8 DEF TypeOK, Attending
  <2>2. ExecutionOrder["cancelling"] > ExecutionOrder["running"]
    BY DEF ExecutionOrder
  <2>3. pc'[x] = "stop" /\ pc' = [pc EXCEPT ![x] = pc'[x]]
    BY <1>3, <1>8
  <2> QED BY <1>0, <1>2, <1>8, <2>1, <2>2, <2>3 DEF HandlerGoesOn, Busy, Attending
<1>9. CASE Attend(x)
  <2>1. pc[x] = "attend"
    BY <1>9 DEF Attend
  <2>2. CASE /\ exec[a] \in {"ended", "raised"}
             /\ Goto(x, IF monitor[a] = "failed" THEN "redis"
                        ELSE IF exec[a] = "raised" THEN "error" ELSE "ack")
             /\ monitor' = [monitor EXCEPT ![a] = IF @ = "failed" THEN @ ELSE "ended"]
             /\ UNCHANGED exec
    <3>1. PICK where \in {"ack", "error", "redis"} : pc' = [pc EXCEPT ![x] = where]
      BY <2>2 DEF Goto
    <3>2. pc'[x] = where /\ pc' = [pc EXCEPT ![x] = pc'[x]]
      BY <1>3, <3>1
    <3>3. /\ monitor[a] # "none" /\ \A b \in Attempt \ {a} : monitor'[b] = monitor[b]
          /\ monitor'[a] = IF monitor[a] = "failed" THEN "failed" ELSE "ended"
      BY <1>2, <2>2 DEF TypeOK
    <3>4. monitor'[a] = monitor[a] \/ MonitorOrder[monitor'[a]] > MonitorOrder[monitor[a]]
      BY <1>2, <3>3 DEF TypeOK, MonitorOrder
    <3> QED BY <1>0, <1>2, <2>1, <2>2, <3>2, <3>3, <3>4 DEF HandlerGoesOn
  <2>3. CASE Goto(x, "wind") /\ UNCHANGED <<exec, monitor>>
    <3>1. pc' = [pc EXCEPT ![x] = "wind"] /\ UNCHANGED <<exec, monitor>>
      BY <2>3 DEF Goto
    <3>2. pc'[x] = "wind" /\ pc' = [pc EXCEPT ![x] = pc'[x]]
      BY <1>3, <3>1
    <3> QED BY <1>0, <1>4, <2>1, <3>1, <3>2
  <2>4. CASE exec[a] \notin {"ended", "raised"} /\ Goto(x, "stop") /\ Execution(x, "cancelling")
             /\ UNCHANGED monitor
    BY <1>8, <2>1, <2>4 DEF Goto, Execution
  <2>5. CASE /\ monitor[a] \in DOMAIN AfterListening /\ UNCHANGED <<exec, monitor>>
             /\ Goto(x, AfterListening[monitor[a]])
    <3> DEFINE where == AfterListening[monitor[a]]
    <3>1. where \in {"redis", "await"}
      <4>1. monitor[a] = "failed" \/ monitor[a] = "ended"
        BY <2>5 DEF AfterListening
      <4>2. AfterListening["failed"] = "redis" /\ AfterListening["ended"] = "await"
        BY DEF AfterListening
      <4> QED BY <4>1, <4>2
    <3>2. pc' = [pc EXCEPT ![x] = where]
      BY <2>5 DEF Goto
    <3> HIDE DEF where
    <3>3. pc'[x] = where /\ pc' = [pc EXCEPT ![x] = pc'[x]]
      BY <1>3, <3>2
    <3> QED BY <1>0, <1>4, <2>1, <2>5, <3>1, <3>3
  <2> QED BY <1>9, <2>2, <2>3, <2>4, <2>5 DEF Attend
<1>10. CASE WindUp(x)
  <2>1. pc[x] = "wind" /\ monitor' = monitor /\ exec[a] \in {"running", "ended", "raised"}
    BY <1>2, <1>10 DEF WindUp, TypeOK, Attending
  <2>2. CASE exec[a] = "running"
    BY <1>8, <1>10, <2>1, <2>2 DEF WindUp, Goto, Execution
  <2>3. CASE exec[a] # "running"
    <3>1. PICK where \in {"ack", "error"} : exec' = exec /\ pc' = [pc EXCEPT ![x] = where]
      BY <1>10, <2>1, <2>3 DEF WindUp, Goto
    <3>2. pc'[x] = where /\ pc' = [pc EXCEPT ![x] = pc'[x]]
      BY <1>3, <3>1
    <3> QED BY <1>0, <1>4, <2>1, <3>1, <3>2
  <2> QED BY <2>2, <2>3
<1>11. CASE AcknowledgeCancel(x)
  <2>1. pc[x] = "stop" /\ UNCHANGED <<exec, monitor>> /\ pc' = [pc EXCEPT ![x] = "ack"]
    BY <1>11 DEF AcknowledgeCancel, Goto
  <2>2. pc'[x] = "ack" /\ pc' = [pc EXCEPT ![x] = pc'[x]]
    BY <1>3, <2>1
  <2> QED BY <1>0, <1>4, <2>1, <2>2
<1>12. CASE AwaitExecution(x)
  <2>1. pc[x] \in {"await", "quit"} /\ UNCHANGED <<exec, monitor>>
    BY <1>12 DEF AwaitExecution
  <2>2. PICK where \in {"error", "cancelled", "ack"} :
          pc' = [pc EXCEPT ![x] = where] /\ (where = "cancelled" => pc[x] = "quit")
    BY <1>12 DEF AwaitExecution, Goto
  <2>3. pc' = [pc EXCEPT ![x] = where]
    BY <2>2
  <2>4. pc'[x] = where /\ pc' = [pc EXCEPT ![x] = pc'[x]]
    BY <1>3, <2>3
  <2> QED BY <1>0, <1>4, <2>1, <2>2, <2>4
<1>13. CASE AckEntry(x)
  <2>1. pc[x] = "ack" /\ UNCHANGED <<exec, monitor>> /\ pc' = [pc EXCEPT ![x] = "done"]
    BY <1>13 DEF AckEntry, Goto
  <2>2. pc'[x] = "done" /\ pc' = [pc EXCEPT ![x] = pc'[x]]
    BY <1>3, <2>1
  <2> QED BY <1>0, <1>4, <2>1, <2>2
<1>14. CASE HandlerFails(x)
  <2>1. PICK where \in {"error", "redis"} : pc' = [pc EXCEPT ![x] = where]
    BY <1>14 DEF HandlerFails, Goto
  <2>2. pc[x] \in {"claim", "group", "ack"} /\ UNCHANGED <<exec, monitor>>
    BY <1>14 DEF HandlerFails
  <2>3. pc'[x] = where /\ pc' = [pc EXCEPT ![x] = pc'[x]]
    BY <1>3, <2>1
  <2> QED BY <1>0, <1>4, <2>1, <2>2, <2>3
<1> QED BY <1>5, <1>6, <1>7, <1>9, <1>10, <1>11, <1>12, <1>13, <1>14 DEF HandlerStep

LEMMA HandlerKeepsStopFits ==
  ASSUME WorkerInvariant, StopFits, NEW x \in Handler, HandlerGoesOn(x)
  PROVE  StopFits'
<1> DEFINE a == Subject(x)
<1>1. /\ TypeOK /\ OneHandler /\ ExecutionsFit /\ a \in Attempt
      /\ UNCHANGED <<phase, inline, inflight, shutdown>>
      /\ pc[x] \notin Idle /\ pc'[x] \notin {"none", "quit"}
      /\ \A b \in Attempt \ {a} : exec'[b] = exec[b] /\ monitor'[b] = monitor[b]
      /\ exec'[a] = "none" <=> monitor'[a] = "none"
  BY HandlerIsPair DEF HandlerGoesOn, WorkerInvariant
<1>2. \A y \in Handler \ {x} : pc'[y] = pc[y]
  <2>1. pc' = [pc EXCEPT ![x] = pc'[x]]
    BY DEF HandlerGoesOn
  <2> QED BY <1>1, <2>1 DEF TypeOK
<1>3. \A b \in Attempt : exec'[b] = "none" <=> monitor'[b] = "none"
  BY <1>1 DEF StopFits
<1>4. ASSUME NEW y \in Handler
      PROVE  /\ pc'[y] = "stop" => exec'[Subject(y)] \in {"cancelling", "ended"}
             /\ pc'[y] = "quit" => exec'[Subject(y)] \in {"cancelling", "ended", "raised"}
             /\ pc'[y] \in {"quit", "cancelled"} => y[2] = "task"
  <2>1. CASE y = x
    BY <1>1, <2>1 DEF HandlerGoesOn, StopFits
  <2>2. CASE y # x /\ exec'[Subject(y)] = exec[Subject(y)]
    BY <1>2, <2>2 DEF StopFits
  <2>3. CASE y # x /\ exec'[Subject(y)] # exec[Subject(y)]
    <3>1. Subject(y) = a /\ pc[x] \in Busy
      BY <1>1, <2>3, HandlerIsPair DEF HandlerGoesOn
    <3>2. pc[y] \notin Busy
      BY <1>1, <2>3, <3>1 DEF OneHandler
    <3> QED BY <1>2, <2>3, <3>2 DEF StopFits, Busy, Attending
  <2> QED BY <2>1, <2>2, <2>3
<1>5. \A y \in Handler : pc[y] # "none" => pc'[y] # "none"
  BY <1>1, <1>2
<1>6. ASSUME NEW e \in inflight
      PROVE  pc'[<<e, "task">>] # "none"
  <2>1. e \in Entry /\ pc[<<e, "task">>] # "none"
    BY <1>1, <1>6 DEF TypeOK, StopFits
  <2> QED BY <1>5, <2>1, PairIsHandler
<1>7. phase = "inline" => \E e \in inline : pc'[<<e, "inline">>] # "none"
  <2> SUFFICES ASSUME NEW e \in inline, pc[<<e, "inline">>] # "none" PROVE pc'[<<e, "inline">>] # "none"
    BY DEF StopFits
  <2>1. e \in Entry
    BY <1>1 DEF TypeOK
  <2> QED BY <1>5, <2>1, PairIsHandler
<1>8. ASSUME phase = "cancelling", NEW y \in Handler, y[1] \in inflight, y[2] = "task",
             pc'[y] \notin Finished
      PROVE  pc'[y] \in {"stop", "quit", "ack"}
  <2>1. pc[y] \notin Finished
    BY <1>1, <1>2, <1>8 DEF Idle
  <2>2. pc[y] \in {"stop", "quit", "ack"}
    BY <1>8, <2>1 DEF StopFits, AtWorkStill
  <2> QED BY <1>2, <1>8, <2>2 DEF HandlerGoesOn
<1> QED BY <1>1, <1>3, <1>4, <1>6, <1>7, <1>8 DEF StopFits, AtWorkStill, Subject

\* The handlers are not touched, and executions and monitors only come nearer
\* to their end.
LEMMA RestKeepsStopFits ==
  ASSUME TypeOK, StopFits, UNCHANGED <<pc, inline>>, inflight' \subseteq inflight,
         \A a \in Attempt :
           /\ exec'[a] = "none" <=> exec[a] = "none"
           /\ monitor'[a] = "none" <=> monitor[a] = "none"
           /\ exec[a] \in {"cancelling", "ended"} => exec'[a] \in {"cancelling", "ended"}
           /\ exec[a] = "raised" => exec'[a] \in {"ended", "raised"},
         phase' = "inline" => phase = "inline",
         phase' = "cancelling" => phase = "cancelling"
  PROVE  StopFits'
<1>1. \A x \in AtWorkStill' : x \in AtWorkStill
  BY DEF AtWorkStill
<1>2. \A a \in Attempt : exec'[a] = "none" <=> monitor'[a] = "none"
  BY DEF StopFits
<1>3. ASSUME NEW x \in Handler
      PROVE  /\ pc[x] = "stop" => exec'[Subject(x)] \in {"cancelling", "ended"}
             /\ pc[x] = "quit" => exec'[Subject(x)] \in {"cancelling", "ended", "raised"}
  BY HandlerIsPair DEF StopFits
<1> QED BY <1>1, <1>2, <1>3 DEF StopFits, Subject

\* What the executions, the monitors and the world do.
LEMMA OthersGoOn ==
  ASSUME TypeOK, StopFits,
         \/ RequestShutdown
         \/ \E a \in Attempt :
              \/ Assign(a) \/ TakeBack(a) \/ Ask(a) \/ PublishCancel(a)
              \/ ExecutionEnds(a) \/ ExecutionRaises(a) \/ ExecutionIsCancelled(a)
              \/ MonitorStep(a)
         \/ \E e \in Entry : Publish(e)
         \/ UNCHANGED vars
  PROVE  /\ StopFits'
         /\ UNCHANGED <<phase, inline, inflight, pc>> /\ (shutdown => shutdown') /\ trouble <= trouble'
         /\ \A a \in Attempt :
              /\ exec'[a] = exec[a] \/ ExecutionOrder[exec'[a]] > ExecutionOrder[exec[a]]
              /\ \/ monitor'[a] = monitor[a]
                 \/ MonitorOrder[monitor'[a]] > MonitorOrder[monitor[a]]
                 \/ monitor[a] = "listening" /\ monitor'[a] = "retry" /\ trouble < trouble'
                 \/ monitor[a] = "retry" /\ monitor'[a] = "listening"
<1> USE DEF TypeOK
<1>1. CASE UNCHANGED <<exec, monitor, pc, phase, inline, inflight, trouble>> /\ (shutdown => shutdown')
  <2>1. trouble <= trouble'
    BY <1>1, WorkerAssumption
  <2> QED BY <1>1, <2>1, RestKeepsStopFits
<1>2. ASSUME NEW a \in Attempt, ExecutionEnds(a) \/ ExecutionRaises(a) \/ ExecutionIsCancelled(a)
      PROVE  /\ StopFits' /\ UNCHANGED <<phase, inline, inflight, pc, shutdown, trouble, monitor>>
             /\ \A b \in Attempt : exec'[b] = exec[b] \/ ExecutionOrder[exec'[b]] > ExecutionOrder[exec[b]]
  <2>1. /\ UNCHANGED <<phase, inline, inflight, pc, shutdown, trouble, monitor>>
        /\ \/ exec[a] \in {"running", "cancelling"} /\ exec' = [exec EXCEPT ![a] = "ended"]
           \/ exec[a] = "running" /\ exec' = [exec EXCEPT ![a] = "raised"]
    BY <1>2 DEF ExecutionEnds, ExecutionRaises, ExecutionIsCancelled, loopVars
  <2>2. \A b \in Attempt : exec'[b] = exec[b] \/ ExecutionOrder[exec'[b]] > ExecutionOrder[exec[b]]
    BY <2>1 DEF ExecutionOrder
  <2>3. \A b \in Attempt :
          /\ exec'[b] = "none" <=> exec[b] = "none"
          /\ exec[b] \in {"cancelling", "ended"} => exec'[b] \in {"cancelling", "ended"}
          /\ exec[b] = "raised" => exec'[b] \in {"ended", "raised"}
    BY <2>1
  <2> QED BY <2>1, <2>2, <2>3, RestKeepsStopFits
<1>3. ASSUME NEW a \in Attempt, MonitorStep(a)
      PROVE  /\ StopFits' /\ UNCHANGED <<phase, inline, inflight, pc, shutdown, exec>>
             /\ trouble <= trouble'
             /\ \A b \in Attempt :
                  \/ monitor'[b] = monitor[b]
                  \/ MonitorOrder[monitor'[b]] > MonitorOrder[monitor[b]]
                  \/ monitor[b] = "listening" /\ monitor'[b] = "retry" /\ trouble < trouble'
                  \/ monitor[b] = "retry" /\ monitor'[b] = "listening"
  <2>1. PICK state \in {"listening", "retry", "heard", "failed", "ended"} :
          /\ \E stream : Monitor(a, state, stream)
          /\ Listening(a) /\ (Trouble \/ NoTrouble)
          /\ state = "retry" => Trouble /\ monitor[a] = "listening"
          /\ state = "listening" => monitor[a] = "retry"
    BY <1>3 DEF MonitorStep, MonitorReads, MonitorReadFails, MonitorReconnects, MonitorEnds, Listening
  <2>2. /\ UNCHANGED <<phase, inline, inflight, pc, shutdown, exec>>
        /\ monitor' = [monitor EXCEPT ![a] = state]
    BY <2>1 DEF Monitor, loopVars
  <2>3. trouble <= trouble' /\ (Trouble => trouble < trouble')
    BY <2>1, TroubleGrows
  <2>4. monitor'[a] = state /\ \A b \in Attempt \ {a} : monitor'[b] = monitor[b]
    BY <2>2
  <2>5. \/ MonitorOrder[monitor'[a]] > MonitorOrder[monitor[a]]
        \/ monitor[a] = "listening" /\ monitor'[a] = "retry" /\ trouble < trouble'
        \/ monitor[a] = "retry" /\ monitor'[a] = "listening"
    BY <2>1, <2>3, <2>4 DEF MonitorOrder, Listening
  <2>6. StopFits'
    <3>1. \A b \in Attempt : monitor'[b] = "none" <=> monitor[b] = "none"
      BY <2>1, <2>4 DEF Listening
    <3> QED BY <2>2, <3>1, RestKeepsStopFits
  <2> QED BY <2>2, <2>3, <2>4, <2>5, <2>6
<1>4. ASSUME \/ RequestShutdown
             \/ \E a \in Attempt : Assign(a) \/ TakeBack(a) \/ Ask(a) \/ PublishCancel(a)
             \/ \E e \in Entry : Publish(e)
             \/ UNCHANGED vars
      PROVE  UNCHANGED <<exec, monitor, pc, phase, inline, inflight, trouble>> /\ (shutdown => shutdown')
  BY <1>4 DEF RequestShutdown, Assign, TakeBack, Ask, PublishCancel, Publish, World, vars, taskVars, loopVars
<1>5. trouble <= trouble
  BY WorkerAssumption
<1> QED BY <1>1, <1>2, <1>3, <1>4, <1>5

-----------------------------------------------------------------------------
\* What a step of the loop does after a shutdown, in the terms of the orders.
LoopGoesOn ==
  shutdown =>
    /\ LoopAdvances
    /\ shutdown' /\ inflight' \subseteq inflight /\ trouble <= trouble'
    /\ \A x \in Handler :
         \/ pc'[x] = pc[x]
         \/ HandlerOrder[pc'[x]] > HandlerOrder[pc[x]]
         \/ x[2] = "inline"
    /\ \A a \in Attempt :
         /\ exec'[a] = exec[a] \/ ExecutionOrder[exec'[a]] > ExecutionOrder[exec[a]]
         /\ monitor'[a] = monitor[a] \/ MonitorOrder[monitor'[a]] > MonitorOrder[monitor[a]]

LEMMA PhaseGoesOn ==
  ASSUME TypeOK, Trouble \/ NoTrouble \/ UNCHANGED trouble,
         UNCHANGED <<pc, exec, monitor, shutdown>>,
         shutdown => inflight' \subseteq inflight /\ LoopAdvances
  PROVE  LoopGoesOn
<1>1. trouble <= trouble'
  BY TroubleGrows DEF NoTrouble
<1> QED BY <1>1 DEF LoopGoesOn

LEMMA PhaseOrders ==
  /\ PhaseOrder["reconnect"] = 0 /\ PhaseOrder["inline"] = 1 /\ PhaseOrder["poll"] = 2
  /\ PhaseOrder["stopping"] = 3 /\ PhaseOrder["cancelling"] = 4 /\ PhaseOrder["offline"] = 5
  /\ PhaseOrder["gone"] = 6
BY DEF PhaseOrder

\* The loop goes elsewhere, and takes up nothing.
LEMMA QuietLoopSteps ==
  ASSUME WorkerInvariant, StopFits,
         (Read /\ shutdown) \/ ReadFails \/ Reap \/ LeaveLoop \/ BeginStop \/ GoOffline
  PROVE  StopFits' /\ LoopGoesOn
<1>1. TypeOK
  BY DEF WorkerInvariant
<1>2. /\ UNCHANGED <<pc, exec, monitor, inline>> /\ inflight' \subseteq inflight
      /\ Trouble \/ NoTrouble \/ UNCHANGED trouble
      /\ \/ phase = "poll" /\ phase' = "stopping" /\ UNCHANGED shutdown
         \/ phase \in {"stopping", "cancelling"} /\ phase' = "offline" /\ UNCHANGED shutdown
         \/ ~shutdown /\ phase' = "reconnect"
         \/ ~shutdown /\ phase' = phase
  BY DEF Read, ReadFails, Reap, LeaveLoop, BeginStop, GoOffline, Deliver, taskVars, loopVars
<1>3. StopFits'
  BY <1>1, <1>2, RestKeepsStopFits
<1>4. CASE shutdown
  <2>1. /\ UNCHANGED shutdown
        /\ \/ phase = "poll" /\ phase' = "stopping"
           \/ phase \in {"stopping", "cancelling"} /\ phase' = "offline"
    BY <1>2, <1>4
  <2>2. PhaseOrder[phase'] > PhaseOrder[phase]
    BY <2>1, PhaseOrders
  <2>3. LoopAdvances
    BY <2>2 DEF LoopAdvances
  <2>4. UNCHANGED <<pc, exec, monitor, shutdown>>
    BY <1>2, <2>1
  <2>5. (Trouble \/ NoTrouble \/ UNCHANGED trouble) /\ inflight' \subseteq inflight
    BY <1>2
  <2> QED BY <1>1, <1>3, <2>3, <2>4, <2>5, PhaseGoesOn
<1> QED BY <1>3, <1>4 DEF LoopGoesOn

LEMMA ReadGoesOn ==
  ASSUME WorkerInvariant, StopFits, Read, ~shutdown
  PROVE  StopFits'
<1>1. TypeOK /\ HandlersFit
  BY DEF WorkerInvariant
<1>2. PICK S \in SUBSET Entry :
        Deliver(S) /\ pc' = Tasks(S) /\ inflight' = inflight \union S /\ phase = "poll" /\ phase' = "poll"
  BY DEF Read
<1>3. UNCHANGED <<inline, exec, monitor>>
  BY <1>2 DEF Deliver
<1>4. \A x \in Handler : pc'[x] = pc[x] \/ pc'[x] = "check"
  BY <1>2 DEF Tasks
<1>5. ASSUME NEW e \in inflight'
      PROVE  pc'[<<e, "task">>] # "none"
  <2>1. e \in Entry
    BY <1>1, <1>2, <1>5 DEF TypeOK
  <2>2. CASE e \in S
    BY <1>2, <2>1, <2>2, PairIsHandler DEF Tasks
  <2>3. CASE e \notin S
    <3>1. pc[<<e, "task">>] # "none"
      BY <1>2, <1>5, <2>3 DEF StopFits
    <3> QED BY <1>4, <2>1, <3>1, PairIsHandler
  <2> QED BY <2>2, <2>3
<1>6. ASSUME NEW x \in Handler
      PROVE  /\ pc'[x] = "stop" => exec'[Subject(x)] \in {"cancelling", "ended"}
             /\ pc'[x] = "quit" => exec'[Subject(x)] \in {"cancelling", "ended", "raised"}
             /\ pc'[x] \in {"quit", "cancelled"} => x[2] = "task"
  BY <1>3, <1>4 DEF StopFits
<1>7. \A a \in Attempt : exec'[a] = "none" <=> monitor'[a] = "none"
  BY <1>3 DEF StopFits
<1> QED BY <1>2, <1>5, <1>6, <1>7 DEF StopFits, Subject

LEMMA GoInlineGoesOn ==
  ASSUME WorkerInvariant, StopFits, NEW S \in SUBSET Entry, GoInline(S),
         \A e \in Entry : pc[<<e, "inline">>] \in Idle,
         UNCHANGED <<inflight, exec, monitor, shutdown>>, Trouble \/ NoTrouble,
         phase = "reconnect" \/ (phase = "inline" /\ S \subseteq inline /\ S # inline)
  PROVE  StopFits' /\ LoopGoesOn
<1>1. TypeOK
  BY DEF WorkerInvariant
<1>2. trouble <= trouble'
  BY <1>1, TroubleGrows
<1>3. CASE S = {}
  <2>1. pc' = pc /\ phase' = "poll" /\ inline' = {}
    BY <1>3 DEF GoInline
  <2>2. LoopAdvances
    BY <2>1, PhaseOrders DEF LoopAdvances
  <2>3. StopFits'
    BY <2>1 DEF StopFits, Subject
  <2> QED BY <1>2, <2>1, <2>2, <2>3 DEF LoopGoesOn
<1>4. CASE S # {}
  <2>1. PICK e \in S :
          pc' = [x \in Handler |-> IF x = <<e, "inline">> THEN "check"
                                  ELSE IF x[2] = "inline" THEN "none" ELSE pc[x]]
    BY <1>4 DEF GoInline, Inline
  <2>2. phase' = "inline" /\ inline' = S
    BY <1>4 DEF GoInline
  <2>3. LoopAdvances
    BY <2>2, PhaseOrders DEF LoopAdvances
  <2>4. \A x \in Handler :
          /\ x[2] # "inline" => pc'[x] = pc[x]
          /\ x[2] = "inline" => pc'[x] \in {"check", "none"}
    BY <2>1, PairIsHandler
  <2>5. pc'[<<e, "inline">>] = "check"
    BY <2>1, PairIsHandler
  <2>6. \A g \in inflight : pc'[<<g, "task">>] # "none"
    <3> SUFFICES ASSUME NEW g \in inflight PROVE pc'[<<g, "task">>] # "none"
      OBVIOUS
    <3>1. g \in Entry /\ pc[<<g, "task">>] # "none"
      BY <1>1 DEF TypeOK, StopFits
    <3> QED BY <2>4, <3>1, PairIsHandler
  <2>7. ASSUME NEW x \in Handler
        PROVE  /\ pc'[x] = "stop" => exec'[Subject(x)] \in {"cancelling", "ended"}
               /\ pc'[x] = "quit" => exec'[Subject(x)] \in {"cancelling", "ended", "raised"}
               /\ pc'[x] \in {"quit", "cancelled"} => x[2] = "task"
    BY <2>4 DEF StopFits
  <2>8. \A a \in Attempt : exec'[a] = "none" <=> monitor'[a] = "none"
    BY DEF StopFits
  <2>9. StopFits'
    BY <2>2, <2>5, <2>6, <2>7, <2>8 DEF StopFits, Subject
  <2> QED BY <1>2, <2>3, <2>4, <2>9 DEF LoopGoesOn
<1> QED BY <1>3, <1>4

LEMMA RecoveryGoesOn ==
  ASSUME WorkerInvariant, StopFits, Reconnect \/ NextInline
  PROVE  StopFits' /\ LoopGoesOn
<1>1. TypeOK /\ HandlersFit
  BY DEF WorkerInvariant
<1>2. CASE Reconnect
  <2>1. PICK S \in SUBSET Entry : GoInline(S)
    BY <1>2 DEF Reconnect
  <2>2. phase = "reconnect" /\ (Trouble \/ NoTrouble) /\ UNCHANGED <<inflight, exec, monitor, shutdown>>
    BY <1>2 DEF Reconnect
  <2>3. \A e \in Entry : pc[<<e, "inline">>] \in Idle
    BY <1>1, <2>2 DEF HandlersFit
  <2> QED BY <2>1, <2>2, <2>3, GoInlineGoesOn
<1>3. CASE NextInline
  <2>1. phase = "inline" /\ NoTrouble /\ UNCHANGED <<inflight, exec, monitor, shutdown>>
    BY <1>3 DEF NextInline
  <2>2. PICK e \in inline :
          \/ pc[<<e, "inline">>] = "done" /\ GoInline(inline \ {e})
          \/ pc[<<e, "inline">>] = "redis" /\ GoInline({})
          \/ pc[<<e, "inline">>] = "error" /\ phase' = "stopping" /\ inline' = {} /\ UNCHANGED pc
    BY <1>3 DEF NextInline
  <2>3. e \in Entry /\ inline \subseteq Entry
    BY <1>1 DEF TypeOK
  <2>4. ASSUME NEW g \in Entry PROVE pc[<<g, "inline">>] \in Idle
    BY <1>1, <2>1, <2>2, <2>3 DEF HandlersFit, Idle, Finished
  <2>5. CASE \E S \in SUBSET inline : S # inline /\ GoInline(S)
    BY <2>1, <2>3, <2>4, <2>5, GoInlineGoesOn
  <2>6. CASE phase' = "stopping" /\ inline' = {} /\ UNCHANGED pc
    <3>1. LoopAdvances
      BY <2>1, <2>6, PhaseOrders DEF LoopAdvances
    <3>2. StopFits'
      BY <2>1, <2>6 DEF StopFits, Subject
    <3>3. LoopGoesOn
      BY <1>1, <2>1, <2>6, <3>1, PhaseGoesOn
    <3> QED BY <3>2, <3>3
  <2> QED BY <2>2, <2>5, <2>6
<1> QED BY <1>2, <1>3

\* The tasks that the end of the grace period leaves at work wait for an
\* execution that has been cancelled, or has ended.
LEMMA GraceGoesOn ==
  ASSUME WorkerInvariant, StopFits, GraceEnds
  PROVE  StopFits' /\ LoopGoesOn
<1>1. TypeOK /\ OneHandler /\ ExecutionsFit
  BY DEF WorkerInvariant
<1>2. /\ phase = "stopping" /\ phase' = "cancelling" /\ shutdown /\ shutdown'
      /\ UNCHANGED <<inflight, inline, monitor>>
      /\ (Trouble \/ NoTrouble)
      /\ pc' = [x \in Handler |-> IF x \in AtWorkStill THEN WhenCancelled[pc[x]] ELSE pc[x]]
      /\ exec' = [a \in Attempt |->
                   IF exec[a] = "running" /\ a \in Awaited THEN "cancelling" ELSE exec[a]]
  BY DEF GraceEnds
<1>3. trouble <= trouble'
  BY <1>1, <1>2, TroubleGrows
<1>4. LoopAdvances
  BY <1>2, PhaseOrders DEF LoopAdvances
<1>5. \A x \in Handler : x \notin AtWorkStill => pc'[x] = pc[x]
  BY <1>2
<1>6. ASSUME NEW x \in AtWorkStill
      PROVE  /\ x \in Handler /\ x[2] = "task" /\ pc[x] # "none"
             /\ \/ pc'[x] = "cancelled" /\ pc[x] \in {"check", "claim", "group", "attend", "ack"}
                \/ pc'[x] = "quit" /\ pc[x] \in {"wind", "await"} /\ Subject(x) \in Awaited
                \/ pc'[x] = pc[x] /\ pc[x] \in {"stop", "quit"}
  <2>1. /\ x \in Handler /\ x[1] \in inflight /\ x[2] = "task" /\ pc[x] \notin Finished
        /\ x = <<x[1], "task">>
    BY HandlerIsPair DEF AtWorkStill
  <2>2. pc[x] # "none"
    BY <2>1 DEF StopFits
  <2>3. pc[x] \in {"check", "claim", "group", "attend", "wind", "stop", "await", "quit", "ack"}
    BY <1>1, <2>1, <2>2 DEF TypeOK
  <2>4. pc'[x] = WhenCancelled[pc[x]]
    BY <1>2, <2>1
  <2>5. CASE pc[x] \in {"wind", "await"}
    <3>1. Subject(x) \in Awaited
      BY <2>5 DEF Awaited
    <3> QED BY <2>1, <2>2, <2>4, <2>5, <3>1 DEF WhenCancelled
  <2> QED BY <2>1, <2>2, <2>3, <2>4, <2>5 DEF WhenCancelled
<1>7. \A a \in Attempt :
        /\ exec'[a] = exec[a] \/ (exec[a] = "running" /\ exec'[a] = "cancelling")
        /\ exec'[a] = "running" => a \notin Awaited
  BY <1>2
<1>8. ASSUME NEW x \in Handler
      PROVE  /\ pc'[x] = "stop" => exec'[Subject(x)] \in {"cancelling", "ended"}
             /\ pc'[x] = "quit" => exec'[Subject(x)] \in {"cancelling", "ended", "raised"}
             /\ pc'[x] \in {"quit", "cancelled"} => x[2] = "task"
  <2>1. Subject(x) \in Attempt
    BY HandlerIsPair
  <2>2. pc'[x] = "stop" => exec'[Subject(x)] \in {"cancelling", "ended"}
    BY <1>5, <1>6, <1>7, <2>1 DEF StopFits
  <2>3. ASSUME pc'[x] = "quit" PROVE exec'[Subject(x)] \in {"cancelling", "ended", "raised"}
    <3>1. CASE pc[x] = "quit"
      BY <1>7, <2>1, <3>1 DEF StopFits
    <3>2. CASE pc[x] # "quit"
      <4>1. x \in AtWorkStill
        BY <1>5, <2>3, <3>2
      <4>2. pc[x] \in Attending /\ Subject(x) \in Awaited
        BY <1>6, <2>3, <3>2, <4>1 DEF Attending
      <4>3. exec[Subject(x)] \in {"running", "cancelling", "ended", "raised"}
        BY <1>1, <2>1, <4>2 DEF ExecutionsFit, TypeOK
      <4> QED BY <1>2, <2>1, <4>2, <4>3
    <3> QED BY <3>1, <3>2
  <2>4. pc'[x] \in {"quit", "cancelled"} => x[2] = "task"
    BY <1>5, <1>6 DEF StopFits
  <2> QED BY <2>2, <2>3, <2>4
<1>9. \A a \in Attempt : exec'[a] = "none" <=> monitor'[a] = "none"
  BY <1>2, <1>7 DEF StopFits
<1>10. ASSUME NEW e \in inflight PROVE pc'[<<e, "task">>] # "none"
  <2>1. <<e, "task">> \in Handler /\ pc[<<e, "task">>] # "none"
    BY <1>1, PairIsHandler DEF TypeOK, StopFits
  <2> QED BY <1>5, <1>6, <2>1
<1>11. ASSUME NEW x \in AtWorkStill' PROVE pc'[x] \in {"stop", "quit", "ack"}
  <2>1. x \in Handler /\ x[1] \in inflight /\ x[2] = "task" /\ pc'[x] \notin Finished
    BY <1>2 DEF AtWorkStill
  <2>2. x \in AtWorkStill
    BY <1>5, <2>1 DEF AtWorkStill
  <2> QED BY <1>6, <2>1, <2>2 DEF Finished
<1>12. StopFits'
  BY <1>2, <1>8, <1>9, <1>10, <1>11 DEF StopFits, Subject
<1>13. ASSUME NEW x \in Handler PROVE pc'[x] = pc[x] \/ HandlerOrder[pc'[x]] > HandlerOrder[pc[x]]
  BY <1>5, <1>6 DEF HandlerOrder
<1>14. \A a \in Attempt : exec'[a] = exec[a] \/ ExecutionOrder[exec'[a]] > ExecutionOrder[exec[a]]
  BY <1>7 DEF ExecutionOrder
<1> QED BY <1>2, <1>3, <1>4, <1>12, <1>13, <1>14 DEF LoopGoesOn

LEMMA ExitGoesOn ==
  ASSUME WorkerInvariant, StopFits, Exit
  PROVE  StopFits' /\ LoopGoesOn
<1>1. TypeOK
  BY DEF WorkerInvariant
<1>2. /\ phase = "offline" /\ phase' = "gone"
      /\ UNCHANGED <<inflight, inline, shutdown, pc, trouble>>
      /\ exec' = [a \in Attempt |-> IF exec[a] = "none" THEN "none" ELSE "ended"]
      /\ monitor' = [a \in Attempt |-> IF Listening(a) THEN "ended" ELSE monitor[a]]
  BY DEF Exit, worldVars
<1>3. trouble <= trouble'
  BY <1>1, <1>2, WorkerAssumption DEF TypeOK
<1>4. LoopAdvances
  BY <1>2, PhaseOrders DEF LoopAdvances
<1>5. \A a \in Attempt :
        /\ exec'[a] = "none" <=> exec[a] = "none"
        /\ monitor'[a] = "none" <=> monitor[a] = "none"
        /\ exec[a] # "none" => exec'[a] = "ended"
  BY <1>2 DEF Listening
<1>6. StopFits'
  BY <1>1, <1>2, <1>5, RestKeepsStopFits
<1>7. ASSUME NEW a \in Attempt
      PROVE  /\ exec'[a] = exec[a] \/ ExecutionOrder[exec'[a]] > ExecutionOrder[exec[a]]
             /\ monitor'[a] = monitor[a] \/ MonitorOrder[monitor'[a]] > MonitorOrder[monitor[a]]
  <2>1. exec[a] \in {"none", "running", "cancelling", "ended", "raised"}
    BY <1>1 DEF TypeOK
  <2>2. exec'[a] = exec[a] \/ (exec[a] \in {"running", "cancelling", "raised"} /\ exec'[a] = "ended")
    BY <1>2, <2>1
  <2>3. monitor'[a] = monitor[a] \/ (monitor[a] \in {"listening", "retry"} /\ monitor'[a] = "ended")
    BY <1>2 DEF Listening
  <2> QED BY <2>2, <2>3 DEF ExecutionOrder, MonitorOrder
<1> QED BY <1>2, <1>3, <1>4, <1>6, <1>7 DEF LoopGoesOn

LEMMA LoopStepGoesOn ==
  ASSUME WorkerInvariant, StopFits, LoopStep
  PROVE  StopFits' /\ LoopGoesOn
<1>1. CASE Read /\ ~shutdown
  BY <1>1, ReadGoesOn DEF LoopGoesOn
<1>2. CASE Read /\ shutdown
  BY <1>2, QuietLoopSteps
<1>3. CASE ~Read
  BY <1>3, QuietLoopSteps, RecoveryGoesOn, GraceGoesOn, ExitGoesOn DEF LoopStep
<1> QED BY <1>1, <1>2, <1>3

-----------------------------------------------------------------------------
LEMMA StopFitsInit ==
  ASSUME Init
  PROVE  StopFits
<1>1. \A x \in Handler : pc[x] = "none"
  BY DEF Init
<1>2. \A a \in Attempt : exec[a] = "none" /\ monitor[a] = "none"
  BY DEF Init
<1>3. phase = "poll" /\ inflight = {}
  BY DEF Init
<1> QED BY <1>1, <1>2, <1>3 DEF StopFits

LEMMA StopFitsStep ==
  ASSUME WorkerInvariant, StopFits, [Next]_vars
  PROVE  StopFits'
<1>1. CASE LoopStep
  BY <1>1, LoopStepGoesOn
<1>2. ASSUME NEW x \in Handler, HandlerStep(x) PROVE StopFits'
  BY <1>2, HandlersGoOn, HandlerKeepsStopFits
<1>3. CASE ~LoopStep /\ ~\E x \in Handler : HandlerStep(x)
  <2>1. TypeOK
    BY DEF WorkerInvariant
  <2> QED BY <1>3, <2>1, OthersGoOn DEF Next
<1> QED BY <1>1, <1>2, <1>3

LEMMA WorkerKeepsStopFits == Spec => [](WorkerInvariant /\ StopFits)
<1>1. Init => WorkerInvariant /\ StopFits
  BY WorkerInit, StopFitsInit
<1>2. WorkerInvariant /\ StopFits /\ [Next]_vars => (WorkerInvariant /\ StopFits)'
  BY WorkerStep, StopFitsStep
<1> QED BY <1>1, <1>2, PTL DEF Spec

-----------------------------------------------------------------------------
\* The one place where a handler can stand still: it waits for an execution
\* whose monitor is no more.
LEMMA WhoStandsStill ==
  ASSUME WorkerInvariant, StopFits, NEW x \in Handler, pc[x] \notin Idle, ~HandlerCanGoOn(x),
         exec[Subject(x)] # "cancelling", ~Listening(Subject(x))
  PROVE  pc[x] = "await" /\ exec[Subject(x)] = "running"
<1> DEFINE a == Subject(x)
<1>1. a \in Attempt /\ TypeOK /\ ExecutionsFit
  BY HandlerIsPair DEF WorkerInvariant
<1>2. pc[x] \in {"attend", "wind", "stop", "await", "quit"}
  BY <1>1 DEF TypeOK, Idle, HandlerCanGoOn
<1>3. exec[a] \in {"running", "ended", "raised"} /\ monitor[a] \in {"heard", "failed", "ended"}
  BY <1>1, <1>2 DEF TypeOK, ExecutionsFit, Attending, StopFits, Listening
<1>4. pc[x] \notin {"attend", "wind"}
  BY <1>3 DEF HandlerCanGoOn
<1>5. pc[x] \notin {"stop", "quit"}
  BY <1>3 DEF HandlerCanGoOn, StopFits
<1> QED BY <1>2, <1>3, <1>4, <1>5 DEF HandlerCanGoOn

\* After a shutdown, until the process is gone, something can go on: a step of
\* the loop (run_forever, stop), of a handler (handle_assignment), of a cancelled
\* execution or of a monitor (_wait_for_cancel), however they are interleaved
\* and whatever failed, unless the loop itself waits for an execution.
THEOREM StopsNeverStandStill == Spec => []StopNeverStandsStill
<1>1. ASSUME WorkerInvariant, StopFits, shutdown, phase # "gone", ~SomethingCanGoOn
      PROVE  Blocked
  <2>1. TypeOK /\ ~LoopCanGoOn
    BY <1>1 DEF WorkerInvariant, SomethingCanGoOn
  <2>2. phase \in {"inline", "stopping", "cancelling"}
    BY <1>1, <2>1 DEF TypeOK, LoopCanGoOn
  <2>3. ASSUME NEW x \in Handler, pc[x] \notin Idle
        PROVE  pc[x] = "await" /\ exec[Subject(x)] = "running"
    <3>1. Subject(x) \in Attempt
      BY HandlerIsPair
    <3> QED BY <1>1, <2>3, <3>1, WhoStandsStill DEF SomethingCanGoOn
  <2>4. ASSUME NEW x \in AtWorkStill
        PROVE  x \in Handler /\ pc[x] = "await"
    <3>1. x \in Handler /\ x[1] \in inflight /\ x[2] = "task" /\ pc[x] \notin Finished
          /\ x = <<x[1], "task">>
      BY HandlerIsPair DEF AtWorkStill
    <3>2. pc[x] \notin Idle
      BY <1>1, <3>1 DEF StopFits, Idle
    <3> QED BY <2>3, <3>1, <3>2
  <2>5. CASE phase = "inline"
    <3>1. PICK e \in inline : pc[<<e, "inline">>] # "none"
      BY <1>1, <2>5 DEF StopFits
    <3>2. /\ e \in Entry /\ <<e, "inline">> \in Handler /\ <<e, "inline">>[2] = "inline"
          /\ Subject(<<e, "inline">>) = AttemptOf[e]
      BY <2>1, <3>1, PairIsHandler DEF TypeOK
    <3>3. pc[<<e, "inline">>] \notin Idle
      BY <1>1, <2>1, <2>5, <3>1, <3>2 DEF StopFits, LoopCanGoOn, Idle, Finished
    <3>4. pc[<<e, "inline">>] = "await" /\ exec[Subject(<<e, "inline">>)] = "running"
      BY <2>3, <3>2, <3>3
    <3> QED BY <3>1, <3>2, <3>4 DEF Blocked
  <2>6. CASE phase = "stopping"
    BY <2>1, <2>4, <2>6 DEF LoopCanGoOn
  <2>7. CASE phase = "cancelling"
    <3>1. PICK x \in AtWorkStill : TRUE
      BY <2>1, <2>7 DEF LoopCanGoOn
    <3> QED BY <1>1, <2>4, <2>7, <3>1 DEF StopFits
  <2> QED BY <2>2, <2>5, <2>6, <2>7
<1>2. WorkerInvariant /\ StopFits => StopNeverStandsStill
  BY <1>1 DEF StopNeverStandsStill
<1> QED BY <1>2, WorkerKeepsStopFits, PTL

\* After a shutdown every step only brings the loop, the handlers, the
\* executions and the monitors nearer to their end, and none of theirs leaves
\* them where they were: no task is started, no handler, execution or monitor
\* is started over, and as many retries happen as there are faults.
THEOREM StopsOnlyAdvance == Spec => [][StopsAdvance]_vars
<1>1. ASSUME WorkerInvariant, StopFits, [Next]_vars PROVE NothingStartsOver
  <2>1. TypeOK
    BY <1>1 DEF WorkerInvariant
  <2>2. CASE LoopStep
    BY <1>1, <2>2, LoopStepGoesOn DEF LoopGoesOn, NothingStartsOver
  <2>3. ASSUME NEW x \in Handler, HandlerStep(x) PROVE NothingStartsOver
    <3> DEFINE a == Subject(x)
    <3>1. HandlerGoesOn(x)
      BY <1>1, <2>3, HandlersGoOn
    <3>2. UNCHANGED <<phase, inline, inflight, shutdown>> /\ trouble <= trouble'
      BY <3>1 DEF HandlerGoesOn
    <3>3. ASSUME NEW y \in Handler
          PROVE  pc'[y] = pc[y] \/ HandlerOrder[pc'[y]] > HandlerOrder[pc[y]]
      <4>1. pc' = [pc EXCEPT ![x] = pc'[x]] /\ HandlerOrder[pc'[x]] > HandlerOrder[pc[x]]
        BY <3>1 DEF HandlerGoesOn
      <4>2. y # x => pc'[y] = pc[y]
        BY <2>1, <4>1 DEF TypeOK
      <4> QED BY <4>1, <4>2
    <3>4. ASSUME NEW b \in Attempt
          PROVE  /\ exec'[b] = exec[b] \/ ExecutionOrder[exec'[b]] > ExecutionOrder[exec[b]]
                 /\ monitor'[b] = monitor[b] \/ MonitorOrder[monitor'[b]] > MonitorOrder[monitor[b]]
      BY <3>1 DEF HandlerGoesOn
    <3> QED BY <3>2, <3>3, <3>4 DEF NothingStartsOver
  <2>4. CASE ~LoopStep /\ ~\E x \in Handler : HandlerStep(x)
    <3>1. \/ RequestShutdown
          \/ \E a \in Attempt :
               \/ Assign(a) \/ TakeBack(a) \/ Ask(a) \/ PublishCancel(a)
               \/ ExecutionEnds(a) \/ ExecutionRaises(a) \/ ExecutionIsCancelled(a)
               \/ MonitorStep(a)
          \/ \E e \in Entry : Publish(e)
          \/ UNCHANGED vars
      BY <1>1, <2>4 DEF Next
    <3> QED BY <1>1, <2>1, <3>1, OthersGoOn DEF NothingStartsOver
  <2> QED BY <2>2, <2>3, <2>4
<1>2. ASSUME WorkerInvariant, StopFits PROVE StepsAdvance
  <2>1. TypeOK
    BY <1>2 DEF WorkerInvariant
  <2>2. ASSUME shutdown, LoopStep PROVE LoopAdvances
    BY <1>2, <2>2, LoopStepGoesOn DEF LoopGoesOn
  <2>3. ASSUME NEW x \in Handler, HandlerStep(x) PROVE HandlerOrder[pc'[x]] > HandlerOrder[pc[x]]
    BY <1>2, <2>3, HandlersGoOn DEF HandlerGoesOn
  <2>4. ASSUME NEW a \in Attempt, ExecutionIsCancelled(a) PROVE exec'[a] # exec[a]
    BY <2>1, <2>4 DEF TypeOK, ExecutionIsCancelled
  <2>5. ASSUME NEW a \in Attempt, MonitorStep(a) PROVE monitor'[a] # monitor[a]
    <3>1. CASE MonitorReads(a)
      BY <2>1, <3>1 DEF TypeOK, MonitorReads, Monitor
    <3>2. CASE MonitorReadFails(a)
      BY <2>1, <3>2 DEF TypeOK, MonitorReadFails, Monitor
    <3>3. CASE MonitorReconnects(a)
      BY <2>1, <3>3 DEF TypeOK, MonitorReconnects, Monitor
    <3>4. CASE MonitorEnds(a)
      BY <2>1, <3>4 DEF TypeOK, MonitorEnds, Monitor, Listening
    <3> QED BY <2>5, <3>1, <3>2, <3>3, <3>4 DEF MonitorStep
  <2> QED BY <2>2, <2>3, <2>4, <2>5 DEF StepsAdvance
<1>3. WorkerInvariant /\ StopFits /\ [Next]_vars => StopsAdvance
  BY <1>1, <1>2 DEF StopsAdvance
<1> QED BY <1>3, WorkerKeepsStopFits, PTL DEF Spec
=============================================================================
