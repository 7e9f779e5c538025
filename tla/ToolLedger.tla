------------------------------- MODULE ToolLedger -------------------------------
(***************************************************************************)
(* The tool-execution ledger of one Run and the executions that use it     *)
(* (services/attempt_service.py, services/run_chat_worker.py).             *)
(*                                                                         *)
(* An execution reserves every tool call in run_tool_executions before the *)
(* call runs and records its outcome afterwards.  Between the two a Worker *)
(* may die, lose its lease and go on unaware (a zombie), be slower than    *)
(* the reservation, or be cancelled.  A call of an unsafe tool needs the   *)
(* consent of the user before it runs, and again when a crash leaves its   *)
(* outcome in doubt.                                                       *)
(*                                                                         *)
(* A token is as good as the epoch it is issued with, so the epoch stands  *)
(* for both.  A call id stands for its tool and arguments; the provider of *)
(* the model may issue an id again to an execution that starts over.       *)
(***************************************************************************)
EXTENDS Naturals, FiniteSets, Sequences, SequencesExt

CONSTANTS
  Call,         \* tool_call_id
  Safe,         \* calls of tools in the catalog of safe, idempotent tools
  Meaning,      \* [Call -> anything]: semantic_key
  Repeatable,   \* calls of tools that are read_only or idempotent
  MaxTries,     \* [Call -> Nat]: max_attempts of the tool
  Cached,       \* calls of registry tools, whose answers are kept for the same arguments
  MaxAttempts,  \* Attempts of the Run that are followed
  Batch,        \* what an answer of the model may ask for: sequences of calls
  FlagSeen      \* whether load_chat_execution may find queue_reason = "resume"

ASSUME ToolLedgerAssumption ==
  /\ IsFiniteSet(Call) /\ {Safe, Repeatable, Cached} \subseteq SUBSET Call
  /\ MaxTries \in [Call -> Nat \ {0}]
  /\ MaxAttempts \in Nat \ {0}
  /\ \A s \in Batch : s \in Seq(Call) \ {<<>>} /\ IsInjective(s)
  /\ FlagSeen \in (SUBSET BOOLEAN) \ {{}}

VARIABLES
  \* tables
  run,       \* "queued", "running", "waiting", "over"
  attempt,   \* number of the last Attempt
  lease,     \* its lease is valid
  retried,   \* retry_count
  resumed,   \* the Run was queued by the answer to a pause
  pause,     \* the last RunPause
  row,       \* run_tool_executions by tool_call_id
  \* executions, by Attempt
  pc, used, consent, bound, refused, todo, held, out,
  tries,     \* how often the scheduler has run, without an answer yet, a call of the batch
  \* history
  consents,  \* how often the user allowed a call
  effects    \* how often the side effect of a call took place, by epoch

tables == <<run, attempt, lease, retried, resumed, pause, row>>
process == <<pc, used, consent, bound, refused, todo, held, out, tries>>
history == <<consents, effects>>
vars == <<tables, process, history>>

Attempt == 1 .. MaxAttempts
Unsafe == Call \ Safe

NoRow == [status |-> "none", by |-> 0, epoch |-> 0, fresh |-> FALSE]
NoPause == [kind |-> "none", calls |-> <<>>, asked |-> {}, yes |-> {},
            blanket |-> FALSE, used |-> {}]

InDoubt == {"started", "approval_required"}
Deciding == {"ask", "refuse"}
Working == {"think", "reserve", "perform", "record"}

TypeOK ==
  /\ run \in {"queued", "running", "waiting", "over"}
  /\ attempt \in 0 .. MaxAttempts
  /\ lease \in BOOLEAN /\ retried \in BOOLEAN /\ resumed \in BOOLEAN
  /\ pause.kind \in {"none", "consent", "doubt"}
  /\ pause.calls \in Seq(Call) /\ pause.yes \subseteq pause.asked
  /\ row \in [Call -> [status : {"none", "started", "completed", "failed", "approval_required"},
                       by : 0 .. MaxAttempts, epoch : 0 .. MaxAttempts, fresh : BOOLEAN]]
  /\ pc \in [Attempt -> {"none", "recover", "over"} \union Deciding \union Working]
  /\ \A a \in Attempt : todo[a] \in Seq(Call) /\ held[a] \in Seq(Call \X (1 .. MaxAttempts))
  /\ out \in [Attempt -> [Call -> {"none", "ok", "error"}]]
  /\ tries \in [Attempt -> [Call -> Nat]]
  /\ consents \in [Call -> Nat]
  /\ effects \in [Call -> [1 .. MaxAttempts -> Nat]]

Init ==
  /\ run = "queued" /\ attempt = 0 /\ lease = FALSE /\ retried = FALSE /\ resumed = FALSE
  /\ pause = NoPause
  /\ row = [c \in Call |-> NoRow]
  /\ pc = [a \in Attempt |-> "none"]
  /\ used = [a \in Attempt |-> {}]
  /\ consent = [a \in Attempt |-> {}]
  /\ bound = [a \in Attempt |-> {}]
  /\ refused = [a \in Attempt |-> {}]
  /\ todo = [a \in Attempt |-> <<>>]
  /\ held = [a \in Attempt |-> <<>>]
  /\ out = [a \in Attempt |-> [c \in Call |-> "none"]]
  /\ tries = [a \in Attempt |-> [c \in Call |-> 0]]
  /\ consents = [c \in Call |-> 0]
  /\ effects = [c \in Call |-> [e \in 1 .. MaxAttempts |-> 0]]

-----------------------------------------------------------------------------
\* _require_assignment_authoritative.
Authority(a) == run = "running" /\ a = attempt /\ lease

Goto(a, where) == pc' = [pc EXCEPT ![a] = where]

\* The execution ends and its memory with it.
Forget(a) ==
  /\ Goto(a, "over")
  /\ used' = [used EXCEPT ![a] = {}]
  /\ consent' = [consent EXCEPT ![a] = {}]
  /\ bound' = [bound EXCEPT ![a] = {}]
  /\ refused' = [refused EXCEPT ![a] = {}]
  /\ todo' = [todo EXCEPT ![a] = <<>>]
  /\ held' = [held EXCEPT ![a] = <<>>]
  /\ out' = [out EXCEPT ![a] = [c \in Call |-> "none"]]
  /\ tries' = [tries EXCEPT ![a] = [c \in Call |-> 0]]

\* complete_chat, fail_chat and _converge_invalid_approval end the Run if the
\* Attempt still has authority; if not the command is rejected and the
\* execution just ends.
Close(a) ==
  /\ Forget(a)
  /\ run' = IF Authority(a) THEN "over" ELSE run
  /\ UNCHANGED <<attempt, lease, retried, resumed, pause, row, history>>

\* pause_chat.
Wait(a, p) ==
  /\ Forget(a)
  /\ IF Authority(a) THEN run' = "waiting" /\ pause' = p ELSE UNCHANGED <<run, pause>>
  /\ UNCHANGED <<attempt, lease, retried, resumed, row, history>>

-----------------------------------------------------------------------------
(* The control plane around an execution.                                  *)

\* Mutant: every call that was asked about counts as allowed.
ApprovedIfAsked(p) == p.asked

\* _approved_tool_call_ids: a plain "approved" covers every pending call, also
\* those nobody asked about.
Approved(p) == IF p.blanket THEN Range(p.calls) ELSE p.yes

\* The calls of S as they follow each other in the sequence calls.
InOrder(S, calls) ==
  {s \in SetToSeqs(S \intersect Range(calls)) :
     \A i, j \in DOMAIN s : i < j =>
       \E m, n \in DOMAIN calls : m < n /\ calls[m] = s[i] /\ calls[n] = s[j]}

\* schedule_once, claim and load_chat_execution.  The continuation, and with
\* it what the user answered, is loaded only while queue_reason is "resume".
Claim(a) ==
  /\ run = "queued" /\ a = attempt + 1
  /\ run' = "running" /\ attempt' = a /\ lease' = TRUE /\ resumed' = FALSE
  /\ Goto(a, "recover")
  /\ \E seen \in FlagSeen :
       LET loaded == seen /\ resumed
           said(S) == IF loaded THEN S ELSE {} IN
       /\ consent' = [consent EXCEPT ![a] = said(Approved(pause))]
       /\ bound' = [bound EXCEPT ![a] = said(IF pause.kind = "doubt" THEN pause.yes ELSE {})]
       /\ refused' = [refused EXCEPT ![a] =
                        said(IF pause.kind = "doubt" THEN pause.asked \ pause.yes ELSE {})]
       /\ used' = [used EXCEPT ![a] = said(pause.used \union Range(pause.calls))]
       /\ \E order \in InOrder((Call \ pause.asked) \union Approved(pause), pause.calls) :
            todo' = [todo EXCEPT ![a] = IF loaded THEN order ELSE <<>>]
  /\ UNCHANGED <<retried, pause, row, held, out, tries, history>>

\* The Worker stops renewing: it hangs or is cut off.
LeaseLapses ==
  /\ run = "running" /\ lease
  /\ lease' = FALSE
  /\ UNCHANGED <<run, attempt, retried, resumed, pause, row, process, history>>

\* The process dies; the rows it started stay as they are.
Crash(a) ==
  /\ pc[a] \notin {"none", "over"}
  /\ Forget(a)
  /\ UNCHANGED <<tables, history>>

\* recover_expired_attempts: one retry, with queue_reason "retry".
Recover ==
  /\ run = "running" /\ ~lease
  /\ IF retried THEN run' = "over" /\ UNCHANGED retried
     ELSE run' = "queued" /\ retried' = TRUE
  /\ UNCHANGED <<attempt, lease, resumed, pause, row, process, history>>

\* cancel_run: no command of the execution is accepted any more.
Cancel ==
  /\ run \in {"queued", "running", "waiting"}
  /\ run' = "over"
  /\ UNCHANGED <<attempt, lease, retried, resumed, pause, row, process, history>>

\* resume_run: the user answers for every call that was asked about, one by one
\* or for all of them.
Answer ==
  /\ run = "waiting"
  /\ \E yes \in SUBSET pause.asked, blanket \in BOOLEAN :
       /\ blanket => yes = pause.asked
       /\ pause' = [pause EXCEPT !.yes = yes, !.blanket = blanket]
       /\ consents' = [c \in Call |-> IF c \in yes THEN consents[c] + 1 ELSE consents[c]]
  /\ run' = "queued" /\ resumed' = TRUE
  /\ UNCHANGED <<attempt, lease, retried, row, process, effects>>

\* The database clock passes reservation_expires_at.
ReservationLapses(c) ==
  /\ row[c].status = "started" /\ row[c].fresh
  /\ row' = [row EXCEPT ![c].fresh = FALSE]
  /\ UNCHANGED <<run, attempt, lease, retried, resumed, pause, process, history>>

-----------------------------------------------------------------------------
(* An execution before its model runs.                                     *)

\* Mutant: calls that were still running when their Worker died are not in doubt.
DoubtfulIfHeld(a) == {c \in Unsafe : row[c].status = "approval_required" /\ row[c].by # a}

\* Unsafe calls of other Attempts without an outcome.
Doubtful(a) == {c \in Unsafe : row[c].status \in InDoubt /\ row[c].by # a}

\* A resumed loop dispatches the calls it was paused with, any other asks the
\* model first.
Start(a) == IF todo[a] # <<>> THEN "reserve" ELSE "think"

\* find_unsafe_recoveries, and what execute_assignment makes of the result.
FindRecoveries(a) ==
  /\ pc[a] = "recover" /\ Authority(a)
  /\ row' = [c \in Call |-> IF c \in Doubtful(a) THEN [row[c] EXCEPT !.status = "approval_required",
                                                                    !.fresh = FALSE]
                            ELSE row[c]]
  /\ Goto(a, IF Doubtful(a) # {} /\ bound[a] \union refused[a] # Doubtful(a) THEN "ask"
             ELSE IF refused[a] # {} THEN "refuse" ELSE Start(a))
  /\ UNCHANGED <<run, attempt, lease, retried, resumed, pause, used, consent, bound, refused,
                 todo, held, out, tries, history>>

\* _unsafe_recovery_pause: the pause names the rows, and its continuation
\* knows of nothing but their calls.
AskAboutDoubt(a) ==
  /\ pc[a] = "ask"
  /\ \E order \in SetToSeqs(Doubtful(a)) :
       Wait(a, [kind |-> "doubt", calls |-> order, asked |-> Doubtful(a), yes |-> {},
               blanket |-> FALSE, used |-> {}])

\* reject_tool_executions: all of the refused rows or none.
Refuse(a) ==
  /\ pc[a] = "refuse" /\ Authority(a)
  /\ \A c \in refused[a] : row[c].status = "approval_required"
  /\ row' = [c \in Call |-> IF c \in refused[a] THEN [row[c] EXCEPT !.status = "failed",
                                                                    !.fresh = FALSE]
                            ELSE row[c]]
  /\ Goto(a, Start(a))
  /\ UNCHANGED <<run, attempt, lease, retried, resumed, pause, used, consent, bound, refused,
                 todo, held, out, tries, history>>

\* Without authority the transaction is rejected.
StopEarly(a) ==
  /\ pc[a] \in {"recover", "refuse"}
  /\ ~Authority(a) \/ (pc[a] = "refuse" /\ \E c \in refused[a] : row[c].status # "approval_required")
  /\ Close(a)

-----------------------------------------------------------------------------
(* The loop and the durable hub.                                           *)

\* The model asks for tools; DurableApprovalController pauses the Run when a
\* tool among them is unsafe and the user has not allowed it.
Think(a) ==
  /\ pc[a] = "think"
  /\ \E calls \in Batch :
       LET risky == {c \in Range(calls) : c \in Unsafe /\ c \notin consent[a]} IN
       /\ Range(calls) \intersect used[a] = {}
       /\ IF risky # {}
          THEN Wait(a, [kind |-> "consent", calls |-> calls, asked |-> risky, yes |-> {},
                        blanket |-> FALSE, used |-> used[a]])
          ELSE /\ Goto(a, "reserve")
               /\ used' = [used EXCEPT ![a] = @ \union Range(calls)]
               /\ todo' = [todo EXCEPT ![a] = calls]
               /\ UNCHANGED <<tables, consent, bound, refused, held, out, tries, history>>

\* The model answers, or the execution fails.
Finish(a) ==
  /\ pc[a] = "think"
  /\ Close(a)

\* Mutant: an approval is good for a row of any provenance.
VerdictOfAnyApproval(a, c) ==
  IF row[c].status = "none"
  THEN IF c \in Safe \union consent[a] THEN "start" ELSE "hold"
  ELSE IF row[c].status = "completed" \/ (row[c].status = "started" /\ row[c].fresh) THEN "reuse"
  ELSE IF row[c].status = "started" /\ c \in Unsafe THEN "hold"
  ELSE IF c \in Unsafe /\ c \notin consent[a] THEN "reuse" ELSE "start"

\* What reserve_tool_execution decides about a call.
Verdict(a, c) ==
  LET old == row[c]
      approved == c \in consent[a]
      ambiguous == \E d \in Unsafe \ {c} : Meaning[d] = Meaning[c] /\ row[d].status \in InDoubt
  IN IF old.status = "none"
     THEN IF c \in bound[a] THEN "reject"
          ELSE IF approved \/ (c \in Safe /\ ~ambiguous) THEN "start" ELSE "hold"
     ELSE IF old.status = "completed" \/ (old.status = "started" /\ old.fresh) THEN "reuse"
     ELSE IF old.status = "started" /\ c \in Unsafe THEN "hold"
     ELSE IF old.status # "started" /\ c \in Unsafe /\ ~approved THEN "reuse"
     ELSE IF approved /\ ~(c \in bound[a] /\ old.status = "approval_required") THEN "reject"
     ELSE "start"

\* Mutant: a row that is reserved again keeps its epoch.
SameReservation(a, c) ==
  [status |-> "started", by |-> a, epoch |-> IF row[c].epoch = 0 THEN 1 ELSE row[c].epoch,
   fresh |-> TRUE]

Reservation(a, c) == [status |-> "started", by |-> a, epoch |-> row[c].epoch + 1, fresh |-> TRUE]

\* DurableToolHub.dispatch reserves its calls one by one.
Reserve(a) ==
  /\ pc[a] = "reserve" /\ todo[a] # <<>> /\ Authority(a)
  /\ LET c == Head(todo[a])
         v == Verdict(a, c) IN
     /\ v # "reject"
     /\ row' = CASE v = "start" -> [row EXCEPT ![c] = Reservation(a, c)]
                 [] v = "hold" -> [row EXCEPT ![c] = [status |-> "approval_required",
                                     by |-> IF @.status = "none" THEN a ELSE @.by,
                                     epoch |-> @.epoch, fresh |-> FALSE]]
                 [] OTHER -> row
     /\ held' = IF v = "start" THEN [held EXCEPT ![a] = Append(@, <<c, Reservation(a, c).epoch>>)] ELSE held
  /\ todo' = [todo EXCEPT ![a] = Tail(@)]
  /\ Goto(a, IF Len(todo[a]) > 1 THEN "reserve" ELSE IF held'[a] = <<>> THEN "think" ELSE "perform")
  /\ UNCHANGED <<run, attempt, lease, retried, resumed, pause, used, consent, bound, refused, out,
                 tries, history>>

\* Any AttemptCommandRejected is a tool_error for the loop and fails the Run.
ReserveRejected(a) ==
  /\ pc[a] = "reserve"
  /\ ~Authority(a) \/ Verdict(a, Head(todo[a])) = "reject"
  /\ Close(a)

\* _should_retry, after n attempts.
ShouldRetry(c, n) == c \in Repeatable /\ n < MaxTries[c]

\* The delegate runs a tool of the batch, and runs it again, under the same
\* reservation, if it may and the error was a timeout or transient.  A tool that
\* reports an error may have had its effect; one of the registry may answer from
\* what was kept of an earlier run and have none.
Perform(a) ==
  /\ pc[a] = "perform"
  /\ \E i \in DOMAIN held[a] :
       LET c == held[a][i][1] e == held[a][i][2] IN
       /\ out[a][c] = "none"
       /\ \E o \in {"ok", "error", "none"}, took \in BOOLEAN :
            /\ o = "ok" => took \/ c \in Cached
            /\ o = "none" => ShouldRetry(c, tries[a][c] + 1)
            /\ out' = [out EXCEPT ![a][c] = o]
            /\ tries' = [tries EXCEPT ![a][c] = IF o = "none" THEN @ + 1 ELSE 0]
            /\ effects' = IF took THEN [effects EXCEPT ![c][e] = @ + 1] ELSE effects
  /\ Goto(a, IF \A i \in DOMAIN held[a] : out'[a][held[a][i][1]] # "none" THEN "record" ELSE "perform")
  /\ UNCHANGED <<tables, used, consent, bound, refused, todo, held, consents>>

\* Mutant: the epoch is taken for the whole authority.
RecordableByEpoch(a, c, e) == row[c].epoch = e

\* complete_tool_execution and fail_tool_execution accept the outcome of the
\* reservation that is in force.
Recordable(a, c, e) ==
  /\ Authority(a)
  /\ row[c].status = "started" /\ row[c].epoch = e /\ row[c].by = a /\ row[c].fresh

\* Outcomes are recorded in order, after the last tool of the batch.
Record(a) ==
  /\ pc[a] = "record"
  /\ LET c == Head(held[a])[1] e == Head(held[a])[2] IN
     /\ Recordable(a, c, e)
     /\ row' = [row EXCEPT ![c].status = IF out[a][c] = "ok" THEN "completed" ELSE "failed"]
     /\ out' = [out EXCEPT ![a][c] = "none"]
  /\ held' = [held EXCEPT ![a] = Tail(@)]
  /\ Goto(a, IF Len(held[a]) = 1 THEN "think" ELSE "record")
  /\ UNCHANGED <<run, attempt, lease, retried, resumed, pause, used, consent, bound, refused, todo,
                 tries, history>>

RecordRejected(a) ==
  /\ pc[a] = "record"
  /\ ~Recordable(a, Head(held[a])[1], Head(held[a])[2])
  /\ Close(a)

-----------------------------------------------------------------------------
Execution(a) ==
  \/ FindRecoveries(a) \/ AskAboutDoubt(a) \/ Refuse(a) \/ StopEarly(a)
  \/ Think(a) \/ Finish(a) \/ Reserve(a) \/ ReserveRejected(a)
  \/ Perform(a) \/ Record(a) \/ RecordRejected(a)

Next ==
  \/ LeaseLapses \/ Recover \/ Cancel \/ Answer
  \/ \E c \in Call : ReservationLapses(c)
  \/ \E a \in Attempt : Claim(a) \/ Crash(a) \/ Execution(a)

Spec == Init /\ [][Next]_vars

-----------------------------------------------------------------------------
(* Properties.                                                             *)

\* How often the tool of a call is run under one reservation.
MostRuns(c) == IF c \in Repeatable THEN MaxTries[c] ELSE 1

\* An unsafe call acts under no more epochs than the user gave consents to it,
\* whatever crashes, retries, zombies and repeated ids do; and a call of a tool
\* that changes something, which has one run, at most once for each consent.  (A
\* tool that reads and is not in the catalog needs consent too, and may have two.)
UnsafeNeedsConsent ==
  \A c \in Unsafe :
    /\ Cardinality({e \in 1 .. MaxAttempts : effects[c][e] > 0}) <= consents[c]
    /\ MostRuns(c) = 1 => \A e \in 1 .. MaxAttempts : effects[c][e] <= 1

\* One reservation stands for no more runs of the tool than its definition
\* allows, over whatever crashes and zombies, and for one of a tool that changes
\* something; and a row that says "completed" describes a run under its epoch, or
\* an answer that was kept.
OutcomeDescribesItsEpoch ==
  /\ TypeOK
  /\ \A c \in Call :
       /\ \A e \in 1 .. MaxAttempts : effects[c][e] <= MostRuns(c)
       /\ row[c].status = "completed" =>
            row[c].epoch > 0 /\ (c \in Cached \/ effects[c][row[c].epoch] > 0)

\* The model and the tools of an Attempt run only after every unsafe call that
\* an earlier Attempt left without an outcome was decided by the user.
DoubtIsDecidedFirst ==
  \A a \in Attempt :
    pc[a] \in Working /\ Authority(a) =>
      \A c \in Doubtful(a) : row[c].status = "approval_required" /\ c \in bound[a]

\* As long as the user is asked about calls in doubt, or has answered and nobody
\* acted on it yet, none of them gets an outcome after all.
QuestionsStayOpen ==
  pause.kind = "doubt" /\ (run = "waiting" \/ (run = "queued" /\ resumed)) =>
    \A c \in pause.asked : row[c].status = "approval_required"

\* A completed call is never run again, and neither is an unsafe call that
\* failed or that the user refused.
SettledCallsStaySettled ==
  [][\A c \in Call :
       row[c].status = "completed" \/ (row[c].status = "failed" /\ c \in Unsafe)
         => row'[c] = row[c]]_vars
=============================================================================
