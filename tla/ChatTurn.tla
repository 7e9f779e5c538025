------------------------------- MODULE ChatTurn -------------------------------
(***************************************************************************)
(* One turn of ToolLoop.run: gates, a model call, the tool calls it asks   *)
(* for, again, until the model answers, a gate forces it to, or the turn   *)
(* pauses for the user and goes on from its snapshot in another process.   *)
(*                                                                         *)
(* A tool call is known by its signature (tool and arguments) and by its   *)
(* place: the step of the model call and its position there.  Which order  *)
(* and outcome the calls of a batch have is the business of ToolScheduler; *)
(* here any is possible.  A turn may stop anywhere: the model or the       *)
(* dispatch raises, a question does not come alone, the user cancels.      *)
(***************************************************************************)
EXTENDS Naturals, FiniteSets, Sequences

CONSTANTS
  Signature,        \* what the model may call
  AskUser,          \* the call that asks the user
  Risky,            \* not safe_to_retry: the user is asked first
  Unmatched,        \* recorded under another signature than the call has
  MaxBatch,         \* bound: calls of one model call
  MaxSteps, MaxBudget, BurnThreshold, MaxFailures,  \* GateConfig
  Margin,           \* max_cny * budget_dispatch_margin_ratio
  MaxCost           \* bound: cost of a model call

ASSUME TurnAssumption ==
  /\ AskUser \in Signature
  /\ Risky \subseteq Signature \ {AskUser}
  /\ Unmatched \subseteq Signature \ {AskUser}
  /\ {MaxBatch, MaxSteps, MaxBudget, BurnThreshold, MaxFailures, Margin, MaxCost} \subseteq Nat \ {0}

VARIABLES
  turn,        \* where the loop is
  messages,    \* state.messages
  step,        \* state.step
  entries,     \* state.ledger.entries, each with the place of its call
  burned,      \* state.burned_signatures
  spentCny,    \* state.budget_spent_cny
  pending,     \* the calls of the last model call, until they have results
  consented    \* history: the places the user has said yes to

turnVars == <<turn, messages, step, entries, burned, spentCny, pending, consented>>

Place == (1 .. MaxSteps + 1) \X (1 .. MaxBatch)
Role == {"user", "assistant", "tool"}
Batch == UNION {[1 .. n -> Signature] : n \in 0 .. MaxBatch}

TurnTypeOK ==
  /\ turn \in {"boundary", "model", "tools", "approval", "input", "conclude", "ended"}
  /\ messages \in Seq([role : Role, step : Nat, n : 0 .. MaxBatch])
  /\ step \in 0 .. MaxSteps + 1
  /\ entries \in Seq([step : 1 .. MaxSteps, call : 1 .. MaxBatch, signature : Signature, success : BOOLEAN])
  /\ burned \subseteq Signature
  /\ spentCny \in Nat
  /\ pending \in Batch
  /\ consented \subseteq Place

Message(role, n) == [role |-> role, step |-> step, n |-> n]

TurnInit ==
  /\ turn = "boundary"
  /\ messages = <<[role |-> "user", step |-> 0, n |-> 0]>>
  /\ step = 0 /\ entries = <<>> /\ burned = {} /\ spentCny = 0 /\ pending = <<>>
  /\ consented = {}

-----------------------------------------------------------------------------
(* check_gates and what it reads.                                          *)

FailCount(signature, upTo) ==
  Cardinality({i \in 1 .. Len(entries) :
    entries[i].signature = signature /\ ~entries[i].success /\ entries[i].step <= upTo})

SignatureSet(s) == {entries[i].signature : i \in {j \in 1 .. Len(entries) : entries[j].step = s}}

TrailingFailures ==
  Cardinality({i \in 1 .. Len(entries) : \A j \in i .. Len(entries) : ~entries[j].success})

Spinning == step >= 2 /\ SignatureSet(step) # {} /\ SignatureSet(step) = SignatureSet(step - 1)

\* The reason only tells the user; which gate was first makes no difference.
Halt ==
  \/ step >= MaxSteps
  \/ spentCny >= MaxBudget
  \/ Spinning
  \/ TrailingFailures >= MaxFailures

\* budget_margin_exhausted.
MarginExhausted == MaxBudget < spentCny + Margin

\* apply_results: a tool message for every call of the batch, in its order.
ResultMessages == [i \in 1 .. Len(pending) |-> Message("tool", i)]

\* Text in the name of the user; several in a row are as one.
Said(text) == IF text[Len(text)].role = "user" THEN text ELSE Append(text, Message("user", 0))

\* _force_conclude begins: the model is told to answer.
ForceConclude(results) ==
  /\ messages' = Said(messages \o results)
  /\ turn' = "conclude"

-----------------------------------------------------------------------------
(* The loop.                                                               *)

\* Steps 1 to 4: a gate, or what the user said meanwhile and a model call.
Boundary ==
  /\ turn = "boundary"
  /\ IF Halt
     THEN ForceConclude(<<>>)
     ELSE /\ turn' = "model"
          /\ messages' \in {messages, Said(messages)}
  /\ UNCHANGED <<step, entries, burned, spentCny, pending, consented>>

\* apply_step: the message of the model, with the number of its calls.
ApplyStep(n, cost) ==
  /\ messages' = Append(messages, [role |-> "assistant", step |-> step + 1, n |-> n])
  /\ step' = step + 1
  /\ spentCny' = spentCny + cost

\* Steps 6 to 9.
CallModel ==
  /\ turn = "model"
  /\ \E calls \in Batch, cost \in 0 .. MaxCost :
       /\ ApplyStep(Len(calls), cost)
       /\ pending' = calls
       /\ turn' = IF calls = <<>> THEN "ended" ELSE "tools"
  /\ UNCHANGED <<entries, burned, consented>>

\* The model call of _force_conclude.  Nobody looks whether its answer asks for
\* calls, and no model call follows.
Conclude ==
  /\ turn = "conclude"
  /\ \E cost \in 0 .. MaxCost : ApplyStep(0, cost)
  /\ turn' = "ended"
  /\ UNCHANGED <<entries, burned, pending, consented>>

NeedConsent == {i \in 1 .. Len(pending) : pending[i] \in Risky}
Asks == \E i \in 1 .. Len(pending) : pending[i] = AskUser

\* Some calls in the order of the batch.
InOrder(calls) ==
  {order \in [1 .. Cardinality(calls) -> calls] : \A i, j \in DOMAIN order : i < j => order[i] < order[j]}

\* ToolHub.dispatch: successes are recorded as they come, in an order that
\* makes no difference, failures after all of them in the order of the batch.
Recorded(order, success) ==
  [k \in 1 .. Len(order) |->
     [step |-> step, call |-> order[k], signature |-> pending[order[k]], success |-> success]]

\* DurableApprovalController.check: a question goes alone.  The executor
\* answers the call before it takes the snapshot.
PauseForInput ==
  /\ turn = "tools"
  /\ pending = <<AskUser>>
  /\ turn' = "input"
  /\ entries' = entries \o Recorded(<<1>>, TRUE)
  /\ messages' = messages \o ResultMessages
  /\ pending' = <<>>
  /\ UNCHANGED <<step, burned, spentCny, consented>>

PauseForApproval ==
  /\ turn = "tools"
  /\ ~Asks
  /\ NeedConsent # {}
  /\ turn' = "approval"
  /\ UNCHANGED <<messages, step, entries, burned, spentCny, pending, consented>>

\* Mutant: burned calls get no message.
MergedUnburned ==
  LET kept == SelectSeq([i \in 1 .. Len(pending) |-> i], LAMBDA i : pending[i] \notin burned)
  IN  [k \in 1 .. Len(kept) |-> Message("tool", kept[k])]

\* _merge_results: what was not dispatched has a message too.
Merged == ResultMessages

\* filter_burned compares the arguments as the model wrote them.  The ledger has
\* them without __depends_on and the like, references resolved, {} for broken
\* JSON: such a call is never refused.
Allowed(selected) == {i \in selected : pending[i] \notin burned \/ pending[i] \in Unmatched}

\* _dispatch_tool_calls, to the boundary of the next step.
Dispatch(selected) ==
  LET allowed == Allowed(selected)
  IN  /\ \E succeed \in SUBSET allowed :
           \E first \in InOrder(succeed), rest \in InOrder(allowed \ succeed) :
             entries' = entries \o Recorded(first, TRUE) \o Recorded(rest, FALSE)
      /\ UNCHANGED <<step, spentCny>>
      /\ burned' = burned \union {s \in Signature : FailCount(s, step)' >= BurnThreshold}
      /\ pending' = <<>>
      /\ turn' = "boundary"

SkipForBudget ==
  /\ ForceConclude(ResultMessages)
  /\ pending' = <<>>
  /\ UNCHANGED <<step, entries, burned, spentCny>>

\* The user says something before the calls begin: they are not executed.
Interrupted ==
  /\ messages' = Said(messages \o ResultMessages)
  /\ pending' = <<>>
  /\ turn' = "boundary"
  /\ UNCHANGED <<step, entries, burned, spentCny>>

\* A batch nobody has to be asked about.
RunTools ==
  /\ turn = "tools"
  /\ ~Asks
  /\ NeedConsent = {}
  /\ IF MarginExhausted THEN SkipForBudget
     ELSE \/ Interrupted
          \/ Dispatch(1 .. Len(pending)) /\ messages' = messages \o Merged
  /\ UNCHANGED consented

\* The calls nobody had to be asked about count as approved.
Selected(yes) == {i \in 1 .. Len(pending) : i \in NeedConsent => i \in yes}

\* The turn goes on from the snapshot with the decisions of the user: the calls
\* that were refused get their message without being executed.
Decide ==
  /\ turn = "approval"
  /\ \E yes \in SUBSET NeedConsent :
       /\ consented' = consented \union {<<step, i>> : i \in yes}
       /\ IF Selected(yes) # {} /\ MarginExhausted
          THEN SkipForBudget
          ELSE Dispatch(Selected(yes)) /\ messages' = Said(messages \o Merged)

\* The answer to a question is a message of the user.
Respond ==
  /\ turn = "input"
  /\ messages' = Said(messages)
  /\ turn' = "boundary"
  /\ UNCHANGED <<step, entries, burned, spentCny, pending, consented>>

TurnNext ==
  \/ Boundary \/ CallModel \/ Conclude
  \/ PauseForInput \/ PauseForApproval \/ RunTools
  \/ Decide \/ Respond

TurnSpec == TurnInit /\ [][TurnNext]_turnVars

-----------------------------------------------------------------------------
\* Before every model call, each call of every earlier answer has its one tool
\* message, in the order of the calls and directly behind the answer.
Answered(text) ==
  \A i \in 1 .. Len(text) :
    LET m == text[i]
    IN  /\ m.role = "assistant" =>
             \A k \in 1 .. m.n :
               /\ i + k <= Len(text)
               /\ text[i + k] = [role |-> "tool", step |-> m.step, n |-> k]
        /\ m.role = "tool" =>
             /\ m.n \in 1 .. i - 1
             /\ text[i - m.n].role = "assistant"
             /\ text[i - m.n].n >= m.n

CallsAreAnswered == turn \in {"model", "conclude"} => Answered(messages)

\* A call that has failed too often is not executed in a later step, if the
\* ledger knows it by its arguments.
BurnedStaysBurned ==
  \A i \in 1 .. Len(entries) :
    entries[i].signature \in Unmatched
      \/ FailCount(entries[i].signature, entries[i].step - 1) < BurnThreshold

\* Over approvals, refusals, interruptions and all the ways a batch is cut
\* short: the conversation keeps the form the model needs, nothing risky is
\* executed without a yes for this very call, what is burned stays burned, and
\* the turn keeps to its steps and, but for its last two model calls, to its
\* budget.
TurnIsOrderly ==
  /\ TurnTypeOK
  /\ CallsAreAnswered
  /\ \A i \in 1 .. Len(entries) :
       entries[i].signature \in Risky => <<entries[i].step, entries[i].call>> \in consented
  /\ BurnedStaysBurned
  /\ spentCny < MaxBudget + 2 * MaxCost

=============================================================================
