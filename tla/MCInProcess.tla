----------------------------- MODULE MCInProcess -----------------------------
(***************************************************************************)
(* Four components that share no state, checked in one run: each behaviour *)
(* follows one of them while the others rest in an initial state.          *)
(***************************************************************************)
EXTENDS RunStream, ToolScheduler, ReliableSearch, ChatTurn

CONSTANTS c1, c2, c3

VARIABLE followed

Marks == <<0, 3>>
Calls == <<c1, c2, c3>>
Groups == [t \in Task |-> IF t = c1 THEN NoGroup ELSE "paper"]

\* Without the calls that name themselves, which are refused; one graph for
\* the behaviours that follow another component.
Graphs ==
  {g \in [Task -> SUBSET Task] : \A t \in Task : t \notin g[t] /\ (followed # "batch" => g[t] = {})}

Init ==
  /\ followed \in {"stream", "batch", "search", "turn"}
  /\ needs \in Graphs /\ awaits \in Graphs
  /\ StreamInit /\ BatchInit /\ SearchInit /\ TurnInit

Next ==
  /\ UNCHANGED followed
  /\ \/ followed = "stream" /\ StreamNext /\ UNCHANGED <<batchVars, searchVars, turnVars>>
     \/ followed = "batch" /\ BatchNext /\ UNCHANGED <<streamVars, searchVars, turnVars>>
     \/ followed = "search" /\ SearchNext /\ UNCHANGED <<streamVars, batchVars, turnVars>>
     \/ followed = "turn" /\ TurnNext /\ UNCHANGED <<streamVars, batchVars, searchVars>>

\* The server and the event loop of the browser go on.  Nothing says that the
\* Run ends, that entries are published, or that the user does anything.
StreamFairness ==
  /\ WF_streamVars(followed = "stream" /\ ReaderStep)
  /\ WF_streamVars(followed = "stream" /\ ServeStep)
  /\ WF_streamVars(followed = "stream" /\ HookStep)

\* The event loop goes on; every tool has a timeout, so every attempt ends.
BatchFairness ==
  /\ WF_batchVars(followed = "batch" /\ RunStep)
  /\ \A t \in Task : WF_batchVars(followed = "batch" /\ TaskStep(t))

Spec ==
  /\ Init /\ [][Next]_<<followed, streamVars, batchVars, searchVars, turnVars>>
  /\ StreamFairness /\ BatchFairness

=============================================================================
