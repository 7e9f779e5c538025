------------------------------ MODULE RunStream ------------------------------
(***************************************************************************)
(* How a browser follows a Run: GET /runs/{id}/events replays run_events   *)
(* (the durable facts) and follows a Redis Stream (the live entries); the  *)
(* hook useRunSSE consumes the frames, reconnects with the last id it has  *)
(* seen, asks for a snapshot whenever a stream ends, and sends the user's  *)
(* commands.  Facts are committed, entries are published and trimmed,      *)
(* replies and connections are lost in between.                            *)
(*                                                                         *)
(* A fact is one of four kinds: what ends the Run, what pauses and resumes *)
(* it, and the rest.  The status of the Run is what its facts say, so a    *)
(* status is known by the number of facts it reflects.  An entry is known  *)
(* by its position in the stream.                                          *)
(***************************************************************************)
EXTENDS Naturals, FiniteSets, Sequences

CONSTANTS
  MaxReconnect,  \* maxReconnectAttempts of the hook
  MaxFacts,      \* bound: facts of the Run
  Watermark,     \* bound: the live entries, each with its durable_seq
  MaxCommands,   \* bound: commands of the user
  MaxTrouble     \* bound: lost connections and replies

ASSUME StreamAssumption ==
  /\ {MaxReconnect, MaxCommands, MaxTrouble} \subseteq Nat
  /\ MaxFacts \in Nat \ {0}
  /\ Watermark \in Seq(0 .. MaxFacts)

VARIABLES
  facts,       \* the rows of run_events, oldest first
  live,        \* the number of entries published
  lost,        \* how many of them, the oldest, Redis no longer has
  reader,      \* the generator _event_stream of the connection
  wire,        \* frames it has sent and the hook has not consumed
  pc,          \* what the hook is doing
  generation,  \* generationRef: the newest command
  busy,        \* commandInFlightRef
  wish,        \* cancelAfterCreateRef
  tries,       \* failed attempts to create the Run, until it is created
  attempt,     \* reconnectAttempt of the stream that is followed
  paused,      \* terminalFrame: that stream ended with a pause or the end
  cursor,      \* cursorRef, sent as Last-Event-ID
  seen,        \* seenIdsRef
  got,         \* the frames the hook has applied, in order
  shown,       \* the number of facts the displayed status reflects
  pause,       \* the fact of the displayed pause, 0: none
  calls,       \* requests in flight, of this and of older generations
  trouble      \* faults so far

runVars == <<facts, live, lost>>
serverVars == <<reader, wire>>
hookVars == <<pc, generation, busy, wish, tries, attempt, paused, cursor, seen, got, shown, pause>>
streamVars == <<runVars, serverVars, hookVars, calls, trouble>>

MaxLive == Len(Watermark)
Fact == {"progress", "paused", "resumed", "end"}
Frame == [type : {"fact", "entry"}, durable : 0 .. MaxFacts, redis : 0 .. MaxLive]
Cursor == (0 .. MaxFacts) \X (0 .. MaxLive)
Call ==
  [gen : 0 .. MaxCommands, type : {"create", "cancel", "resume", "snapshot"},
   arg : 0 .. MaxFacts, at : 0 .. MaxFacts]
Reader ==
  [pc : {"closed", "list", "status", "tail", "read", "entries", "done"},
   for : {"open", "batch", "entry", "round"},
   durable : 0 .. MaxFacts, redis : 0 .. MaxLive, upto : 0 .. MaxFacts,
   batch : Seq(1 .. MaxLive)]

Ended(n) == n > 0 /\ facts[n] = "end"
Waiting(n) == n > 0 /\ facts[n] = "paused"
Active(n) == ~Ended(n) /\ ~Waiting(n)
PauseAt(n) == IF Waiting(n) THEN n ELSE 0

Closed == [pc |-> "closed", for |-> "open", durable |-> 0, redis |-> 0, upto |-> 0, batch |-> <<>>]

StreamTypeOK ==
  /\ facts \in Seq(Fact) /\ Len(facts) <= MaxFacts
  /\ live \in 0 .. MaxLive
  /\ lost \in 0 .. live
  /\ reader \in Reader
  /\ wire \in Seq(Frame)
  /\ pc \in {"create", "cancel", "resume", "connect", "follow", "calibrate",
             "reconcile", "recover", "rest", "abandoned", "error"}
  /\ generation \in 0 .. MaxCommands
  /\ {busy, wish, paused} \subseteq BOOLEAN
  /\ tries \in 0 .. 3
  /\ attempt \in 0 .. MaxReconnect
  /\ cursor \in Cursor
  /\ seen \subseteq Cursor
  /\ got \in Seq(Frame)
  /\ shown \in 0 .. MaxFacts
  /\ pause \in 0 .. MaxFacts
  /\ calls \subseteq Call
  /\ trouble \in 0 .. MaxTrouble

Request(type, arg) == [gen |-> generation, type |-> type, arg |-> arg, at |-> 0]

StreamInit ==
  /\ facts = <<>> /\ live = 0 /\ lost = 0
  /\ reader = Closed /\ wire = <<>>
  /\ pc = "create"
  /\ generation = 0 /\ busy = FALSE /\ wish = FALSE /\ tries = 0
  /\ attempt = 0 /\ paused = FALSE /\ cursor = <<0, 0>> /\ seen = {} /\ got = <<>>
  /\ shown = 0 /\ pause = 0
  /\ calls = {[gen |-> 0, type |-> "create", arg |-> 0, at |-> 0]}
  /\ trouble = 0

-----------------------------------------------------------------------------
(* The Run: what Workers, Schedulers and other browsers do to it.          *)

Record(fact) == facts' = Append(facts, fact)

\* The last place is kept for the end, and a pause leaves room to be resumed.
CommitFact ==
  LET n == Len(facts)
  IN  /\ n > 0
      /\ ~Ended(n)
      /\ \/ Active(n) /\ n + 1 < MaxFacts /\ Record("progress")
         \/ Active(n) /\ n + 2 < MaxFacts /\ Record("paused")
         \/ Waiting(n) /\ n + 1 < MaxFacts /\ Record("resumed")
         \/ n < MaxFacts /\ Record("end")
      /\ UNCHANGED <<live, lost, serverVars, hookVars, calls, trouble>>

\* RunStreamBus.publish: with no watermark, as the Workers do, or with that of
\* a fact that is committed or about to be.
Publish ==
  /\ Len(facts) > 0
  /\ live < MaxLive
  /\ Watermark[live + 1] <= Len(facts) + 1
  /\ live' = live + 1
  /\ UNCHANGED <<facts, lost, serverVars, hookVars, calls, trouble>>

\* MAXLEN, EXPIRE or the loss of Redis.
Trim ==
  /\ lost < live
  /\ lost' \in lost + 1 .. live
  /\ UNCHANGED <<facts, live, serverVars, hookVars, calls, trouble>>

-----------------------------------------------------------------------------
(* _event_stream, one read at a time.                                      *)

\* _read_durable_snapshot, first read: the facts after those sent already.
ListEvents ==
  /\ reader.pc = "list"
  /\ reader' = [reader EXCEPT !.pc = "status", !.upto = Len(facts)]
  /\ UNCHANGED <<runVars, wire, hookVars, calls, trouble>>

\* The frames of the facts that were read, each with the cursor after it.
FactFrames(upto) ==
  [i \in 1 .. upto - reader.durable |->
     [type |-> "fact", durable |-> reader.durable + i, redis |-> reader.redis]]

\* What follows a snapshot of a Run that goes on.  An entry whose watermark is
\* still ahead is deferred to the next round, with all entries after it.
Continue(upto) ==
  LET ahead == Watermark[Head(reader.batch)] > upto
  IN  CASE reader.for \in {"open", "round"} ->
             [reader EXCEPT !.pc = "read", !.durable = upto]
        [] reader.for = "batch" -> [reader EXCEPT !.pc = "entries", !.durable = upto]
        [] reader.for = "entry" /\ ahead ->
             [reader EXCEPT !.pc = "list", !.for = "round", !.durable = upto, !.batch = <<>>]
        [] OTHER -> [reader EXCEPT !.pc = "entries", !.durable = upto]

\* Mutant: a terminal status closes the stream at once.
GetStatusWithoutTail ==
  /\ reader.pc = "status"
  /\ wire' = wire \o FactFrames(reader.upto)
  /\ reader' = IF Ended(Len(facts))
               THEN [reader EXCEPT !.pc = "done", !.durable = reader.upto]
               ELSE Continue(reader.upto)
  /\ UNCHANGED <<runVars, hookVars, calls, trouble>>

\* Second read: the status.  If it is terminal the facts are read once more.
GetStatus ==
  /\ reader.pc = "status"
  /\ IF Ended(Len(facts))
     THEN /\ reader' = [reader EXCEPT !.pc = "tail"]
          /\ UNCHANGED wire
     ELSE /\ wire' = wire \o FactFrames(reader.upto)
          /\ reader' = Continue(reader.upto)
  /\ UNCHANGED <<runVars, hookVars, calls, trouble>>

\* Third read: what was committed between the first two.  The stream ends.
ListTail ==
  /\ reader.pc = "tail"
  /\ wire' = wire \o FactFrames(Len(facts))
  /\ reader' = [reader EXCEPT !.pc = "done", !.durable = Len(facts)]
  /\ UNCHANGED <<runVars, hookVars, calls, trouble>>

\* Mutant: the facts are read again only after entries.
ReadBusOnly ==
  LET first == IF reader.redis > lost THEN reader.redis + 1 ELSE lost + 1
      entries == [i \in 1 .. live + 1 - first |-> first + i - 1]
  IN  /\ reader.pc = "read"
      /\ entries # <<>>
      /\ reader' = [reader EXCEPT !.pc = "list", !.for = "batch", !.batch = entries]
      /\ UNCHANGED <<runVars, wire, hookVars, calls, trouble>>

\* bus.read: the entries after the cursor that are still there, or none when
\* the block time passes or Redis does not answer.
ReadBus ==
  LET first == IF reader.redis > lost THEN reader.redis + 1 ELSE lost + 1
      entries == [i \in 1 .. live + 1 - first |-> first + i - 1]
  IN  /\ reader.pc = "read"
      /\ \/ /\ entries # <<>>
            /\ reader' = [reader EXCEPT !.pc = "list", !.for = "batch", !.batch = entries]
         \/ reader' = [reader EXCEPT !.pc = "list", !.for = "round"]
      /\ UNCHANGED <<runVars, wire, hookVars, calls, trouble>>

\* An entry goes out once the facts up to its watermark have.
SendEntry ==
  LET entry == Head(reader.batch)
  IN  /\ reader.pc = "entries"
      /\ reader.batch # <<>>
      /\ IF Watermark[entry] > reader.durable
         THEN /\ reader' = [reader EXCEPT !.pc = "list", !.for = "entry"]
              /\ UNCHANGED wire
         ELSE /\ reader' = [reader EXCEPT !.redis = entry, !.batch = Tail(@)]
              /\ wire' = Append(wire, [type |-> "entry", durable |-> reader.durable, redis |-> entry])
      /\ UNCHANGED <<runVars, hookVars, calls, trouble>>

EndRound ==
  /\ reader.pc = "entries"
  /\ reader.batch = <<>>
  /\ reader' = [reader EXCEPT !.pc = "list", !.for = "round"]
  /\ UNCHANGED <<runVars, wire, hookVars, calls, trouble>>

ReaderStep ==
  ListEvents \/ GetStatus \/ ListTail \/ ReadBus \/ SendEntry \/ EndRound

\* The other endpoints: POST /runs is idempotent, a cancel or a resume is
\* recorded as a fact, a snapshot reads the status.  What the reply says is
\* known by the number of facts at that moment.
Serve(c) ==
  LET n == Len(facts)
  IN  /\ c.at = 0
      /\ \/ c.type = "create" /\ n = 0 /\ Record("progress")
         \/ c.type = "create" /\ n > 0 /\ UNCHANGED facts
         \/ c.type = "snapshot" /\ UNCHANGED facts
         \/ c.type = "cancel" /\ ~Waiting(n) /\ UNCHANGED facts
         \/ c.type = "cancel" /\ Active(n) /\ n + 1 < MaxFacts /\ Record("progress")
         \/ c.type = "cancel" /\ ~Ended(n) /\ n < MaxFacts /\ Record("end")
         \/ c.type = "resume" /\ Waiting(n) /\ c.arg = n /\ Record("resumed")
      /\ calls' = (calls \ {c}) \union {[c EXCEPT !.at = Len(facts')]}
      /\ UNCHANGED <<live, lost, serverVars, hookVars, trouble>>

-----------------------------------------------------------------------------
(* streamRun.                                                              *)

Abort == reader' = Closed /\ wire' = <<>>

\* fetchRunEvents with Last-Event-ID.
Connect ==
  /\ pc = "connect"
  /\ pc' = "follow"
  /\ paused' = FALSE
  /\ reader' = [Closed EXCEPT !.pc = "list", !.durable = cursor[1], !.redis = cursor[2]]
  /\ UNCHANGED <<runVars, wire, generation, busy, wish, tries, attempt, cursor, seen, got,
                 shown, pause, calls, trouble>>

\* The stream is over: ask for a snapshot of the session and its Run.
Calibrate ==
  /\ pc' = "calibrate"
  /\ calls' = calls \union {Request("snapshot", 0)}
  /\ Abort

\* The end of a Run and a pause end the stream from this side.
Consume ==
  LET frame == Head(wire)
      id == <<frame.durable, frame.redis>>
      fact == IF frame.type = "fact" THEN facts[frame.durable] ELSE "progress"
  IN  /\ pc = "follow"
      /\ wire # <<>>
      /\ IF id \in seen
         THEN /\ wire' = Tail(wire)
              /\ UNCHANGED <<reader, pc, paused, cursor, seen, got, shown, pause, calls>>
         ELSE /\ seen' = seen \union {id}
              /\ cursor' = id
              /\ got' = Append(got, frame)
              /\ shown' = IF fact = "end" THEN frame.durable ELSE shown
              /\ pause' = CASE fact = "end" -> 0
                            [] fact = "paused" -> frame.durable
                            [] OTHER -> pause
              /\ paused' = (fact \in {"end", "paused"})
              /\ IF paused' THEN Calibrate
                 ELSE wire' = Tail(wire) /\ UNCHANGED <<reader, pc, calls>>
      /\ UNCHANGED <<runVars, generation, busy, wish, tries, attempt, trouble>>

\* The server has closed the connection.
StreamEnds ==
  /\ pc = "follow"
  /\ wire = <<>>
  /\ reader.pc = "done"
  /\ Calibrate
  /\ UNCHANGED <<runVars, generation, busy, wish, tries, attempt, paused, cursor, seen, got,
                 shown, pause, trouble>>

\* The connection is refused or breaks, with the frames under way.
Disconnect ==
  /\ pc \in {"connect", "follow"}
  /\ trouble < MaxTrouble
  /\ trouble' = trouble + 1
  /\ Calibrate
  /\ paused' = FALSE
  /\ UNCHANGED <<runVars, generation, busy, wish, tries, attempt, cursor, seen, got, shown, pause>>

\* Nothing follows the Run any more; a command may be given again.
Settle(where) == pc' = where /\ busy' = FALSE /\ attempt' = 0

Follow(newAttempt) ==
  pc' = "connect" /\ attempt' = newAttempt /\ UNCHANGED busy

Reconnect ==
  IF attempt >= MaxReconnect
  THEN Settle("abandoned")
  ELSE Follow(attempt + 1)

-----------------------------------------------------------------------------
(* Replies, and what is done without them.                                 *)

\* Mutant: replies are applied whoever asked.
AnyGeneration(c) == c.gen <= generation

\* isCurrent: a reply to a generation that a command has replaced is dropped.
Current(c) == c.gen = generation

Display(n) == shown' = n /\ pause' = PauseAt(n)

OnCreated(c) ==
  /\ pc = "create" /\ c.type = "create"
  /\ shown' = c.at
  /\ IF wish
     THEN /\ pc' = "cancel"
          /\ wish' = FALSE
          /\ calls' = (calls \ {c}) \union {Request("cancel", 0)}
          /\ UNCHANGED <<attempt, busy>>
     ELSE /\ Follow(0)
          /\ calls' = calls \ {c}
          /\ UNCHANGED wish
  /\ UNCHANGED pause

OnCancelled(c) ==
  /\ pc = "cancel" /\ c.type = "cancel"
  /\ shown' = c.at
  /\ IF Ended(c.at) THEN Settle("rest") /\ pause' = 0
     ELSE Follow(0) /\ UNCHANGED pause
  /\ calls' = calls \ {c}
  /\ UNCHANGED wish

OnResumed(c) ==
  /\ pc = "resume" /\ c.type = "resume"
  /\ pc' = "reconcile"
  /\ busy' = FALSE
  /\ calls' = (calls \ {c}) \union {Request("snapshot", c.at)}
  /\ UNCHANGED <<wish, attempt, shown, pause>>

OnSnapshot(c) ==
  /\ c.type = "snapshot"
  /\ Display(c.at)
  /\ \/ pc = "calibrate" /\ IF Active(c.at) THEN Reconnect ELSE Settle("rest")
     \/ pc = "reconcile" /\ IF Ended(c.at) THEN Settle("rest") ELSE Follow(0)
     \/ pc = "recover" /\ Settle("rest")
  /\ calls' = calls \ {c}
  /\ UNCHANGED wish

Reply(c) ==
  /\ c.at > 0
  /\ Current(c)
  /\ OnCreated(c) \/ OnCancelled(c) \/ OnResumed(c) \/ OnSnapshot(c)
  /\ tries' = 0
  /\ paused' = FALSE
  /\ UNCHANGED <<runVars, serverVars, generation, cursor, seen, got, trouble>>

\* createRun is repeated with the same idempotency key, at most twice.
CreateFails(c) ==
  /\ pc = "create" /\ c.type = "create"
  /\ tries' = tries + 1
  /\ IF tries < 2
     THEN /\ calls' = (calls \ {c}) \union {Request("create", 0)}
          /\ UNCHANGED <<pc, busy, wish, attempt>>
     ELSE /\ Settle("error")
          /\ wish' = FALSE
          /\ calls' = calls \ {c}
  /\ UNCHANGED <<shown, pause>>

\* A command of the user failed: one snapshot, but no stream again.  A cancel
\* wished for during the creation has not even that.
CommandFails(c) ==
  /\ pc \in {"cancel", "resume"} /\ c.type = pc
  /\ IF busy
     THEN /\ pc' = "recover"
          /\ calls' = (calls \ {c}) \union {Request("snapshot", 0)}
          /\ UNCHANGED <<busy, attempt>>
     ELSE Settle("error") /\ calls' = calls \ {c}
  /\ UNCHANGED <<wish, tries, shown, pause>>

SnapshotFails(c) ==
  /\ c.type = "snapshot"
  /\ \/ /\ pc = "calibrate"
        /\ IF paused THEN Settle("rest") ELSE Reconnect
        /\ UNCHANGED <<shown, pause>>
     \/ /\ pc = "reconcile"
        /\ Follow(0)
        /\ shown' = c.arg
        /\ pause' = 0
     \/ /\ pc = "recover"
        /\ Settle("error")
        /\ UNCHANGED <<shown, pause>>
  /\ calls' = calls \ {c}
  /\ UNCHANGED <<wish, tries>>

Fails(c) ==
  /\ Current(c)
  /\ CreateFails(c) \/ CommandFails(c) \/ SnapshotFails(c)
  /\ paused' = FALSE
  /\ UNCHANGED <<runVars, serverVars, generation, cursor, seen, got>>

\* The request or the reply is lost: the server may have acted on it.
LoseCall(c) ==
  /\ trouble < MaxTrouble
  /\ trouble' = trouble + 1
  /\ Fails(c)

\* 409: the pause is not the one the Run waits at.
Refuse(c) ==
  /\ c.type = "resume" /\ c.at = 0
  /\ c.arg # PauseAt(Len(facts))
  /\ Fails(c)
  /\ UNCHANGED trouble

\* What arrives for an older generation changes nothing.
DropStale(c) ==
  /\ ~Current(c)
  /\ c.at > 0
  /\ calls' = calls \ {c}
  /\ UNCHANGED <<runVars, serverVars, hookVars, trouble>>

-----------------------------------------------------------------------------
(* The user.                                                               *)

\* A command replaces whatever was going on: a new generation, the old
\* stream aborted, the old requests forgotten.
Command(type, arg) ==
  /\ ~busy
  /\ generation < MaxCommands
  /\ busy' = TRUE
  /\ generation' = generation + 1
  /\ pc' = type
  /\ Abort
  /\ calls' = calls \union {[Request(type, arg) EXCEPT !.gen = generation + 1]}
  /\ attempt' = 0 /\ paused' = FALSE
  /\ UNCHANGED <<runVars, wish, tries, cursor, seen, got, shown, pause, trouble>>

CancelRun ==
  /\ pc # "create"
  /\ shown > 0 /\ ~Ended(shown)
  /\ Command("cancel", 0)

ResumeRun ==
  /\ pc # "create"
  /\ pause # 0
  /\ Command("resume", pause)

StopWhileCreating ==
  /\ pc = "create"
  /\ wish' = TRUE
  /\ UNCHANGED <<runVars, serverVars, pc, generation, busy, tries, attempt, paused, cursor, seen,
                 got, shown, pause, calls, trouble>>

ServeStep == \E c \in calls : Serve(c)
HookStep == Connect \/ Consume \/ StreamEnds \/ \E c \in calls : Reply(c) \/ Refuse(c) \/ DropStale(c)

StreamNext ==
  \/ CommitFact \/ Publish \/ Trim
  \/ ReaderStep \/ ServeStep \/ HookStep
  \/ Disconnect \/ \E c \in calls : LoseCall(c)
  \/ CancelRun \/ ResumeRun \/ StopWhileCreating

StreamSpec == StreamInit /\ [][StreamNext]_streamVars

-----------------------------------------------------------------------------
IsFact(frame) == frame.type = "fact"

\* The hook gives up on a stream only after more interruptions than it may
\* answer: lost connections, lost snapshots, or pauses of the Run it replayed,
\* each of which ends a stream although others have resolved it.
Interruptions ==
  trouble + Cardinality({i \in 1 .. Len(got) : IsFact(got[i]) /\ facts[got[i].durable] = "paused"})

PatienceIsSpentOnTrouble == pc = "abandoned" => Interruptions > MaxReconnect

\* What the browser applies is the history: every fact once, in order and
\* without a gap, over all reconnections; entries in order and none twice; no
\* entry before the facts its watermark names.  And a stream that the server
\* ends has carried every fact, the last one too; the hook gives up on a
\* stream only after more trouble than it may answer.
StreamIsFaithful ==
  /\ StreamTypeOK
  /\ \A i \in 1 .. Len(got) : IsFact(got[i]) =>
       got[i].durable = Cardinality({j \in 1 .. i : IsFact(got[j])})
  /\ \A i, j \in 1 .. Len(got) :
       i < j /\ ~IsFact(got[i]) /\ ~IsFact(got[j]) => got[i].redis < got[j].redis
  /\ \A j \in 1 .. Len(got) : ~IsFact(got[j]) =>
       \A n \in 1 .. Watermark[got[j].redis] : \E i \in 1 .. j : IsFact(got[i]) /\ got[i].durable = n
  /\ reader.pc = "done" => reader.durable = Len(facts)
  /\ PatienceIsSpentOnTrouble

\* The status the browser shows never goes back to an older one, whatever
\* replies to earlier requests are still under way.
ViewMovesForward == [][shown' >= shown]_shown

\* Once a Run has ended, a browser that follows it comes to show the end, or
\* says that it has lost the Run, or waits for an answer to a pause it shows.
EndIsSeen ==
  (Ended(Len(facts)) /\ pc \in {"connect", "follow", "calibrate"})
    ~> (Ended(shown) \/ pc \in {"abandoned", "error"} \/ (pc = "rest" /\ pause # 0))

=============================================================================
