----------------------------- MODULE RunDelivery -----------------------------
(***************************************************************************)
(* How the rows of run_outbox reach the processes they are for: any number *)
(* of Dispatchers claim batches of rows, publish them to Redis Streams and *)
(* record the delivery; consumers read the streams and act.  Every link    *)
(* may fail: a Dispatcher dies between XADD and its record, or is so slow  *)
(* that another one takes its rows over; Redis refuses an XADD, performs   *)
(* one that looks refused, trims a stream, or loses everything.            *)
(*                                                                         *)
(* The effect of a notification is the fact RunControl is about; here a    *)
(* row is acknowledged when its effect has happened.  delivery_attempts    *)
(* has two uses, which are kept apart: as a claim generation it is         *)
(* compared for equality only, so a number that nobody remembers is used   *)
(* again; as the exponent of the retry delay it stops at MaxBackoff.       *)
(***************************************************************************)
EXTENDS Naturals, Sequences, FiniteSets, SequencesExt, FiniteSetsExt

CONSTANTS
  Item,          \* rows of run_outbox
  Stream,        \* Redis stream keys
  StreamOf,      \* redis_transport.stream_key
  Wake,          \* the rows of type schedule.wake
  Dispatcher,    \* dispatcher processes
  Nobody,        \* claimed_by of a row that is not claimed
  BatchSize,     \* RunDispatcher batch_size
  LockTimeout,   \* ticks after which a claim may be taken over
  RetryBase, RetryCap,  \* of the retry delay, in ticks
  MaxBackoff,    \* bound: the exponent of the retry delay stops growing here
  MaxLength,     \* max_stream_length
  MaxFaults      \* bound: crashes, refusals and losses

ASSUME DeliveryAssumption ==
  /\ IsFiniteSet(Item) /\ IsFiniteSet(Dispatcher)
  /\ StreamOf \in [Item -> Stream]
  /\ Wake \subseteq Item
  /\ Nobody \notin Dispatcher
  /\ {BatchSize, LockTimeout, RetryBase, RetryCap, MaxBackoff, MaxLength} \subseteq Nat \ {0}
  /\ RetryCap >= RetryBase
  /\ MaxFaults \in Nat

VARIABLES
  acknowledged,  \* run_outbox.acknowledged_at is set
  claimedBy,     \* run_outbox.claimed_by
  lockAge,       \* ticks since run_outbox.claimed_at, up to LockTimeout
  generation,    \* run_outbox.delivery_attempts, as a claim generation
  backoff,       \* run_outbox.delivery_attempts, up to MaxBackoff
  wait,          \* ticks until run_outbox.next_attempt_at
  claims,          \* the claimed <<item, generation>> a Dispatcher still has to do
  phase,         \* what it is about to do with the first of them
  stream,        \* the entries of a stream, oldest first
  handling,      \* the notifications a consumer holds in memory
  done,          \* what the notification asks for has happened
  faults         \* faults so far

rowVars == <<acknowledged, claimedBy, lockAge, generation, backoff, wait>>
dispatcherVars == <<claims, phase>>
deliveryVars == <<rowVars, dispatcherVars, stream, handling, done, faults>>

Generation == 0 .. Cardinality(Dispatcher) + 1
Entry == [item : Item, read : BOOLEAN]

DeliveryTypeOK ==
  /\ acknowledged \in [Item -> BOOLEAN]
  /\ claimedBy \in [Item -> Dispatcher \union {Nobody}]
  /\ lockAge \in [Item -> 0 .. LockTimeout]
  /\ generation \in [Item -> Generation]
  /\ backoff \in [Item -> 0 .. MaxBackoff]
  /\ wait \in [Item -> 0 .. RetryCap]
  /\ claims \in [Dispatcher -> Seq(Item \X Generation)]
  /\ phase \in [Dispatcher -> {"idle", "publish", "delivered", "failed"}]
  /\ stream \in [Stream -> Seq(Entry)]
  /\ \A s \in Stream : Len(stream[s]) <= MaxLength
  /\ handling \in [Stream -> SUBSET Item]
  /\ done \in [Item -> BOOLEAN]
  /\ faults \in 0 .. MaxFaults

DeliveryInit ==
  /\ acknowledged = [i \in Item |-> FALSE]
  /\ claimedBy = [i \in Item |-> Nobody]
  /\ lockAge = [i \in Item |-> 0]
  /\ generation = [i \in Item |-> 0]
  /\ backoff = [i \in Item |-> 0]
  /\ wait = [i \in Item |-> 0]
  /\ claims = [d \in Dispatcher |-> <<>>]
  /\ phase = [d \in Dispatcher |-> "idle"]
  /\ stream = [s \in Stream |-> <<>>]
  /\ handling = [s \in Stream |-> {}]
  /\ done = [i \in Item |-> FALSE]
  /\ faults = 0

-----------------------------------------------------------------------------
(* RunOutboxService._retry_delay: RetryBase doubled for every delivery     *)
(* after the first, without ever computing a power beyond the cap.         *)

\* int.bit_length() - 1, for the multipliers that occur
FloorLog2(n) == CHOOSE e \in 0 .. n : 2 ^ e <= n /\ n < 2 ^ (e + 1)

Smaller(a, b) == IF a <= b THEN a ELSE b
Larger(a, b) == IF a >= b THEN a ELSE b

DelayOf(deliveries, base, cap) ==
  LET exponent == IF deliveries = 0 THEN 0 ELSE deliveries - 1
      multiplier == Larger(cap \div base, 1)
  IN  IF exponent > FloorLog2(multiplier) THEN cap
      ELSE Smaller(base * 2 ^ exponent, cap)

RetryDelay(deliveries) == DelayOf(deliveries, RetryBase, RetryCap)

-----------------------------------------------------------------------------
(* The Dispatchers.                                                        *)

\* Mutant of Eligible: a claim is never taken over.
EligibleIfUnclaimed == {i \in Item : ~acknowledged[i] /\ wait[i] = 0 /\ claimedBy[i] = Nobody}

Eligible ==
  {i \in Item : /\ ~acknowledged[i]
                /\ wait[i] = 0
                /\ claimedBy[i] = Nobody \/ lockAge[i] = LockTimeout}

FreshGeneration(i) ==
  CHOOSE g \in Generation \ {0} : \A d \in Dispatcher : <<i, g>> \notin ToSet(claims[d])

\* RunOutboxService.claim_batch.  Which rows of an over-large backlog go first,
\* and in which order, is left open: the code sorts them by due time.
ClaimBatch(d) ==
  /\ phase[d] = "idle"
  /\ Eligible # {}
  /\ \E batch \in kSubset(Smaller(BatchSize, Cardinality(Eligible)), Eligible) :
       /\ claimedBy' = [i \in Item |-> IF i \in batch THEN d ELSE claimedBy[i]]
       /\ lockAge' = [i \in Item |-> IF i \in batch THEN 0 ELSE lockAge[i]]
       /\ generation' = [i \in Item |-> IF i \in batch THEN FreshGeneration(i) ELSE generation[i]]
       /\ backoff' = [i \in Item |-> IF i \in batch THEN Smaller(backoff[i] + 1, MaxBackoff)
                                                     ELSE backoff[i]]
       /\ \E order \in SetToSeqs(batch) :
            claims' = [claims EXCEPT ![d] = [n \in 1 .. Len(order) |-> <<order[n], generation'[order[n]]>>]]
  /\ phase' = [phase EXCEPT ![d] = "publish"]
  /\ UNCHANGED <<acknowledged, wait, stream, handling, done, faults>>

\* Mutant: the stream is not trimmed.
AppendedUntrimmed(entries, i) == Append(entries, [item |-> i, read |-> FALSE])

\* XADD with an exact MAXLEN: the oldest entries go, read or not.
Appended(entries, i) ==
  LET longer == Append(entries, [item |-> i, read |-> FALSE])
  IN  IF Len(longer) > MaxLength THEN Tail(longer) ELSE longer

\* RedisTransport.publish.
Publish(d) ==
  /\ phase[d] = "publish"
  /\ LET i == Head(claims[d])[1]
     IN  stream' = [stream EXCEPT ![StreamOf[i]] = Appended(@, i)]
  /\ phase' = [phase EXCEPT ![d] = "delivered"]
  /\ UNCHANGED <<rowVars, claims, handling, done, faults>>

\* Redis answers with an error or not at all; it may have added the entry.
PublishFails(d) ==
  /\ phase[d] = "publish"
  /\ faults < MaxFaults
  /\ faults' = faults + 1
  /\ LET i == Head(claims[d])[1]
     IN  \/ stream' = [stream EXCEPT ![StreamOf[i]] = Appended(@, i)]
         \/ UNCHANGED stream
  /\ phase' = [phase EXCEPT ![d] = "failed"]
  /\ UNCHANGED <<rowVars, claims, handling, done>>

\* Mutant: any claim on the row will do.
OwnsSomeClaim(d, i, g) == claimedBy[i] # Nobody

\* RunOutboxService._lock_owned_item.
Owns(d, i, g) == claimedBy[i] = d /\ generation[i] = g

\* On to the next row of the batch.
Proceed(d) ==
  /\ claims' = [claims EXCEPT ![d] = Tail(@)]
  /\ phase' = [phase EXCEPT ![d] = IF Len(claims[d]) = 1 THEN "idle" ELSE "publish"]

\* The claim is given back; unless its effect is known the row is due again.
Release(i) ==
  /\ claimedBy' = [claimedBy EXCEPT ![i] = Nobody]
  /\ lockAge' = [lockAge EXCEPT ![i] = 0]
  /\ UNCHANGED <<generation, backoff>>

\* Mutant: a delivered row is taken for one that has had its effect.
AcknowledgesOnDelivery(i) == i \in Item

\* A wake-up is acknowledged by its delivery: the Scheduler polls anyway.
DeliveryAcknowledges(i) == i \in Wake

\* mark_delivered, when the claim is still authoritative.
RecordDelivery(i) ==
  /\ Release(i)
  /\ acknowledged' = [acknowledged EXCEPT ![i] = @ \/ DeliveryAcknowledges(i)]
  /\ wait' = [wait EXCEPT ![i] = IF acknowledged'[i] THEN 0 ELSE RetryDelay(backoff[i])]

\* mark_failed.
RecordFailure(i) ==
  /\ Release(i)
  /\ wait' = [wait EXCEPT ![i] = RetryDelay(backoff[i])]
  /\ UNCHANGED acknowledged

Mark(d) ==
  /\ phase[d] \in {"delivered", "failed"}
  /\ LET i == Head(claims[d])[1]
         g == Head(claims[d])[2]
     IN  IF ~Owns(d, i, g) THEN UNCHANGED rowVars
         ELSE IF phase[d] = "delivered" THEN RecordDelivery(i)
         ELSE RecordFailure(i)
  /\ Proceed(d)
  /\ UNCHANGED <<stream, handling, done, faults>>

\* The process dies, or its database connection fails: the batch is forgotten.
DispatcherCrash(d) ==
  /\ phase[d] # "idle"
  /\ faults < MaxFaults
  /\ faults' = faults + 1
  /\ claims' = [claims EXCEPT ![d] = <<>>]
  /\ phase' = [phase EXCEPT ![d] = "idle"]
  /\ UNCHANGED <<rowVars, stream, handling, done>>

-----------------------------------------------------------------------------
(* The consumers.  What they have read they hold in memory: trimming the   *)
(* stream does not take it away from them.                                 *)

\* XREADGROUP, or XREAD by the Scheduler: the oldest entry never read.
Read(s) ==
  \E n \in 1 .. Len(stream[s]) :
    /\ ~stream[s][n].read
    /\ \A m \in 1 .. n - 1 : stream[s][m].read
    /\ stream' = [stream EXCEPT ![s][n].read = TRUE]
    /\ handling' = [handling EXCEPT ![s] = @ \union ({stream[s][n].item} \ Wake)]
    /\ UNCHANGED <<rowVars, dispatcherVars, done, faults>>

\* The Attempt is claimed, or its cancellation acknowledged: the transaction
\* that does so acknowledges the row.
Handle(s, i) ==
  /\ ~done[i]
  /\ done' = [done EXCEPT ![i] = TRUE]
  /\ acknowledged' = [acknowledged EXCEPT ![i] = TRUE]
  /\ UNCHANGED <<claimedBy, lockAge, generation, backoff, wait>>
  /\ UNCHANGED <<dispatcherVars, stream, handling, faults>>

ReadEntriesOf(s, i) ==
  {n \in 1 .. Len(stream[s]) : stream[s][n].read /\ stream[s][n].item = i}

\* RedisTransport.acknowledge_and_delete, at once for a notification that
\* turns out to be a duplicate.
Discard(s, i) ==
  /\ done[i]
  /\ handling' = [handling EXCEPT ![s] = @ \ {i}]
  /\ \/ /\ ReadEntriesOf(s, i) = {}
        /\ UNCHANGED stream
     \/ \E n \in ReadEntriesOf(s, i) :
          stream' = [stream EXCEPT ![s] = RemoveAt(@, n)]
  /\ UNCHANGED <<rowVars, dispatcherVars, done, faults>>

\* The connection to Redis breaks with entries in hand; what the stream still
\* has of them is given to the consumer again (RedisTransport.recover_pending).
Reconnect(s) ==
  /\ handling[s] # {}
  /\ faults < MaxFaults
  /\ faults' = faults + 1
  /\ handling' = [handling EXCEPT ![s] = {i \in Item : ReadEntriesOf(s, i) # {}}]
  /\ UNCHANGED <<rowVars, dispatcherVars, stream, done>>

\* Redis loses the stream: a restart, an eviction, the idle TTL of the key.
LoseStream(s) ==
  /\ stream[s] # <<>>
  /\ faults < MaxFaults
  /\ faults' = faults + 1
  /\ stream' = [stream EXCEPT ![s] = <<>>]
  /\ UNCHANGED <<rowVars, dispatcherVars, handling, done>>

\* The Scheduler recovers the Attempt of the row and acknowledges it.
Withdraw(i) ==
  /\ i \notin Wake
  /\ ~acknowledged[i]
  /\ acknowledged' = [acknowledged EXCEPT ![i] = TRUE]
  /\ done' = [done EXCEPT ![i] = TRUE]
  /\ UNCHANGED <<claimedBy, lockAge, generation, backoff, wait>>
  /\ UNCHANGED <<dispatcherVars, stream, handling, faults>>

Tick ==
  /\ lockAge' = [i \in Item |-> IF claimedBy[i] = Nobody THEN 0
                                ELSE Smaller(lockAge[i] + 1, LockTimeout)]
  /\ wait' = [i \in Item |-> IF wait[i] > 0 THEN wait[i] - 1 ELSE 0]
  /\ UNCHANGED <<acknowledged, claimedBy, generation, backoff>>
  /\ UNCHANGED <<dispatcherVars, stream, handling, done, faults>>

-----------------------------------------------------------------------------
DispatcherStep(d) == ClaimBatch(d) \/ Publish(d) \/ Mark(d)

ConsumerStep(s) == Read(s) \/ \E i \in handling[s] : Handle(s, i) \/ Discard(s, i)

HandleIfHeld(s, i) == i \in handling[s] /\ Handle(s, i)

DeliveryNext ==
  \/ \E d \in Dispatcher : DispatcherStep(d) \/ PublishFails(d) \/ DispatcherCrash(d)
  \/ \E s \in Stream : ConsumerStep(s) \/ Reconnect(s) \/ LoseStream(s)
  \/ \E i \in Item : Withdraw(i)
  \/ Tick

DeliverySpec == DeliveryInit /\ [][DeliveryNext]_deliveryVars

\* Dispatchers and consumers poll for ever and are restarted when they die;
\* every notification is handled by a task of its own.
DeliveryFairness ==
  /\ WF_deliveryVars(Tick)
  /\ \A d \in Dispatcher : WF_deliveryVars(DispatcherStep(d))
  /\ \A s \in Stream : WF_deliveryVars(Read(s)) /\ \A i \in Item : WF_deliveryVars(HandleIfHeld(s, i))

DeliveryFairSpec == DeliverySpec /\ DeliveryFairness

-----------------------------------------------------------------------------
\* No row of an assignment or a cancellation is ever given up before its
\* effect: an entry in a stream, published or even read, is not enough.
AcknowledgedMeansDone == \A i \in Item \ Wake : acknowledged[i] => done[i]

\* A claim ends in two ways only: its owner records what became of the first
\* row it has to do, or it is taken over after the lock timeout.  The late
\* record of a Dispatcher that lost its claim changes nothing.
ClaimsEndProperly ==
  \A i \in Item :
    claimedBy[i] # Nobody /\ claimedBy'[i] # claimedBy[i] =>
      \/ lockAge[i] = LockTimeout /\ claimedBy'[i] # Nobody
      \/ LET d == claimedBy[i]
         IN  /\ claims[d] # <<>>
             /\ Head(claims[d]) = <<i, generation[i]>>
             /\ claims'[d] = Tail(claims[d])

LateRecordsChangeNothing == [][ClaimsEndProperly]_deliveryVars

\* In spite of trimming, losses, crashes and take-overs, every assignment and
\* every cancellation has its effect ("Exact trimming cannot permanently lose
\* an unacknowledged Assignment/Cancel", run_control/redis_transport.py:140).
\* Not so a wake-up, which a Dispatcher that always outlives its lock timeout
\* would deliver for ever: its Scheduler polls.
EveryNotificationActs == \A i \in Item \ Wake : <>(done[i] /\ acknowledged[i])

\* The delivery counts from which the delay is the doubling cut off at the cap,
\* for any base and cap.
CappedDoubling ==
  {n \in 0 .. MaxBackoff + 10 : \A base \in 1 .. 7, cap \in 1 .. 40 :
     base <= cap =>
       DelayOf(n, base, cap) = Smaller(base * 2 ^ (IF n = 0 THEN 0 ELSE n - 1), cap)}

\* The arithmetic of the retry delay, which never forms the power it compares,
\* doubles up to the cap, for the deliveries of a row and many more.
RetryDelayIsCapped ==
  \A i \in Item : \A more \in 0 .. 10 : backoff[i] + more \in CappedDoubling

\* Rows and streams stay within their bounds: types, stream length, and the
\* delay before the next delivery of a row.
BoundsHold == DeliveryTypeOK /\ RetryDelayIsCapped

=============================================================================
