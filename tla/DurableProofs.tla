---------------------------- MODULE DurableProofs ----------------------------
(***************************************************************************)
(* Proofs about the two components that outlive the processes and share no *)
(* state: the delivery of notifications (RunDelivery) and the ledger of a  *)
(* Run's tool calls (ToolLedger).                                          *)
(***************************************************************************)
EXTENDS RunDelivery, ToolLedger, FiniteSetTheorems, SequenceTheorems, NaturalsInduction,
        WellFoundedInduction, TLAPS

(***************************************************************************)
(* RunDelivery, for any finite sets of rows and Dispatchers, any streams   *)
(* and any limits.                                                         *)
(*                                                                         *)
(* That a late record changes nothing rests on Fence: a Dispatcher whose   *)
(* generation is still the one of the row owns the row.  Fence needs a     *)
(* generation that nobody remembers for every new claim; there is one,     *)
(* because a Dispatcher remembers at most one claim of a row (OncePerBatch)*)
(* and there is a generation more than there are Dispatchers.              *)
(***************************************************************************)

\* The part of the type invariant that claims are about.
ClaimsTyped ==
  /\ acknowledged \in [Item -> BOOLEAN]
  /\ claimedBy \in [Item -> Dispatcher \union {Nobody}]
  /\ generation \in [Item -> Generation]
  /\ claims \in [Dispatcher -> Seq(Item \X Generation)]
  /\ phase \in [Dispatcher -> {"idle", "publish", "delivered", "failed"}]
  /\ done \in [Item -> BOOLEAN]

\* A Dispatcher is idle when it has nothing to do.
IdleIsEmpty == \A d \in Dispatcher : phase[d] = "idle" <=> claims[d] = <<>>

\* A batch names a row once.
OncePerBatch ==
  \A d \in Dispatcher : \A m, n \in 1 .. Len(claims[d]) :
    claims[d][m][1] = claims[d][n][1] => m = n

\* Who remembers the generation of a row as it is has the claim on it.
Fence ==
  \A d \in Dispatcher : \A n \in 1 .. Len(claims[d]) :
    claims[d][n][2] = generation[claims[d][n][1]] => claimedBy[claims[d][n][1]] = d

DeliveryInvariant ==
  ClaimsTyped /\ IdleIsEmpty /\ OncePerBatch /\ Fence /\ AcknowledgedMeansDone

-----------------------------------------------------------------------------
LEMMA GenerationsOutnumberDispatchers ==
  /\ Cardinality(Dispatcher) \in Nat
  /\ IsFiniteSet(Generation \ {0})
  /\ Cardinality(Generation \ {0}) = Cardinality(Dispatcher) + 1
<1>1. Cardinality(Dispatcher) \in Nat
  BY DeliveryAssumption, FS_CardinalityType
<1>2. Generation \ {0} = 1 .. Cardinality(Dispatcher) + 1
  BY <1>1 DEF Generation
<1>3. /\ IsFiniteSet(1 .. Cardinality(Dispatcher) + 1)
      /\ Cardinality(1 .. Cardinality(Dispatcher) + 1) = Cardinality(Dispatcher) + 1
  <2>1. 1 \in Int /\ Cardinality(Dispatcher) + 1 \in Int
    BY <1>1
  <2> QED BY <2>1, <1>1, FS_Interval
<1> QED BY <1>1, <1>2, <1>3

\* There is a generation of a row that no Dispatcher remembers.
LEMMA FreshGenerationExists ==
  ASSUME ClaimsTyped, OncePerBatch, NEW i \in Item
  PROVE  /\ FreshGeneration(i) \in Generation \ {0}
         /\ \A d \in Dispatcher : <<i, FreshGeneration(i)>> \notin ToSet(claims[d])
<1> DEFINE Remembers(d, g) == <<i, g>> \in ToSet(claims[d])
<1>1. \E g \in Generation \ {0} : \A d \in Dispatcher : ~Remembers(d, g)
  <2> SUFFICES ASSUME \A g \in Generation \ {0} : \E d \in Dispatcher : Remembers(d, g)
               PROVE  FALSE
    OBVIOUS
  <2> DEFINE owner == [g \in Generation \ {0} |-> CHOOSE d \in Dispatcher : Remembers(d, g)]
  <2>1. \A g \in Generation \ {0} : owner[g] \in Dispatcher /\ Remembers(owner[g], g)
    OBVIOUS
  <2>2. owner \in [Generation \ {0} -> Dispatcher]
    BY <2>1
  <2> HIDE DEF owner
  <2>3. PICK g, h \in Generation \ {0} : g # h /\ owner[g] = owner[h]
    <3>1. Cardinality(Dispatcher) < Cardinality(Generation \ {0})
      BY GenerationsOutnumberDispatchers
    <3> QED BY <3>1, <2>2, FS_PigeonHole, GenerationsOutnumberDispatchers, DeliveryAssumption
  <2>4. PICK d \in Dispatcher : Remembers(d, g) /\ Remembers(d, h)
    BY <2>1, <2>3
  <2>5. claims[d] \in Seq(Item \X Generation)
    BY DEF ClaimsTyped
  <2>6. DOMAIN claims[d] = 1 .. Len(claims[d])
    BY <2>5, LenProperties
  <2>7. PICK m, n \in 1 .. Len(claims[d]) : claims[d][m] = <<i, g>> /\ claims[d][n] = <<i, h>>
    BY <2>4, <2>6 DEF ToSet
  <2>8. m = n
    BY <2>7 DEF OncePerBatch
  <2> QED BY <2>3, <2>7, <2>8
<1> QED BY <1>1 DEF FreshGeneration

-----------------------------------------------------------------------------
\* What claim_batch leaves in the hands of the Dispatcher.
LEMMA ClaimedBatch ==
  ASSUME ClaimsTyped, OncePerBatch, NEW d \in Dispatcher, ClaimBatch(d)
  PROVE  \E batch \in SUBSET Eligible, order \in Seq(Item) :
           /\ order \in Seq(batch) /\ order # <<>>
           /\ \A m, n \in 1 .. Len(order) : order[m] = order[n] => m = n
           /\ claimedBy' = [i \in Item |-> IF i \in batch THEN d ELSE claimedBy[i]]
           /\ generation' = [i \in Item |-> IF i \in batch THEN FreshGeneration(i)
                                                             ELSE generation[i]]
           /\ claims' = [claims EXCEPT ![d] =
                         [n \in 1 .. Len(order) |-> <<order[n], generation'[order[n]]>>]]
<1>1. PICK batch \in kSubset(Smaller(BatchSize, Cardinality(Eligible)), Eligible) :
        /\ claimedBy' = [i \in Item |-> IF i \in batch THEN d ELSE claimedBy[i]]
        /\ generation' = [i \in Item |-> IF i \in batch THEN FreshGeneration(i)
                                                          ELSE generation[i]]
        /\ \E order \in SetToSeqs(batch) :
             claims' = [claims EXCEPT ![d] =
                        [n \in 1 .. Len(order) |-> <<order[n], generation'[order[n]]>>]]
  BY DEF ClaimBatch
<1>2. batch \in SUBSET Eligible /\ Cardinality(batch) = Smaller(BatchSize, Cardinality(Eligible))
  BY DEF kSubset
<1>3. IsFiniteSet(Eligible) /\ IsFiniteSet(batch)
  BY <1>2, FS_Subset, DeliveryAssumption DEF Eligible
<1>4. Cardinality(Eligible) \in Nat \ {0}
  BY <1>3, FS_CardinalityType, FS_EmptySet DEF ClaimBatch
<1>5. Cardinality(batch) \in Nat \ {0}
  BY <1>2, <1>4, DeliveryAssumption DEF Smaller
<1>6. PICK order \in SetToSeqs(batch) :
        claims' = [claims EXCEPT ![d] =
                   [n \in 1 .. Len(order) |-> <<order[n], generation'[order[n]]>>]]
  BY <1>1
<1>7. /\ order \in [1 .. Cardinality(batch) -> batch]
      /\ \A m, n \in 1 .. Cardinality(batch) : m # n => order[m] # order[n]
  BY DEF SetToSeqs
<1>8. order \in Seq(batch) /\ Len(order) = Cardinality(batch) /\ order # <<>>
  BY <1>5, <1>7
<1>9. \A m, n \in 1 .. Len(order) : order[m] = order[n] => m = n
  BY <1>7, <1>8
<1>10. order \in Seq(Item)
  BY <1>2, <1>8 DEF Eligible
<1> QED BY <1>1, <1>2, <1>6, <1>8, <1>9, <1>10

LEMMA ClaimBatchKeeps ==
  ASSUME DeliveryInvariant, NEW d \in Dispatcher, ClaimBatch(d)
  PROVE  DeliveryInvariant'
<1>1. ClaimsTyped /\ OncePerBatch /\ IdleIsEmpty /\ Fence /\ AcknowledgedMeansDone
  BY DEF DeliveryInvariant
<1>2. PICK batch \in SUBSET Eligible, order \in Seq(Item) :
           /\ order \in Seq(batch) /\ order # <<>>
           /\ \A m, n \in 1 .. Len(order) : order[m] = order[n] => m = n
           /\ claimedBy' = [i \in Item |-> IF i \in batch THEN d ELSE claimedBy[i]]
           /\ generation' = [i \in Item |-> IF i \in batch THEN FreshGeneration(i)
                                                             ELSE generation[i]]
           /\ claims' = [claims EXCEPT ![d] =
                         [n \in 1 .. Len(order) |-> <<order[n], generation'[order[n]]>>]]
  BY <1>1, ClaimedBatch
<1>3. batch \subseteq Item
  BY DEF Eligible
<1>4. \A i \in Item : /\ FreshGeneration(i) \in Generation
                      /\ \A e \in Dispatcher : <<i, FreshGeneration(i)>> \notin ToSet(claims[e])
  BY <1>1, FreshGenerationExists
<1>5. generation' \in [Item -> Generation]
  BY <1>1, <1>2, <1>4 DEF ClaimsTyped
<1> DEFINE hand == [n \in 1 .. Len(order) |-> <<order[n], generation'[order[n]]>>]
<1>6. /\ Len(order) \in Nat \ {0}
      /\ \A n \in 1 .. Len(order) : order[n] \in batch
  BY <1>2, EmptySeq, ElementOfSeq
<1>7. hand \in Seq(Item \X Generation) /\ Len(hand) = Len(order) /\ hand # <<>>
  BY <1>3, <1>5, <1>6
<1>8. claims' = [claims EXCEPT ![d] = hand]
  BY <1>2
<1>9. claims'[d] = hand /\ \A e \in Dispatcher \ {d} : claims'[e] = claims[e]
  BY <1>1, <1>8 DEF ClaimsTyped
<1>10. \A n \in 1 .. Len(order) : hand[n] = <<order[n], generation'[order[n]]>>
  OBVIOUS
<1> HIDE DEF hand
<1>11. ClaimsTyped'
  BY <1>1, <1>2, <1>5, <1>7, <1>8 DEF ClaimsTyped, ClaimBatch
<1>12. IdleIsEmpty'
  BY <1>1, <1>7, <1>9 DEF IdleIsEmpty, ClaimBatch, ClaimsTyped
<1>13. OncePerBatch'
  BY <1>1, <1>2, <1>7, <1>9, <1>10 DEF OncePerBatch
<1>14. Fence'
  <2> SUFFICES ASSUME NEW e \in Dispatcher, NEW n \in 1 .. Len(claims'[e]),
                      claims'[e][n][2] = generation'[claims'[e][n][1]]
               PROVE  claimedBy'[claims'[e][n][1]] = e
    BY DEF Fence
  <2>1. CASE e = d
    <3>1. n \in 1 .. Len(order) /\ claims'[e][n] = hand[n]
      BY <2>1, <1>7, <1>9
    <3>2. claims'[e][n][1] = order[n] /\ order[n] \in batch /\ order[n] \in Item
      BY <3>1, <1>3, <1>6, <1>10
    <3> QED BY <2>1, <3>2, <1>2
  <2>2. CASE e # d
    <3>1. claims'[e] = claims[e] /\ claims[e] \in Seq(Item \X Generation)
      BY <2>2, <1>1, <1>9 DEF ClaimsTyped
    <3>2. PICK i \in Item, g \in Generation : claims[e][n] = <<i, g>>
      BY <3>1, ElementOfSeq
    <3>3. <<i, g>> \in ToSet(claims[e])
      BY <3>1, <3>2, LenProperties DEF ToSet
    <3>4. i \notin batch
      BY <3>1, <3>2, <3>3, <1>2, <1>4
    <3>5. generation'[i] = generation[i] /\ claimedBy'[i] = claimedBy[i]
      BY <3>4, <1>2
    <3>6. claims[e][n][1] = i /\ claims[e][n][2] = g
      BY <3>2
    <3> QED BY <3>1, <3>5, <3>6, <1>1 DEF Fence
  <2> QED BY <2>1, <2>2
<1>15. AcknowledgedMeansDone'
  BY <1>1 DEF AcknowledgedMeansDone, ClaimBatch
<1> QED BY <1>11, <1>12, <1>13, <1>14, <1>15 DEF DeliveryInvariant

-----------------------------------------------------------------------------
\* The record of a Dispatcher is about the first row it has to do.
LEMMA FirstInHand ==
  ASSUME ClaimsTyped, IdleIsEmpty, NEW d \in Dispatcher, phase[d] # "idle"
  PROVE  /\ claims[d] \in Seq(Item \X Generation) /\ claims[d] # <<>>
         /\ Head(claims[d]) = claims[d][1] /\ Head(claims[d]) \in Item \X Generation
         /\ Len(claims[d]) \in Nat \ {0}
         /\ Tail(claims[d]) \in Seq(Item \X Generation)
         /\ Len(Tail(claims[d])) = Len(claims[d]) - 1
         /\ \A n \in 1 .. Len(claims[d]) - 1 : Tail(claims[d])[n] = claims[d][n + 1]
<1>1. claims[d] \in Seq(Item \X Generation) /\ claims[d] # <<>>
  BY DEF ClaimsTyped, IdleIsEmpty
<1> QED BY <1>1, HeadTailProperties, EmptySeq

LEMMA MarkKeeps ==
  ASSUME DeliveryInvariant, NEW d \in Dispatcher, Mark(d)
  PROVE  DeliveryInvariant'
<1>1. ClaimsTyped /\ OncePerBatch /\ IdleIsEmpty /\ Fence /\ AcknowledgedMeansDone
  BY DEF DeliveryInvariant
<1> DEFINE hand == claims[d]
           i == Head(claims[d])[1]
           g == Head(claims[d])[2]
<1>2. phase[d] \in {"delivered", "failed"}
  BY DEF Mark
<1>3. /\ hand \in Seq(Item \X Generation) /\ hand # <<>> /\ Len(hand) \in Nat \ {0}
      /\ i = hand[1][1] /\ g = hand[1][2] /\ i \in Item
      /\ Tail(hand) \in Seq(Item \X Generation) /\ Len(Tail(hand)) = Len(hand) - 1
      /\ \A n \in 1 .. Len(hand) - 1 : Tail(hand)[n] = hand[n + 1]
  BY <1>1, <1>2, FirstInHand
<1>4. claims' = [claims EXCEPT ![d] = Tail(hand)]
  BY DEF Mark, Proceed
<1>5. claims'[d] = Tail(hand) /\ \A e \in Dispatcher \ {d} : claims'[e] = claims[e]
  BY <1>1, <1>4 DEF ClaimsTyped
<1>6. phase' = [phase EXCEPT ![d] = IF Len(hand) = 1 THEN "idle" ELSE "publish"]
  BY DEF Mark, Proceed
<1>7. \/ ~Owns(d, i, g) /\ UNCHANGED rowVars
      \/ Owns(d, i, g) /\ (RecordDelivery(i) \/ RecordFailure(i))
  BY DEF Mark
<1>8. done' = done /\ generation' = generation
  BY <1>7 DEF Mark, rowVars, RecordDelivery, RecordFailure, Release
<1>9. \/ claimedBy' = claimedBy
      \/ claimedBy[i] = d /\ g = generation[i] /\ claimedBy' = [claimedBy EXCEPT ![i] = Nobody]
  BY <1>7 DEF rowVars, RecordDelivery, RecordFailure, Release, Owns
<1>10. \/ acknowledged' = acknowledged
       \/ acknowledged' = [acknowledged EXCEPT ![i] = @ \/ DeliveryAcknowledges(i)]
  BY <1>7 DEF rowVars, RecordDelivery, RecordFailure
<1> HIDE DEF hand, i, g
<1>11. ClaimsTyped'
  BY <1>1, <1>3, <1>4, <1>6, <1>8, <1>9, <1>10 DEF ClaimsTyped, DeliveryAcknowledges
<1>12. IdleIsEmpty'
  <2>1. Tail(hand) = <<>> <=> Len(Tail(hand)) = 0
    BY <1>3, EmptySeq
  <2>2. Tail(hand) = <<>> <=> Len(hand) = 1
    BY <2>1, <1>3
  <2> QED BY <2>2, <1>1, <1>5, <1>6 DEF IdleIsEmpty, ClaimsTyped
<1>13. OncePerBatch'
  <2> SUFFICES ASSUME NEW e \in Dispatcher,
                      NEW m \in 1 .. Len(claims'[e]), NEW n \in 1 .. Len(claims'[e]),
                      claims'[e][m][1] = claims'[e][n][1]
               PROVE  m = n
    BY DEF OncePerBatch
  <2>1. CASE e = d
    <3>1. /\ m + 1 \in 1 .. Len(hand) /\ claims'[e][m] = hand[m + 1]
          /\ n + 1 \in 1 .. Len(hand) /\ claims'[e][n] = hand[n + 1]
      BY <2>1, <1>3, <1>5
    <3>2. m + 1 = n + 1
      BY <3>1, <1>1 DEF OncePerBatch, hand
    <3> QED BY <3>2
  <2>2. CASE e # d
    BY <2>2, <1>1, <1>5 DEF OncePerBatch
  <2> QED BY <2>1, <2>2
<1>14. Fence'
  <2> SUFFICES ASSUME NEW e \in Dispatcher, NEW n \in 1 .. Len(claims'[e]),
                      claims'[e][n][2] = generation'[claims'[e][n][1]]
               PROVE  claimedBy'[claims'[e][n][1]] = e
    BY DEF Fence
  <2>1. CASE e = d
    <3>1. /\ n + 1 \in 1 .. Len(hand)
          /\ claims'[e][n] = hand[n + 1]
          /\ 1 \in 1 .. Len(hand) /\ n + 1 # 1
      BY <2>1, <1>3, <1>5
    <3>2. hand[n + 1][1] # i /\ claimedBy[hand[n + 1][1]] = d
      <4>1. hand[n + 1][1] # hand[1][1]
        BY <3>1, <1>1 DEF OncePerBatch, hand
      <4>2. hand[n + 1][2] = generation[hand[n + 1][1]] => claimedBy[hand[n + 1][1]] = d
        BY <3>1, <1>1 DEF Fence, hand
      <4>3. hand[n + 1] \in Item \X Generation /\ hand[1][1] = i
        BY <3>1, <1>3
      <4> QED BY <2>1, <3>1, <4>1, <4>2, <4>3, <1>8
    <3>3. hand[n + 1][1] \in Item
      BY <3>1, <1>3
    <3>4. claimedBy'[hand[n + 1][1]] = claimedBy[hand[n + 1][1]]
      BY <3>2, <3>3, <1>1, <1>9 DEF ClaimsTyped
    <3> QED BY <2>1, <3>1, <3>2, <3>4
  <2>2. CASE e # d
    <3>1. claimedBy[claims[e][n][1]] = e /\ claims'[e] = claims[e]
      BY <2>2, <1>1, <1>5, <1>8 DEF Fence
    <3> QED BY <3>1, <2>2, <1>1, <1>9, <1>3 DEF ClaimsTyped
  <2> QED BY <2>1, <2>2
<1>15. AcknowledgedMeansDone'
  BY <1>1, <1>8, <1>10 DEF AcknowledgedMeansDone, DeliveryAcknowledges, ClaimsTyped
<1> QED BY <1>11, <1>12, <1>13, <1>14, <1>15 DEF DeliveryInvariant

LEMMA CrashKeeps ==
  ASSUME DeliveryInvariant, NEW d \in Dispatcher, DispatcherCrash(d)
  PROVE  DeliveryInvariant'
<1>1. ClaimsTyped /\ OncePerBatch /\ IdleIsEmpty /\ Fence /\ AcknowledgedMeansDone
  BY DEF DeliveryInvariant
<1>2. /\ claims' = [claims EXCEPT ![d] = <<>>] /\ phase' = [phase EXCEPT ![d] = "idle"]
      /\ UNCHANGED <<rowVars, done>>
  BY DEF DispatcherCrash
<1>3. claims'[d] = <<>> /\ \A e \in Dispatcher \ {d} : claims'[e] = claims[e]
  BY <1>1, <1>2 DEF ClaimsTyped
<1>4. ClaimsTyped'
  BY <1>1, <1>2 DEF ClaimsTyped, rowVars
<1>5. IdleIsEmpty'
  BY <1>1, <1>2, <1>3 DEF IdleIsEmpty, ClaimsTyped
<1>6. OncePerBatch' /\ Fence'
  BY <1>1, <1>2, <1>3 DEF OncePerBatch, Fence, rowVars
<1>7. AcknowledgedMeansDone'
  BY <1>1, <1>2 DEF AcknowledgedMeansDone, rowVars
<1> QED BY <1>4, <1>5, <1>6, <1>7 DEF DeliveryInvariant

\* The steps that only move a Dispatcher between publishing and recording, or
\* do not concern it.
LEMMA ClaimsFrame ==
  ASSUME DeliveryInvariant,
         UNCHANGED <<claimedBy, generation, claims>>,
         \/ UNCHANGED phase
         \/ \E d \in Dispatcher : /\ phase[d] = "publish"
                                  /\ phase' \in {[phase EXCEPT ![d] = "delivered"],
                                                 [phase EXCEPT ![d] = "failed"]},
         \/ UNCHANGED <<acknowledged, done>>
         \/ \E i \in Item : /\ acknowledged' = [acknowledged EXCEPT ![i] = TRUE]
                            /\ done' = [done EXCEPT ![i] = TRUE]
  PROVE  DeliveryInvariant'
<1>1. ClaimsTyped'
  BY DEF DeliveryInvariant, ClaimsTyped
<1>2. IdleIsEmpty'
  BY DEF DeliveryInvariant, ClaimsTyped, IdleIsEmpty
<1>3. OncePerBatch' /\ Fence'
  BY DEF DeliveryInvariant, OncePerBatch, Fence
<1>4. AcknowledgedMeansDone'
  BY DEF DeliveryInvariant, AcknowledgedMeansDone, ClaimsTyped
<1> QED BY <1>1, <1>2, <1>3, <1>4 DEF DeliveryInvariant

-----------------------------------------------------------------------------
LEMMA DeliveryInvariantInit ==
  ASSUME DeliveryInit
  PROVE  DeliveryInvariant
<1>1. ClaimsTyped
  BY GenerationsOutnumberDispatchers DEF DeliveryInit, ClaimsTyped, Generation
<1> QED BY <1>1 DEF DeliveryInit, DeliveryInvariant, IdleIsEmpty, OncePerBatch, Fence, AcknowledgedMeansDone

LEMMA DeliveryInvariantStep ==
  ASSUME DeliveryInvariant, [DeliveryNext]_deliveryVars
  PROVE  DeliveryInvariant'
<1>1. CASE \E d \in Dispatcher : ClaimBatch(d)
  BY <1>1, ClaimBatchKeeps
<1>2. CASE \E d \in Dispatcher : Publish(d) \/ PublishFails(d)
  BY <1>2, ClaimsFrame DEF Publish, PublishFails, rowVars
<1>3. CASE \E d \in Dispatcher : Mark(d)
  BY <1>3, MarkKeeps
<1>4. CASE \E d \in Dispatcher : DispatcherCrash(d)
  BY <1>4, CrashKeeps
<1>5. CASE \E s \in Stream : \/ Read(s) \/ Reconnect(s) \/ LoseStream(s)
                             \/ \E i \in handling[s] : Discard(s, i)
  BY <1>5, ClaimsFrame DEF Read, Reconnect, LoseStream, Discard, rowVars, dispatcherVars
<1>6. CASE \E s \in Stream : \E i \in handling[s] : Handle(s, i)
  <2>1. PICK s \in Stream : \E j \in handling[s] : Handle(s, j)
    BY <1>6
  <2>2. PICK i \in handling[s] : Handle(s, i)
    BY <2>1
  <2>3. CASE i \in Item
    BY <2>2, <2>3, ClaimsFrame DEF Handle, dispatcherVars
  <2>4. CASE i \notin Item
    <3>1. acknowledged' = acknowledged /\ done' = done
      BY <2>2, <2>4 DEF Handle, DeliveryInvariant, ClaimsTyped
    <3> QED BY <3>1, <2>2, ClaimsFrame DEF Handle, dispatcherVars
  <2> QED BY <2>3, <2>4
<1>7. CASE \E i \in Item : Withdraw(i)
  BY <1>7, ClaimsFrame DEF Withdraw, dispatcherVars
<1>8. CASE Tick
  BY <1>8, ClaimsFrame DEF Tick, dispatcherVars
<1>9. CASE UNCHANGED deliveryVars
  BY <1>9, ClaimsFrame DEF deliveryVars, rowVars, dispatcherVars
<1> QED
  BY <1>1, <1>2, <1>3, <1>4, <1>5, <1>6, <1>7, <1>8, <1>9
  DEF DeliveryNext, DispatcherStep, ConsumerStep

LEMMA DeliveryInvariantHolds == DeliverySpec => []DeliveryInvariant
<1>1. DeliveryInit => DeliveryInvariant
  BY DeliveryInvariantInit
<1>2. DeliveryInvariant /\ [DeliveryNext]_deliveryVars => DeliveryInvariant'
  BY DeliveryInvariantStep
<1> QED BY <1>1, <1>2, PTL DEF DeliverySpec

-----------------------------------------------------------------------------
\* An assignment or a cancellation is never given up before its effect, for any
\* number of rows, Dispatchers and faults: mark_delivered acknowledges wake-ups
\* only, every other row is acknowledged with its effect.
THEOREM NothingGivenUp == DeliverySpec => []AcknowledgedMeansDone
<1>1. DeliveryInvariant => AcknowledgedMeansDone
  BY DEF DeliveryInvariant
<1> QED BY <1>1, DeliveryInvariantHolds, PTL

\* At most one Dispatcher can still record the outcome of the newest claim of a
\* row, and it is the one in claimed_by: what _lock_owned_item relies on.
THEOREM ClaimsAreFencedOff == DeliverySpec => []Fence
<1>1. DeliveryInvariant => Fence
  BY DEF DeliveryInvariant
<1> QED BY <1>1, DeliveryInvariantHolds, PTL

LEMMA ClaimsEndInTwoWays ==
  ASSUME DeliveryInvariant, [DeliveryNext]_deliveryVars
  PROVE  ClaimsEndProperly
<1> SUFFICES ASSUME NEW i \in Item, claimedBy[i] # Nobody, claimedBy'[i] # claimedBy[i]
             PROVE  \/ lockAge[i] = LockTimeout /\ claimedBy'[i] # Nobody
                    \/ /\ claims[claimedBy[i]] # <<>>
                       /\ Head(claims[claimedBy[i]]) = <<i, generation[i]>>
                       /\ claims'[claimedBy[i]] = Tail(claims[claimedBy[i]])
  BY DEF ClaimsEndProperly
<1>1. ClaimsTyped /\ OncePerBatch /\ IdleIsEmpty
  BY DEF DeliveryInvariant
<1>2. \/ \E d \in Dispatcher : ClaimBatch(d) \/ Mark(d)
      \/ claimedBy' = claimedBy
  BY DEF DeliveryNext, DispatcherStep, ConsumerStep, Publish, PublishFails, DispatcherCrash, Read,
         Reconnect, LoseStream, Discard, Handle, Withdraw, Tick, deliveryVars, rowVars
<1>3. CASE \E d \in Dispatcher : ClaimBatch(d)
  <2>1. PICK d \in Dispatcher : ClaimBatch(d)
    BY <1>3
  <2>2. PICK batch \in SUBSET Eligible :
          claimedBy' = [j \in Item |-> IF j \in batch THEN d ELSE claimedBy[j]]
    BY <1>1, <2>1, ClaimedBatch
  <2>3. i \in Eligible /\ claimedBy'[i] = d
    BY <2>2
  <2> QED BY <2>3, DeliveryAssumption DEF Eligible
<1>4. CASE \E d \in Dispatcher : Mark(d)
  <2>1. PICK d \in Dispatcher : Mark(d)
    BY <1>4
  <2>2. /\ claims[d] # <<>> /\ Head(claims[d]) \in Item \X Generation
        /\ claims' = [claims EXCEPT ![d] = Tail(claims[d])]
    BY <1>1, <2>1, FirstInHand DEF Mark, Proceed
  <2>3. /\ Owns(d, Head(claims[d])[1], Head(claims[d])[2])
        /\ claimedBy' = [claimedBy EXCEPT ![Head(claims[d])[1]] = Nobody]
    BY <2>1 DEF Mark, rowVars, RecordDelivery, RecordFailure, Release
  <2>4. i = Head(claims[d])[1] /\ claimedBy[i] = d /\ generation[i] = Head(claims[d])[2]
    BY <2>3, <1>1 DEF ClaimsTyped, Owns
  <2> QED BY <2>2, <2>4, <1>1 DEF ClaimsTyped
<1> QED BY <1>2, <1>3, <1>4

\* A claim is ended by the record of its owner or by its timeout, never by the
\* late record of another Dispatcher: mark_delivered and mark_failed, for any
\* number of Dispatchers that take rows over from each other.
THEOREM LateRecordsAreVoid == DeliverySpec => LateRecordsChangeNothing
<1>1. DeliveryInvariant /\ [DeliveryNext]_deliveryVars => ClaimsEndProperly
  BY ClaimsEndInTwoWays
<1>2. DeliveryInvariant /\ [DeliveryNext]_deliveryVars => [ClaimsEndProperly]_deliveryVars
  BY <1>1
<1> QED BY <1>2, DeliveryInvariantHolds, PTL DEF DeliverySpec, LateRecordsChangeNothing

-----------------------------------------------------------------------------
(***************************************************************************)
(* RunDelivery: the delay of a row and the bounds of rows and streams.     *)
(*                                                                         *)
(* That _retry_delay is exact needs the powers of two to grow and to       *)
(* double.  They are counted as the subsets of 1 .. n, whose number is a   *)
(* fact about finite sets.                                                 *)
(***************************************************************************)

\* Induction over the numbers, for a set: what holds of 0 and is inherited by
\* successors is all of Nat.
LEMMA NatInductionOnSet ==
  ASSUME NEW P, 0 \in P, \A k \in Nat : k \in P => k + 1 \in P
  PROVE  Nat \subseteq P
<1> DEFINE B == {n \in Nat : n \notin P}
<1> SUFFICES ASSUME B # {} PROVE FALSE
  OBVIOUS
<1>1. PICK n \in B : \A m \in B : ~(<<m, n>> \in OpToRel(<, Nat))
  <2> HIDE DEF B
  <2>1. B \subseteq Nat /\ B # {}
    BY DEF B
  <2> QED BY <2>1, NatLessThanWellFounded, WFMin
<1>2. n \in Nat /\ n # 0
  OBVIOUS
<1>3. n - 1 \in Nat /\ n - 1 < n /\ (n - 1) + 1 = n
  BY <1>2
<1>4. n - 1 \in B
  BY <1>2, <1>3
<1> QED BY <1>1, <1>2, <1>3, <1>4 DEF OpToRel

\* The powers of two, counted as sets of positions.
LEMMA PowerCounts ==
  ASSUME NEW n \in Nat
  PROVE  IsFiniteSet(SUBSET (1 .. n)) /\ Cardinality(SUBSET (1 .. n)) = 2 ^ n /\ 2 ^ n \in Nat
<1>1. IsFiniteSet(1 .. n) /\ Cardinality(1 .. n) = n
  BY FS_Interval
<1>2. IsFiniteSet(SUBSET (1 .. n)) /\ Cardinality(SUBSET (1 .. n)) = 2 ^ n
  BY <1>1, FS_SUBSET
<1> QED BY <1>2, FS_CardinalityType

LEMMA PowersGrow ==
  ASSUME NEW m \in Nat, NEW n \in Nat, m <= n
  PROVE  2 ^ m <= 2 ^ n
<1> DEFINE A == SUBSET (1 .. m)
           B == SUBSET (1 .. n)
<1>1. A \in SUBSET B
  OBVIOUS
<1>2. /\ Cardinality(A) = 2 ^ m
      /\ IsFiniteSet(B) /\ Cardinality(B) = 2 ^ n
  BY PowerCounts
<1> HIDE DEF A, B
<1>3. Cardinality(A) <= Cardinality(B)
  BY <1>1, <1>2, FS_Subset
<1> QED BY <1>2, <1>3

LEMMA PowerOfZero == 2 ^ 0 = 1
<1>1. SUBSET (1 .. 0) = {{}}
  OBVIOUS
<1> QED BY <1>1, PowerCounts, FS_Singleton

LEMMA PowersDouble ==
  ASSUME NEW n \in Nat
  PROVE  2 ^ (n + 1) = 2 * 2 ^ n
<1> DEFINE A == SUBSET (1 .. n)
           B == {T \union {n + 1} : T \in A}
           add == [T \in A |-> T \union {n + 1}]
<1>1. SUBSET (1 .. (n + 1)) = A \union B
  <2>1. ASSUME NEW T \in SUBSET (1 .. (n + 1)) PROVE T \in A \union B
    <3>1. CASE n + 1 \notin T
      BY <3>1
    <3>2. CASE n + 1 \in T
      <4>1. T \ {n + 1} \in A /\ T = (T \ {n + 1}) \union {n + 1}
        BY <3>2
      <4> QED BY <4>1
    <3> QED BY <3>1, <3>2
  <2>2. ASSUME NEW T \in A PROVE T \in SUBSET (1 .. (n + 1)) /\ T \union {n + 1} \in SUBSET (1 .. (n + 1))
    <3>1. 1 .. n \subseteq 1 .. (n + 1) /\ n + 1 \in 1 .. (n + 1)
      OBVIOUS
    <3>2. T \subseteq 1 .. n
      BY <2>2
    <3> QED BY <3>1, <3>2
  <2> HIDE DEF A
  <2>3. A \union B \subseteq SUBSET (1 .. (n + 1))
    BY <2>2
  <2>4. SUBSET (1 .. (n + 1)) \subseteq A \union B
    BY <2>1
  <2> QED BY <2>3, <2>4
<1>2. A \intersect B = {}
  OBVIOUS
<1>3. IsFiniteSet(A) /\ Cardinality(A) = 2 ^ n /\ 2 ^ n \in Nat
  BY PowerCounts
<1>4. ExistsBijection(A, B)
  <2>1. \A T \in A : n + 1 \notin T
    OBVIOUS
  <2>2. add \in [A -> B] /\ \A T \in A : add[T] = T \union {n + 1}
    OBVIOUS
  <2>3. \A T, U \in A : add[T] = add[U] => T = U
    BY <2>1, <2>2
  <2>4. \A V \in B : \E T \in A : add[T] = V
    BY <2>2
  <2> HIDE DEF add, A, B
  <2> QED BY <2>2, <2>3, <2>4 DEF ExistsBijection, Bijection, Injection, Surjection, IsInjective
<1>5. IsFiniteSet(B) /\ Cardinality(B) = 2 ^ n
  BY <1>3, <1>4, FS_Bijection
<1>6. Cardinality(A \union B) = Cardinality(A) + Cardinality(B)
  <2> HIDE DEF A, B
  <2> QED BY <1>2, <1>3, <1>5, FS_Union, FS_EmptySet
<1>7. n + 1 \in Nat
  OBVIOUS
<1>8. 2 ^ (n + 1) = Cardinality(A \union B)
  BY <1>1, <1>7, PowerCounts
<1> HIDE DEF A, B
<1> QED BY <1>3, <1>5, <1>6, <1>8

\* bit_length: every multiplier lies between two powers of two.
LEMMA FloorLog2Exists ==
  ASSUME NEW n \in Nat \ {0}
  PROVE  FloorLog2(n) \in 0 .. n /\ 2 ^ FloorLog2(n) <= n /\ n < 2 ^ (FloorLog2(n) + 1)
<1> DEFINE P == {k \in Nat : k = 0 \/ \E e \in 0 .. k : 2 ^ e <= k /\ k < 2 ^ (e + 1)}
<1>1. 0 \in P
  OBVIOUS
<1>2. ASSUME NEW k \in Nat, k \in P PROVE k + 1 \in P
  <2>1. CASE k = 0
    <3>1. 2 ^ 0 <= 1 /\ 1 < 2 ^ (0 + 1)
      BY PowerOfZero, PowersDouble
    <3>2. 0 \in 0 .. (0 + 1)
      OBVIOUS
    <3>3. \E e \in 0 .. (0 + 1) : 2 ^ e <= 0 + 1 /\ 0 + 1 < 2 ^ (e + 1)
      <4> WITNESS 0 \in 0 .. (0 + 1)
      <4> QED BY <3>1
    <3> QED BY <2>1, <3>3
  <2>2. CASE k # 0
    <3>1. PICK e \in 0 .. k : 2 ^ e <= k /\ k < 2 ^ (e + 1)
      BY <1>2, <2>2
    <3>2. e \in Nat /\ e + 1 \in Nat /\ 2 ^ e \in Nat /\ 2 ^ (e + 1) \in Nat
      <4>1. e \in Nat /\ e + 1 \in Nat
        OBVIOUS
      <4> QED BY <4>1, PowerCounts
    <3>3. CASE k + 1 < 2 ^ (e + 1)
      BY <3>1, <3>2, <3>3
    <3>4. CASE k + 1 = 2 ^ (e + 1)
      <4>1. 2 ^ ((e + 1) + 1) = 2 * 2 ^ (e + 1)
        BY <3>2, PowersDouble
      <4>2. 2 ^ (e + 1) <= k + 1 /\ k + 1 < 2 ^ ((e + 1) + 1)
        BY <3>2, <3>4, <4>1
      <4> QED BY <3>2, <4>2
    <3> QED BY <3>1, <3>2, <3>3, <3>4
  <2> QED BY <2>1, <2>2
<1>3. n \in P
  <2> HIDE DEF P
  <2> QED BY <1>1, <1>2, NatInductionOnSet
<1>4. \E e \in 0 .. n : 2 ^ e <= n /\ n < 2 ^ (e + 1)
  BY <1>3
<1> QED BY <1>4 DEF FloorLog2

LEMMA Quotient ==
  ASSUME NEW cap \in Nat, NEW base \in Nat \ {0}
  PROVE  cap \div base \in Nat /\ cap < base * (cap \div base + 1)
  OBVIOUS

LEMMA ProductGrows ==
  ASSUME NEW a \in Nat, NEW b \in Nat, NEW c \in Nat, a <= b
  PROVE  c * a <= c * b
  OBVIOUS

\* The delay before a row is due again is the base doubled with every delivery
\* after the first, cut off at the cap: _retry_delay, which compares the exponent
\* with the bit length of the quotient instead of forming the power, is exact for
\* every number of deliveries, every base and every cap.
THEOREM DelayDoubles ==
  ASSUME NEW n \in Nat, NEW base \in Nat \ {0}, NEW cap \in Nat
  PROVE  DelayOf(n, base, cap) = Smaller(base * 2 ^ (IF n = 0 THEN 0 ELSE n - 1), cap)
<1> DEFINE exponent == IF n = 0 THEN 0 ELSE n - 1
           quotient == cap \div base
           multiplier == Larger(quotient, 1)
           e == FloorLog2(multiplier)
<1>1. exponent \in Nat /\ quotient \in Nat /\ multiplier \in Nat \ {0} /\ quotient <= multiplier
  BY Quotient DEF Larger
<1>2. CASE exponent > e
  <2> HIDE DEF exponent, multiplier, quotient, e
  <2>1. e \in 0 .. multiplier /\ multiplier < 2 ^ (e + 1)
    BY <1>1, FloorLog2Exists DEF e
  <2>2. e + 1 \in Nat /\ e + 1 <= exponent
    BY <1>1, <1>2, <2>1
  <2>3. 2 ^ (e + 1) <= 2 ^ exponent /\ 2 ^ exponent \in Nat /\ 2 ^ (e + 1) \in Nat
    BY <1>1, <2>2, PowersGrow, PowerCounts
  <2>4. quotient + 1 <= 2 ^ exponent
    BY <1>1, <2>1, <2>3
  <2>5. base * (quotient + 1) <= base * 2 ^ exponent
    BY <1>1, <2>3, <2>4, ProductGrows
  <2>6. cap < base * (quotient + 1)
    BY Quotient DEF quotient
  <2>7. cap < base * 2 ^ exponent /\ base * 2 ^ exponent \in Nat
    BY <1>1, <2>3, <2>5, <2>6
  <2>8. Smaller(base * 2 ^ exponent, cap) = cap
    BY <2>7 DEF Smaller
  <2> QED BY <1>2, <2>8 DEF DelayOf, exponent, multiplier, quotient, e
<1>3. CASE ~(exponent > e)
  BY <1>3 DEF DelayOf
<1> QED BY <1>2, <1>3

-----------------------------------------------------------------------------
\* The rest of the type invariant: what is counted, and what the streams hold.
CountersTyped ==
  /\ lockAge \in [Item -> 0 .. LockTimeout]
  /\ backoff \in [Item -> 0 .. MaxBackoff]
  /\ wait \in [Item -> 0 .. RetryCap]
  /\ faults \in 0 .. MaxFaults

StreamsTyped ==
  /\ stream \in [Stream -> Seq(Entry)]
  /\ \A s \in Stream : Len(stream[s]) <= MaxLength
  /\ handling \in [Stream -> SUBSET Item]

\* The delay keeps to its cap.
LEMMA DelayIsCapped ==
  ASSUME NEW n \in Nat
  PROVE  RetryDelay(n) \in 0 .. RetryCap
<1> DEFINE e == IF n = 0 THEN 0 ELSE n - 1
<1>1. RetryBase \in Nat \ {0} /\ RetryCap \in Nat
  BY DeliveryAssumption
<1>2. RetryDelay(n) = Smaller(RetryBase * 2 ^ e, RetryCap)
  BY <1>1, DelayDoubles DEF RetryDelay
<1>3. e \in Nat
  OBVIOUS
<1> HIDE DEF e
<1>4. 2 ^ e \in Nat
  BY <1>3, PowerCounts
<1>5. RetryBase * 2 ^ e \in Nat
  BY <1>1, <1>4
<1> QED BY <1>1, <1>2, <1>5 DEF Smaller

\* XADD and XDEL keep a stream within its length.
LEMMA AppendedIsTyped ==
  ASSUME NEW q \in Seq(Entry), Len(q) <= MaxLength, NEW i \in Item
  PROVE  Appended(q, i) \in Seq(Entry) /\ Len(Appended(q, i)) <= MaxLength
<1> DEFINE entry == [item |-> i, read |-> FALSE]
           longer == Append(q, entry)
<1>1. entry \in Entry
  BY DEF Entry
<1> HIDE DEF entry
<1>2. longer \in Seq(Entry) /\ Len(longer) = Len(q) + 1 /\ Len(q) \in Nat
  BY <1>1, AppendProperties, LenProperties
<1>3. longer # <<>>
  <2> HIDE DEF longer
  <2> QED BY <1>2, EmptySeq
<1>4. Tail(longer) \in Seq(Entry) /\ Len(Tail(longer)) = Len(longer) - 1
  BY <1>2, <1>3, HeadTailProperties
<1>5. MaxLength \in Nat
  BY DeliveryAssumption
<1>6. Appended(q, i) = IF Len(longer) > MaxLength THEN Tail(longer) ELSE longer
  BY DEF Appended, entry
<1> HIDE DEF longer
<1> QED BY <1>2, <1>4, <1>5, <1>6

LEMMA RemovedIsTyped ==
  ASSUME NEW q \in Seq(Entry), NEW n \in 1 .. Len(q)
  PROVE  RemoveAt(q, n) \in Seq(Entry) /\ Len(RemoveAt(q, n)) <= Len(q)
<1> DEFINE before == SubSeq(q, 1, n - 1)
           after == SubSeq(q, n + 1, Len(q))
<1>1. Len(q) \in Nat
  BY LenProperties
<1>2. before \in Seq(Entry) /\ Len(before) = n - 1
  <2>1. 1 \in 1 .. Len(q) + 1 /\ n - 1 \in 1 - 1 .. Len(q)
    BY <1>1
  <2> QED BY <2>1, SubSeqProperties
<1>3. after \in Seq(Entry) /\ Len(after) = Len(q) - n
  <2>1. n + 1 \in 1 .. Len(q) + 1 /\ Len(q) \in (n + 1) - 1 .. Len(q)
    BY <1>1
  <2>2. n + 1 <= Len(q) + 1
    BY <1>1
  <2> QED BY <1>1, <2>1, <2>2, SubSeqProperties
<1>4. RemoveAt(q, n) = before \o after
  BY DEF RemoveAt
<1> HIDE DEF before, after
<1>5. before \o after \in Seq(Entry) /\ Len(before \o after) = Len(before) + Len(after)
  BY <1>2, <1>3, ConcatProperties
<1> QED BY <1>1, <1>2, <1>3, <1>4, <1>5

\* The row a Dispatcher is about.
LEMMA RowInHand ==
  ASSUME DeliveryInvariant, NEW d \in Dispatcher, phase[d] # "idle"
  PROVE  Head(claims[d])[1] \in Item
<1>1. Head(claims[d]) \in Item \X Generation
  BY FirstInHand DEF DeliveryInvariant
<1> QED BY <1>1

LEMMA CountersKeep ==
  ASSUME DeliveryInvariant, CountersTyped, [DeliveryNext]_deliveryVars
  PROVE  CountersTyped'
<1>1. /\ LockTimeout \in Nat /\ MaxBackoff \in Nat /\ RetryCap \in Nat /\ MaxFaults \in Nat
  BY DeliveryAssumption
<1>2. ASSUME NEW d \in Dispatcher, ClaimBatch(d) PROVE CountersTyped'
  <2>1. PICK batch \in SUBSET Eligible :
          /\ lockAge' = [i \in Item |-> IF i \in batch THEN 0 ELSE lockAge[i]]
          /\ backoff' = [i \in Item |-> IF i \in batch THEN Smaller(backoff[i] + 1, MaxBackoff)
                                                        ELSE backoff[i]]
    BY <1>2 DEF ClaimBatch, kSubset
  <2>2. \A i \in Item : Smaller(backoff[i] + 1, MaxBackoff) \in 0 .. MaxBackoff
    BY <1>1 DEF CountersTyped, Smaller
  <2> QED BY <2>1, <2>2, <1>1, <1>2 DEF CountersTyped, ClaimBatch
<1>3. ASSUME NEW d \in Dispatcher, Mark(d) PROVE CountersTyped'
  <2> DEFINE i == Head(claims[d])[1]
             g == Head(claims[d])[2]
  <2>1. i \in Item
    BY <1>3, RowInHand DEF Mark
  <2>2. faults' = faults
    BY <1>3 DEF Mark
  <2>3. CASE UNCHANGED rowVars
    BY <2>2, <2>3 DEF CountersTyped, rowVars
  <2>4. CASE RecordDelivery(i) \/ RecordFailure(i)
    <3>1. RetryDelay(backoff[i]) \in 0 .. RetryCap
      <4>1. backoff[i] \in Nat
        BY <2>1, <1>1 DEF CountersTyped
      <4> QED BY <4>1, DelayIsCapped
    <3>2. \/ wait' = [wait EXCEPT ![i] = 0]
          \/ wait' = [wait EXCEPT ![i] = RetryDelay(backoff[i])]
      BY <2>4 DEF RecordDelivery, RecordFailure
    <3>3. lockAge' = [lockAge EXCEPT ![i] = 0] /\ backoff' = backoff
      BY <2>4 DEF RecordDelivery, RecordFailure, Release
    <3> HIDE DEF i
    <3> QED BY <3>1, <3>2, <3>3, <2>1, <2>2, <1>1 DEF CountersTyped
  <2> QED BY <2>3, <2>4, <1>3 DEF Mark
<1>4. CASE Tick
  <2>1. \A i \in Item : Smaller(lockAge[i] + 1, LockTimeout) \in 0 .. LockTimeout
    BY <1>1 DEF CountersTyped, Smaller
  <2> QED BY <2>1, <1>1, <1>4 DEF Tick, CountersTyped
<1>5. ASSUME \/ \E d \in Dispatcher : PublishFails(d) \/ DispatcherCrash(d)
             \/ \E s \in Stream : Reconnect(s) \/ LoseStream(s)
      PROVE  CountersTyped'
  <2>1. faults < MaxFaults /\ faults' = faults + 1 /\ UNCHANGED rowVars
    BY <1>5 DEF PublishFails, DispatcherCrash, Reconnect, LoseStream
  <2> QED BY <2>1, <1>1 DEF CountersTyped, rowVars
<1>6. ASSUME \/ \E d \in Dispatcher : Publish(d)
             \/ \E s \in Stream : ConsumerStep(s)
             \/ \E i \in Item : Withdraw(i)
             \/ UNCHANGED deliveryVars
      PROVE  CountersTyped'
  <2>1. UNCHANGED <<lockAge, backoff, wait, faults>>
    BY <1>6 DEF Publish, ConsumerStep, Read, Handle, Discard, Withdraw, deliveryVars, rowVars
  <2> QED BY <2>1 DEF CountersTyped
<1> QED BY <1>2, <1>3, <1>4, <1>5, <1>6 DEF DeliveryNext, DispatcherStep

LEMMA StreamsKeep ==
  ASSUME DeliveryInvariant, StreamsTyped, [DeliveryNext]_deliveryVars
  PROVE  StreamsTyped'
<1>1. MaxLength \in Nat
  BY DeliveryAssumption
<1>2. ASSUME NEW s \in Stream, NEW q \in Seq(Entry), Len(q) <= MaxLength,
             stream' = [stream EXCEPT ![s] = q], handling' \in [Stream -> SUBSET Item]
      PROVE  StreamsTyped'
  BY <1>2 DEF StreamsTyped
<1>3. ASSUME NEW d \in Dispatcher, Publish(d) \/ PublishFails(d) PROVE StreamsTyped'
  <2> DEFINE i == Head(claims[d])[1]
  <2>1. i \in Item
    BY <1>3, RowInHand DEF Publish, PublishFails
  <2>2. StreamOf[i] \in Stream
    BY <2>1, DeliveryAssumption
  <2>3. handling' = handling
    BY <1>3 DEF Publish, PublishFails
  <2>4. stream' = stream \/ stream' = [stream EXCEPT ![StreamOf[i]] = Appended(stream[StreamOf[i]], i)]
    BY <1>3 DEF Publish, PublishFails
  <2> HIDE DEF i
  <2>5. CASE stream' = stream
    BY <2>3, <2>5 DEF StreamsTyped
  <2>6. CASE stream' # stream
    <3>1. stream[StreamOf[i]] \in Seq(Entry) /\ Len(stream[StreamOf[i]]) <= MaxLength
      BY <2>2 DEF StreamsTyped
    <3> DEFINE q == Appended(stream[StreamOf[i]], i)
    <3>2. q \in Seq(Entry) /\ Len(q) <= MaxLength
      BY <2>1, <3>1, AppendedIsTyped
    <3>3. stream' = [stream EXCEPT ![StreamOf[i]] = q]
      BY <2>4, <2>6
    <3>4. handling' \in [Stream -> SUBSET Item]
      BY <2>3 DEF StreamsTyped
    <3> HIDE DEF q
    <3> QED BY <3>2, <3>3, <3>4, <2>2, <1>2
  <2> QED BY <2>5, <2>6
<1>4. ASSUME NEW s \in Stream, Read(s) PROVE StreamsTyped'
  <2>1. PICK n \in 1 .. Len(stream[s]) :
          /\ stream' = [stream EXCEPT ![s][n].read = TRUE]
          /\ handling' = [handling EXCEPT ![s] = @ \union ({stream[s][n].item} \ Wake)]
    BY <1>4 DEF Read
  <2> DEFINE q == [stream[s] EXCEPT ![n].read = TRUE]
  <2>2. stream[s] \in Seq(Entry) /\ Len(stream[s]) <= MaxLength
    BY DEF StreamsTyped
  <2>3. stream[s][n] \in Entry
    BY <2>2, ElementOfSeq
  <2>4. [stream[s][n] EXCEPT !.read = TRUE] \in Entry /\ stream[s][n].item \in Item
    BY <2>3 DEF Entry
  <2>5. q = [stream[s] EXCEPT ![n] = [stream[s][n] EXCEPT !.read = TRUE]]
    OBVIOUS
  <2>6. q \in Seq(Entry) /\ Len(q) = Len(stream[s])
    BY <2>2, <2>4, <2>5, ExceptSeq
  <2>7. stream' = [stream EXCEPT ![s] = q]
    BY <2>1
  <2>8. handling' \in [Stream -> SUBSET Item]
    BY <2>1, <2>4 DEF StreamsTyped
  <2> HIDE DEF q
  <2> QED BY <2>2, <2>6, <2>7, <2>8, <1>2
<1>5. ASSUME NEW s \in Stream, NEW i \in handling[s], Discard(s, i) PROVE StreamsTyped'
  <2>1. handling' \in [Stream -> SUBSET Item]
    BY <1>5 DEF Discard, StreamsTyped
  <2>2. CASE UNCHANGED stream
    BY <2>1, <2>2 DEF StreamsTyped
  <2>3. CASE \E n \in ReadEntriesOf(s, i) : stream' = [stream EXCEPT ![s] = RemoveAt(@, n)]
    <3>1. PICK n \in ReadEntriesOf(s, i) : stream' = [stream EXCEPT ![s] = RemoveAt(stream[s], n)]
      BY <2>3
    <3>2. stream[s] \in Seq(Entry) /\ Len(stream[s]) <= MaxLength /\ n \in 1 .. Len(stream[s])
      BY <3>1 DEF StreamsTyped, ReadEntriesOf
    <3> DEFINE q == RemoveAt(stream[s], n)
    <3>3. q \in Seq(Entry) /\ Len(q) <= Len(stream[s])
      BY <3>2, RemovedIsTyped
    <3>4. Len(q) \in Nat /\ Len(stream[s]) \in Nat
      BY <3>2, <3>3, LenProperties
    <3> HIDE DEF q
    <3>5. Len(q) <= MaxLength
      BY <3>2, <3>3, <3>4, <1>1
    <3>6. stream' = [stream EXCEPT ![s] = q]
      BY <3>1 DEF q
    <3> QED BY <3>3, <3>5, <3>6, <2>1, <1>2
  <2> QED BY <2>2, <2>3, <1>5 DEF Discard
<1>6. ASSUME NEW s \in Stream, LoseStream(s) PROVE StreamsTyped'
  <2>1. <<>> \in Seq(Entry) /\ Len(<<>>) <= MaxLength
    BY <1>1, EmptySeq
  <2>2. stream' = [stream EXCEPT ![s] = <<>>] /\ handling' \in [Stream -> SUBSET Item]
    BY <1>6 DEF LoseStream, StreamsTyped
  <2> QED BY <2>1, <2>2, <1>2
<1>7. ASSUME NEW s \in Stream, Reconnect(s) PROVE StreamsTyped'
  BY <1>7 DEF Reconnect, StreamsTyped
<1>8. ASSUME \/ \E d \in Dispatcher : ClaimBatch(d) \/ Mark(d) \/ DispatcherCrash(d)
             \/ \E s \in Stream : \E i \in handling[s] : Handle(s, i)
             \/ \E i \in Item : Withdraw(i)
             \/ Tick
             \/ UNCHANGED deliveryVars
      PROVE  StreamsTyped'
  <2>1. UNCHANGED <<stream, handling>>
    BY <1>8 DEF ClaimBatch, Mark, DispatcherCrash, Handle, Withdraw, Tick, deliveryVars
  <2> QED BY <2>1 DEF StreamsTyped
<1> QED BY <1>3, <1>4, <1>5, <1>6, <1>7, <1>8 DEF DeliveryNext, DispatcherStep, ConsumerStep

\* Rows, streams and delays keep within their bounds, for any limits: XADD trims
\* a stream to max_stream_length, claim_batch and _retry_delay never reach
\* further than the cap, whatever Redis and the Dispatchers do.
THEOREM DeliveryStaysInBounds == DeliverySpec => []BoundsHold
<1> DEFINE Bounded == CountersTyped /\ StreamsTyped
<1>1. DeliveryInit => Bounded
  <2> SUFFICES ASSUME DeliveryInit PROVE Bounded
    OBVIOUS
  <2>1. <<>> \in Seq(Entry) /\ Len(<<>>) = 0
    BY EmptySeq
  <2>2. {LockTimeout, MaxBackoff, RetryCap, MaxLength, MaxFaults} \subseteq Nat
    BY DeliveryAssumption
  <2> QED BY <2>1, <2>2 DEF DeliveryInit, CountersTyped, StreamsTyped
<1>2. DeliveryInvariant /\ Bounded /\ [DeliveryNext]_deliveryVars => Bounded'
  BY CountersKeep, StreamsKeep
<1>3. DeliveryInvariant /\ Bounded => BoundsHold
  <2> SUFFICES ASSUME DeliveryInvariant, Bounded PROVE BoundsHold
    OBVIOUS
  <2>1. DeliveryTypeOK
    BY DEF DeliveryInvariant, ClaimsTyped, CountersTyped, StreamsTyped, DeliveryTypeOK
  <2>2. ASSUME NEW i \in Item, NEW more \in 0 .. 10 PROVE backoff[i] + more \in CappedDoubling
    <3> DEFINE n == backoff[i] + more
    <3>1. n \in 0 .. MaxBackoff + 10
      BY DeliveryAssumption DEF CountersTyped
    <3>2. n \in Nat
      BY <3>1
    <3> HIDE DEF n
    <3>3. \A base \in 1 .. 7, cap \in 1 .. 40 : base \in Nat \ {0} /\ cap \in Nat
      OBVIOUS
    <3>4. \A base \in 1 .. 7, cap \in 1 .. 40 :
            DelayOf(n, base, cap) = Smaller(base * 2 ^ (IF n = 0 THEN 0 ELSE n - 1), cap)
      BY <3>2, <3>3, DelayDoubles
    <3>5. n \in CappedDoubling
      BY <3>1, <3>4 DEF CappedDoubling
    <3> QED BY <3>5 DEF n
  <2> QED BY <2>1, <2>2 DEF BoundsHold, RetryDelayIsCapped
<1> HIDE DEF Bounded
<1> QED BY <1>1, <1>2, <1>3, DeliveryInvariantHolds, DeliveryInvariantStep, PTL DEF DeliverySpec

-----------------------------------------------------------------------------
(***************************************************************************)
(* ToolLedger, for any calls, tools and number of Attempts.                *)
(*                                                                         *)
(* The argument: an execution reserves a call at most once (Batches), so   *)
(* the epoch of a row counts its reservations (EpochsCount); an unsafe     *)
(* call is reserved only for a consent that has not been used (Allowed,    *)
(* Answers), so the epoch stays within the consents; and every epoch is    *)
(* performed at most once, by the execution that holds it (Effects).       *)
(***************************************************************************)

Row == [status : {"none", "started", "completed", "failed", "approval_required"},
        by : 0 .. MaxAttempts, epoch : 0 .. MaxAttempts, fresh : BOOLEAN]

Question == [kind : {"none", "consent", "doubt"}, calls : Seq(Call), asked : SUBSET Call,
             yes : SUBSET Call, blanket : BOOLEAN, used : SUBSET Call]

TablesTyped ==
  /\ run \in {"queued", "running", "waiting", "over"}
  /\ attempt \in 0 .. MaxAttempts
  /\ lease \in BOOLEAN /\ retried \in BOOLEAN /\ resumed \in BOOLEAN
  /\ pause \in Question
  /\ row \in [Call -> Row]

ProcessesTyped ==
  /\ pc \in [Attempt -> {"none", "recover", "over"} \union Deciding \union Working]
  /\ used \in [Attempt -> SUBSET Call]
  /\ consent \in [Attempt -> SUBSET Call]
  /\ bound \in [Attempt -> SUBSET Call]
  /\ refused \in [Attempt -> SUBSET Call]
  /\ todo \in [Attempt -> Seq(Call)]
  /\ held \in [Attempt -> Seq(Call \X (1 .. MaxAttempts))]
  /\ out \in [Attempt -> [Call -> {"none", "ok", "error"}]]
  /\ tries \in [Attempt -> [Call -> Nat]]
  /\ consents \in [Call -> Nat]
  /\ effects \in [Call -> [1 .. MaxAttempts -> Nat]]

LedgerTyped == TablesTyped /\ ProcessesTyped

Alive(a) == pc[a] \notin {"none", "over"}

\* A call is in at most one place of a batch, and was never in an earlier one.
Batches ==
  \A a \in Attempt :
    /\ IsInjective(todo[a]) /\ Range(todo[a]) \subseteq used[a]
    /\ bound[a] \subseteq used[a] \intersect Unsafe
    /\ IsInjective(held[a])
    /\ \A p \in Range(held[a]) : p[1] \in used[a] /\ p[1] \notin Range(todo[a])
    /\ \A p, q \in Range(held[a]) : p[1] = q[1] => p = q
    /\ pc[a] \in {"perform", "record"} => held[a] # <<>>
    /\ a > attempt => held[a] = <<>>

\* Every Attempt may reserve a call once.
EpochsCount ==
  \A c \in Call :
    /\ row[c].epoch <= attempt
    /\ row[c].status = "none" => row[c].epoch = 0
    /\ \A a \in Attempt :
         a = attempt /\ Alive(a) /\ (c \in Range(todo[a]) \/ c \notin used[a])
           => row[c].epoch < attempt

\* What the user was asked and has answered.
Answers ==
  /\ pause.yes \subseteq pause.asked
  /\ pause.asked \subseteq Range(pause.calls) \intersect Unsafe
  /\ IsInjective(pause.calls)
  /\ pause.blanket => pause.yes = pause.asked
  /\ pause.kind = "doubt" => Range(pause.calls) = pause.asked
  /\ \A c \in (Range(pause.calls) \intersect Unsafe) \ pause.asked : consents[c] >= 1
  /\ \A c \in pause.yes : consents[c] >= 1
  /\ run \in {"running", "waiting"} => ~resumed
  /\ pause.kind = "doubt" /\ run = "queued" /\ resumed =>
       \A c \in pause.yes : row[c].epoch < consents[c]

\* Consents suffice for the reservations made, and for the next one.
Allowed ==
  /\ \A c \in Unsafe : row[c].epoch <= consents[c]
  /\ \A a \in Attempt :
       /\ \A c \in consent[a] \intersect Unsafe : consents[c] >= 1
       /\ a = attempt /\ Alive(a) =>
            \A c \in bound[a] \intersect Range(todo[a]) : row[c].epoch < consents[c]

\* What has taken place under the reservations of a call.
Counted(c) ==
  /\ \A e \in 1 .. MaxAttempts :
       effects[c][e] <= MostRuns(c) /\ (effects[c][e] > 0 => e <= row[c].epoch)
  /\ row[c].status = "completed" =>
       row[c].epoch >= 1 /\ (c \in Cached \/ effects[c][row[c].epoch] > 0)

\* A reservation an execution holds has been run no more often than it was tried,
\* and may be tried once more as long as it has no answer.
Accounted(a, p) ==
  /\ p[2] <= row[p[1]].epoch
  /\ tries[a][p[1]] < MostRuns(p[1])
  /\ out[a][p[1]] = "none" => effects[p[1]][p[2]] <= tries[a][p[1]]
  /\ out[a][p[1]] = "ok" => p[1] \in Cached \/ effects[p[1]][p[2]] > 0

\* Answers and tries are of the calls of a batch, and tries of those without answer.
TriedIfHeld(a, c) ==
  /\ out[a][c] # "none" => tries[a][c] = 0
  /\ out[a][c] # "none" \/ tries[a][c] > 0 => \E p \in Range(held[a]) : p[1] = c

\* A reservation is held by one execution, which tries it as often as it may.
Effects ==
  /\ \A c \in Call : Counted(c)
  /\ \A a \in Attempt :
       /\ \A p \in Range(held[a]) : Accounted(a, p)
       /\ \A b \in Attempt \ {a} : Range(held[a]) \intersect Range(held[b]) = {}
       /\ \A c \in Call : TriedIfHeld(a, c)
       /\ pc[a] = "record" => \A p \in Range(held[a]) : out[a][p[1]] # "none"

\* Calls in doubt are found before anything else, and decided before work.
Doubts ==
  \A a \in Attempt : Authority(a) =>
    /\ pc[a] \in Deciding \union Working =>
         \A c \in Doubtful(a) : row[c].status = "approval_required"
    /\ pc[a] = "refuse" => Doubtful(a) \subseteq bound[a] \union refused[a]
    /\ pc[a] \in Working => Doubtful(a) \subseteq bound[a]

LedgerInvariant ==
  /\ LedgerTyped
  /\ Batches
  /\ EpochsCount
  /\ Answers
  /\ Allowed
  /\ Effects
  /\ Doubts
  /\ QuestionsStayOpen

-----------------------------------------------------------------------------
(* Sequences without repetition.                                           *)

LEMMA EmptyBatch == IsInjective(<<>>) /\ Range(<<>>) = {}
  BY DEF IsInjective, Range

LEMMA RangeOfSequence ==
  ASSUME NEW S, NEW s \in Seq(S)
  PROVE  /\ Range(s) \subseteq S
         /\ DOMAIN s = 1 .. Len(s)
         /\ \A x : x \in Range(s) <=> \E i \in 1 .. Len(s) : s[i] = x
<1>1. DOMAIN s = 1 .. Len(s)
  BY LenProperties
<1> QED BY <1>1, ElementOfSeq DEF Range

LEMMA TailOfBatch ==
  ASSUME NEW S, NEW s \in Seq(S), s # <<>>, IsInjective(s)
  PROVE  /\ Len(s) \in Nat \ {0}
         /\ Head(s) \in S /\ Head(s) \in Range(s)
         /\ Tail(s) \in Seq(S) /\ IsInjective(Tail(s))
         /\ \A x : x \in Range(Tail(s)) <=> x \in Range(s) /\ x # Head(s)
         /\ Tail(s) = <<>> <=> Len(s) = 1
<1>1. /\ Len(s) \in Nat \ {0} /\ Head(s) = s[1] /\ Head(s) \in S
      /\ Tail(s) \in Seq(S) /\ Len(Tail(s)) = Len(s) - 1
      /\ \A i \in 1 .. Len(s) - 1 : Tail(s)[i] = s[i + 1]
  BY HeadTailProperties, EmptySeq
<1>2. DOMAIN s = 1 .. Len(s) /\ DOMAIN Tail(s) = 1 .. Len(s) - 1
  BY <1>1, LenProperties
<1>3. Head(s) \in Range(s)
  BY <1>1, <1>2 DEF Range
<1>4. IsInjective(Tail(s))
  <2> SUFFICES ASSUME NEW i \in 1 .. Len(s) - 1, NEW j \in 1 .. Len(s) - 1,
                      Tail(s)[i] = Tail(s)[j]
               PROVE  i = j
    BY <1>2 DEF IsInjective
  <2>1. i + 1 \in 1 .. Len(s) /\ j + 1 \in 1 .. Len(s) /\ s[i + 1] = s[j + 1]
    BY <1>1
  <2>2. i + 1 = j + 1
    BY <2>1, <1>2 DEF IsInjective
  <2> QED BY <2>2
<1>5. ASSUME NEW x
      PROVE  x \in Range(Tail(s)) <=> x \in Range(s) /\ x # Head(s)
  <2>1. ASSUME x \in Range(Tail(s)) PROVE x \in Range(s) /\ x # Head(s)
    <3>1. PICK i \in 1 .. Len(s) - 1 : Tail(s)[i] = x
      BY <2>1, <1>2 DEF Range
    <3>2. i + 1 \in 1 .. Len(s) /\ s[i + 1] = x /\ i + 1 # 1 /\ 1 \in 1 .. Len(s)
      BY <3>1, <1>1
    <3> QED BY <3>2, <1>1, <1>2 DEF Range, IsInjective
  <2>2. ASSUME x \in Range(s), x # Head(s) PROVE x \in Range(Tail(s))
    <3>1. PICK i \in 1 .. Len(s) : s[i] = x
      BY <2>2, <1>2 DEF Range
    <3>2. i - 1 \in 1 .. Len(s) - 1
      BY <3>1, <2>2, <1>1
    <3>3. Tail(s)[i - 1] = x
      BY <3>1, <3>2, <1>1
    <3> QED BY <3>2, <3>3, <1>2 DEF Range
  <2> QED BY <2>1, <2>2
<1>6. Tail(s) = <<>> <=> Len(s) = 1
  <2>1. Tail(s) = <<>> <=> Len(Tail(s)) = 0
    BY <1>1, EmptySeq
  <2> QED BY <2>1, <1>1
<1> QED BY <1>1, <1>3, <1>4, <1>5, <1>6

LEMMA LongerBatch ==
  ASSUME NEW S, NEW s \in Seq(S), NEW x \in S, x \notin Range(s), IsInjective(s)
  PROVE  /\ Append(s, x) \in Seq(S) /\ IsInjective(Append(s, x)) /\ Append(s, x) # <<>>
         /\ \A y : y \in Range(Append(s, x)) <=> y \in Range(s) \/ y = x
<1>1. /\ Len(s) \in Nat /\ DOMAIN s = 1 .. Len(s)
      /\ Append(s, x) \in Seq(S) /\ Len(Append(s, x)) = Len(s) + 1
      /\ \A i \in 1 .. Len(s) : Append(s, x)[i] = s[i]
      /\ Append(s, x)[Len(s) + 1] = x
  BY LenProperties
<1>2. DOMAIN Append(s, x) = 1 .. Len(s) + 1
  BY <1>1, LenProperties
<1>3. \A i \in 1 .. Len(s) : s[i] \in Range(s)
  BY <1>1 DEF Range
<1>4. IsInjective(Append(s, x))
  <2> SUFFICES ASSUME NEW i \in 1 .. Len(s) + 1, NEW j \in 1 .. Len(s) + 1,
                      Append(s, x)[i] = Append(s, x)[j]
               PROVE  i = j
    BY <1>2 DEF IsInjective
  <2>1. CASE i \in 1 .. Len(s) /\ j \in 1 .. Len(s)
    BY <2>1, <1>1 DEF IsInjective
  <2>2. CASE i = Len(s) + 1 /\ j \in 1 .. Len(s)
    BY <2>2, <1>1, <1>3
  <2>3. CASE j = Len(s) + 1 /\ i \in 1 .. Len(s)
    BY <2>3, <1>1, <1>3
  <2>4. CASE i = Len(s) + 1 /\ j = Len(s) + 1
    BY <2>4
  <2> QED BY <2>1, <2>2, <2>3, <2>4, <1>1
<1>5. ASSUME NEW y
      PROVE  y \in Range(Append(s, x)) <=> y \in Range(s) \/ y = x
  <2>1. y \in Range(Append(s, x)) <=> \E i \in 1 .. Len(s) + 1 : Append(s, x)[i] = y
    BY <1>2 DEF Range
  <2>2. y \in Range(s) <=> \E i \in 1 .. Len(s) : s[i] = y
    BY <1>1 DEF Range
  <2> QED BY <2>1, <2>2, <1>1
<1>6. Append(s, x) # <<>>
  BY <1>1, EmptySeq
<1> QED BY <1>1, <1>4, <1>5, <1>6

\* The orders of a finite set are its enumerations without repetition.
LEMMA OrdersOfASet ==
  ASSUME NEW S, IsFiniteSet(S), NEW s \in SetToSeqs(S)
  PROVE  s \in Seq(S) /\ IsInjective(s) /\ Range(s) = S
<1>1. Cardinality(S) \in Nat
  BY FS_CardinalityType
<1> DEFINE D == 1 .. Cardinality(S)
<1>2. s \in [D -> S] /\ \A i, j \in D : i # j => s[i] # s[j]
  BY DEF SetToSeqs
<1>3. s \in Seq(S) /\ DOMAIN s = D
  BY <1>1, <1>2
<1>4. s \in Injection(D, S)
  BY <1>2 DEF Injection, IsInjective
<1>5. Cardinality(D) = Cardinality(S)
  BY <1>1, FS_Interval
<1>6. s \in Surjection(D, S)
  BY <1>4, <1>5, FS_Injection
<1>7. Range(s) = S
  BY <1>2, <1>3, <1>6 DEF Surjection, Range
<1> QED BY <1>2, <1>3, <1>7 DEF IsInjective

-----------------------------------------------------------------------------
(* Steps that leave the ledger alone.                                      *)

\* What a pause may look like when it is created.
FitQuestion(p) ==
  /\ p \in Question
  /\ p.yes = {} /\ p.blanket = FALSE
  /\ p.asked \subseteq Range(p.calls) \intersect Unsafe
  /\ IsInjective(p.calls)
  /\ p.kind = "doubt" =>
       Range(p.calls) = p.asked /\ \A c \in p.asked : row[c].status = "approval_required"
  /\ \A c \in (Range(p.calls) \intersect Unsafe) \ p.asked : consents[c] >= 1

\* An execution ends: it may end the Run or make it wait.
Ends(a) ==
  /\ Forget(a)
  /\ UNCHANGED <<attempt, lease, retried, resumed, row, history>>
  /\ \/ UNCHANGED <<run, pause>>
     \/ Authority(a) /\ run' = "over" /\ UNCHANGED pause
     \/ Authority(a) /\ run' = "waiting" /\ FitQuestion(pause')

LEMMA ForgetShape ==
  ASSUME LedgerTyped, NEW a \in Attempt, Forget(a)
  PROVE  /\ ProcessesTyped' <=> (consents' \in [Call -> Nat] /\ effects' \in [Call -> [1 .. MaxAttempts -> Nat]])
         /\ pc'[a] = "over" /\ used'[a] = {} /\ consent'[a] = {} /\ bound'[a] = {}
         /\ todo'[a] = <<>> /\ held'[a] = <<>>
         /\ \A c \in Call : out'[a][c] = "none" /\ tries'[a][c] = 0
         /\ \A b \in Attempt \ {a} :
              /\ pc'[b] = pc[b] /\ used'[b] = used[b] /\ consent'[b] = consent[b]
              /\ bound'[b] = bound[b] /\ refused'[b] = refused[b] /\ todo'[b] = todo[b]
              /\ held'[b] = held[b] /\ out'[b] = out[b] /\ tries'[b] = tries[b]
<1>1. ProcessesTyped
  BY DEF LedgerTyped
<1>2. /\ pc' \in [Attempt -> {"none", "recover", "over"} \union Deciding \union Working]
      /\ used' \in [Attempt -> SUBSET Call] /\ consent' \in [Attempt -> SUBSET Call]
      /\ bound' \in [Attempt -> SUBSET Call] /\ refused' \in [Attempt -> SUBSET Call]
      /\ todo' \in [Attempt -> Seq(Call)]
      /\ held' \in [Attempt -> Seq(Call \X (1 .. MaxAttempts))]
      /\ out' \in [Attempt -> [Call -> {"none", "ok", "error"}]]
      /\ tries' \in [Attempt -> [Call -> Nat]]
  BY <1>1 DEF ProcessesTyped, Forget, Goto
<1> QED BY <1>1, <1>2 DEF ProcessesTyped, Forget, Goto

\* A step that runs nothing and records nothing.
LEMMA EffectsUntouched ==
  ASSUME LedgerTyped, Effects, UNCHANGED <<held, out, tries, effects>>,
         \A c \in Call : /\ row'[c].epoch = row[c].epoch
                         /\ row'[c].status = "completed" => row[c].status = "completed",
         \A a \in Attempt : pc'[a] = "record" => pc[a] = "record"
  PROVE  Effects'
<1>1. held' = held /\ out' = out /\ tries' = tries /\ effects' = effects
  OBVIOUS
<1>2. \A c \in Call : Counted(c)'
  BY <1>1 DEF Effects, Counted, MostRuns
<1>3. ASSUME NEW a \in Attempt, NEW p \in Range(held[a])
      PROVE  Accounted(a, p)'
  <2>1. p[1] \in Call
    BY RangeOfSequence DEF LedgerTyped, ProcessesTyped
  <2> QED BY <1>1, <2>1 DEF Effects, Accounted, MostRuns
<1>4. \A a \in Attempt, c \in Call : TriedIfHeld(a, c)'
  BY <1>1 DEF Effects, TriedIfHeld
<1> QED BY <1>1, <1>2, <1>3, <1>4 DEF Effects

LEMMA EndKeeps ==
  ASSUME LedgerInvariant, NEW a \in Attempt, Ends(a)
  PROVE  LedgerInvariant'
<1>1. /\ LedgerTyped /\ Batches /\ EpochsCount /\ Answers /\ Allowed /\ Effects /\ Doubts
      /\ QuestionsStayOpen
  BY DEF LedgerInvariant
<1>2. /\ Forget(a) /\ UNCHANGED <<attempt, lease, retried, resumed, row, consents, effects>>
      /\ \/ UNCHANGED <<run, pause>>
         \/ Authority(a) /\ run' = "over" /\ UNCHANGED pause
         \/ Authority(a) /\ run' = "waiting" /\ FitQuestion(pause')
  BY DEF Ends, history
<1>3. /\ ProcessesTyped'
      /\ pc'[a] = "over" /\ used'[a] = {} /\ consent'[a] = {} /\ bound'[a] = {}
      /\ todo'[a] = <<>> /\ held'[a] = <<>>
      /\ \A c \in Call : out'[a][c] = "none" /\ tries'[a][c] = 0
      /\ \A b \in Attempt \ {a} :
           /\ pc'[b] = pc[b] /\ used'[b] = used[b] /\ consent'[b] = consent[b]
           /\ bound'[b] = bound[b] /\ refused'[b] = refused[b] /\ todo'[b] = todo[b]
           /\ held'[b] = held[b] /\ out'[b] = out[b] /\ tries'[b] = tries[b]
  BY <1>1, <1>2, ForgetShape DEF LedgerTyped, ProcessesTyped
<1>4. LedgerTyped'
  BY <1>1, <1>2, <1>3 DEF LedgerTyped, TablesTyped, FitQuestion
<1>5. Batches'
  <2>1. \A b \in Attempt : held'[b] = held[b] \/ held'[b] = <<>>
    BY <1>3
  <2> QED BY <2>1, <1>1, <1>2, <1>3, EmptyBatch DEF Batches
<1>6. EpochsCount'
  BY <1>1, <1>2, <1>3 DEF EpochsCount, Alive
<1>7. Answers'
  <2>1. CASE UNCHANGED <<run, pause>>
    BY <2>1, <1>1, <1>2 DEF Answers
  <2>2. CASE run' = "over" /\ UNCHANGED pause
    BY <2>2, <1>1, <1>2 DEF Answers
  <2>3. CASE Authority(a) /\ run' = "waiting" /\ FitQuestion(pause')
    BY <2>3, <1>1, <1>2 DEF Answers, FitQuestion, Authority
  <2> QED BY <1>2, <2>1, <2>2, <2>3
<1>8. Allowed'
  BY <1>1, <1>2, <1>3, EmptyBatch DEF Allowed, Alive
<1>9. Effects'
  <2> DEFINE same(b) == held'[b] = held[b] /\ out'[b] = out[b] /\ tries'[b] = tries[b]
             gone(b) == /\ Range(held'[b]) = {}
                        /\ \A c \in Call : out'[b][c] = "none" /\ tries'[b][c] = 0
  <2>1. \A b \in Attempt : same(b) \/ gone(b)
    <3>1. gone(a)
      BY <1>3, EmptyBatch
    <3>2. \A b \in Attempt \ {a} : same(b)
      BY <1>3
    <3> QED BY <3>1, <3>2
  <2>2. \A b \in Attempt : Range(held'[b]) \subseteq Range(held[b])
    BY <2>1
  <2>3. ASSUME NEW b \in Attempt, NEW p \in Range(held'[b])
        PROVE  Accounted(b, p)'
    <3>1. same(b) /\ p \in Range(held[b])
      BY <2>1, <2>3
    <3> QED BY <3>1, <1>1, <1>2 DEF Effects, Accounted, MostRuns
  <2>4. ASSUME NEW b \in Attempt, NEW d \in Attempt \ {b}
        PROVE  Range(held'[b]) \intersect Range(held'[d]) = {}
    BY <2>2, <1>1 DEF Effects
  <2>5. ASSUME NEW b \in Attempt, NEW c \in Call
        PROVE  TriedIfHeld(b, c)'
    <3>1. CASE same(b)
      BY <3>1, <1>1 DEF Effects, TriedIfHeld
    <3>2. CASE gone(b)
      BY <3>2 DEF TriedIfHeld
    <3> QED BY <3>1, <3>2, <2>1
  <2>6. \A c \in Call : Counted(c)'
    BY <1>1, <1>2 DEF Effects, Counted, MostRuns
  <2>7. \A b \in Attempt : pc'[b] = "record" => \A p \in Range(held'[b]) : out'[b][p[1]] # "none"
    BY <2>1, <1>1, <1>3 DEF Effects
  <2> QED BY <2>3, <2>4, <2>5, <2>6, <2>7 DEF Effects
<1>10. Doubts'
  <2> SUFFICES ASSUME NEW b \in Attempt, Authority(b)'
               PROVE  /\ pc'[b] \in Deciding \union Working =>
                           \A c \in Doubtful(b)' : row'[c].status = "approval_required"
                      /\ pc'[b] = "refuse" => Doubtful(b)' \subseteq bound'[b] \union refused'[b]
                      /\ pc'[b] \in Working => Doubtful(b)' \subseteq bound'[b]
    BY DEF Doubts
  <2>1. Authority(b) /\ Doubtful(b)' = Doubtful(b)
    BY <1>2 DEF Authority, Doubtful
  <2>2. CASE b = a
    BY <2>2, <1>3 DEF Deciding, Working
  <2>3. CASE b # a
    BY <2>1, <2>3, <1>1, <1>2, <1>3 DEF Doubts
  <2> QED BY <2>2, <2>3
<1>11. QuestionsStayOpen'
  BY <1>1, <1>2 DEF QuestionsStayOpen, FitQuestion
<1> QED BY <1>4, <1>5, <1>6, <1>7, <1>8, <1>9, <1>10, <1>11 DEF LedgerInvariant

\* The control plane takes authority away.
LEMMA AuthorityLost ==
  ASSUME LedgerInvariant,
         UNCHANGED <<attempt, resumed, pause, row, process, history>>,
         retried' \in BOOLEAN, lease' \in BOOLEAN, lease' => lease,
         \/ run' = run
         \/ run' = "queued" /\ run = "running"
         \/ run' = "over"
  PROVE  LedgerInvariant'
<1>1. /\ LedgerTyped /\ Batches /\ EpochsCount /\ Answers /\ Allowed /\ Effects /\ Doubts
      /\ QuestionsStayOpen
  BY DEF LedgerInvariant
<1>2. UNCHANGED <<pc, used, consent, bound, refused, todo, held, out, tries, consents, effects>>
  BY DEF process, history
<1>3. LedgerTyped'
  BY <1>1, <1>2 DEF LedgerTyped, TablesTyped, ProcessesTyped
<1>4. Batches' /\ EpochsCount' /\ Allowed' /\ Effects'
  BY <1>1, <1>2, EffectsUntouched DEF Batches, EpochsCount, Allowed, Alive
<1>5. Answers'
  BY <1>1, <1>2 DEF Answers
<1>6. Doubts'
  BY <1>1, <1>2 DEF Doubts, Authority, Doubtful
<1>7. QuestionsStayOpen'
  BY <1>1 DEF QuestionsStayOpen, Answers
<1> QED BY <1>3, <1>4, <1>5, <1>6, <1>7 DEF LedgerInvariant

LEMMA AnswerKeeps ==
  ASSUME LedgerInvariant, Answer
  PROVE  LedgerInvariant'
<1>1. /\ LedgerTyped /\ Batches /\ EpochsCount /\ Answers /\ Allowed /\ Effects /\ Doubts
      /\ QuestionsStayOpen
  BY DEF LedgerInvariant
<1>2. PICK yes \in SUBSET pause.asked, blanket \in BOOLEAN :
        /\ blanket => yes = pause.asked
        /\ pause' = [pause EXCEPT !.yes = yes, !.blanket = blanket]
        /\ consents' = [c \in Call |-> IF c \in yes THEN consents[c] + 1 ELSE consents[c]]
  BY DEF Answer
<1>3. /\ run = "waiting" /\ run' = "queued" /\ resumed' = TRUE
      /\ UNCHANGED <<attempt, lease, retried, row, effects>>
      /\ UNCHANGED <<pc, used, consent, bound, refused, todo, held, out, tries>>
  BY DEF Answer, process
<1>4. pause \in Question /\ consents \in [Call -> Nat]
  BY <1>1 DEF LedgerTyped, TablesTyped, ProcessesTyped
<1>5. /\ pause' \in Question
      /\ pause'.kind = pause.kind /\ pause'.calls = pause.calls /\ pause'.asked = pause.asked
      /\ pause'.yes = yes /\ pause'.blanket = blanket
  BY <1>2, <1>4 DEF Question
<1>6. /\ consents' \in [Call -> Nat]
      /\ \A c \in Call : consents'[c] >= consents[c]
      /\ \A c \in yes : consents'[c] = consents[c] + 1
  BY <1>2, <1>4 DEF Question
<1>7. LedgerTyped'
  BY <1>1, <1>3, <1>5, <1>6 DEF LedgerTyped, TablesTyped, ProcessesTyped
<1>8. Batches' /\ EpochsCount' /\ Effects'
  BY <1>1, <1>3, EffectsUntouched DEF Batches, EpochsCount, Alive
<1>9. \A c \in Call : row[c].epoch \in Nat
  BY <1>1 DEF LedgerTyped, TablesTyped, Row
<1>10. Answers'
  <2>1. \A c \in (Range(pause.calls) \intersect Unsafe) \ pause.asked : consents'[c] >= 1
    BY <1>1, <1>4, <1>6 DEF Answers, Unsafe
  <2>2. yes \subseteq Unsafe /\ Unsafe \subseteq Call
    BY <1>1, <1>4 DEF Answers, Unsafe
  <2>3. \A c \in yes : consents'[c] >= 1 /\ row[c].epoch < consents'[c]
    BY <2>2, <1>1, <1>4, <1>6, <1>9 DEF Allowed
  <2> QED BY <2>1, <2>3, <1>1, <1>2, <1>3, <1>5 DEF Answers
<1>11. Allowed'
  <2>1. \A c \in Unsafe : row[c].epoch <= consents'[c]
    BY <1>1, <1>4, <1>6, <1>9 DEF Allowed, Unsafe
  <2>2. ASSUME NEW b \in Attempt, NEW c \in consent[b] \intersect Unsafe
        PROVE  consents'[c] >= 1
    BY <1>1, <1>4, <1>6 DEF Allowed, Unsafe
  <2>3. ASSUME NEW b \in Attempt, b = attempt, Alive(b),
               NEW c \in bound[b] \intersect Range(todo[b])
        PROVE  row[c].epoch < consents'[c]
    <3>1. c \in Call /\ row[c].epoch < consents[c]
      BY <2>3, <1>1 DEF Allowed, LedgerTyped, ProcessesTyped
    <3> QED BY <3>1, <1>4, <1>6, <1>9
  <2> QED BY <2>1, <2>2, <2>3, <1>3 DEF Allowed, Alive
<1>12. Doubts'
  BY <1>3 DEF Doubts, Authority
<1>13. QuestionsStayOpen'
  BY <1>1, <1>3, <1>5 DEF QuestionsStayOpen
<1> QED BY <1>7, <1>8, <1>10, <1>11, <1>12, <1>13 DEF LedgerInvariant

-----------------------------------------------------------------------------
(* Steps that change rows, not their epochs.                               *)

LEMMA ReservationLapsesKeeps ==
  ASSUME LedgerInvariant, NEW c \in Call, ReservationLapses(c)
  PROVE  LedgerInvariant'
<1>1. /\ LedgerTyped /\ Batches /\ EpochsCount /\ Answers /\ Allowed /\ Effects /\ Doubts
      /\ QuestionsStayOpen
  BY DEF LedgerInvariant
<1>2. /\ UNCHANGED <<run, attempt, lease, retried, resumed, pause>>
      /\ UNCHANGED <<pc, used, consent, bound, refused, todo, held, out, tries, consents, effects>>
      /\ row' = [row EXCEPT ![c].fresh = FALSE]
  BY DEF ReservationLapses, process, history
<1>3. row' \in [Call -> Row]
  BY <1>1, <1>2 DEF LedgerTyped, TablesTyped, Row
<1>4. \A d \in Call : row'[d].status = row[d].status /\ row'[d].epoch = row[d].epoch
                      /\ row'[d].by = row[d].by
  BY <1>1, <1>2 DEF LedgerTyped, TablesTyped, Row
<1>5. LedgerTyped'
  BY <1>1, <1>2, <1>3 DEF LedgerTyped, TablesTyped, ProcessesTyped
<1>6. Batches'
  BY <1>1, <1>2 DEF Batches
<1>7. EpochsCount'
  BY <1>1, <1>2, <1>4 DEF EpochsCount, Alive
<1>8. pause.yes \subseteq Call /\ pause.asked \subseteq Call
  BY <1>1 DEF LedgerTyped, TablesTyped, Question
<1>9. Answers' /\ QuestionsStayOpen'
  BY <1>1, <1>2, <1>4, <1>8 DEF Answers, QuestionsStayOpen
<1>10. Allowed'
  <2>1. \A b \in Attempt : bound[b] \subseteq Call
    BY <1>1 DEF LedgerTyped, ProcessesTyped
  <2> QED BY <2>1, <1>1, <1>2, <1>4 DEF Allowed, Alive, Unsafe
<1>11. Effects'
  BY <1>1, <1>2, <1>4, EffectsUntouched
<1>12. Doubts'
  <2>1. \A b \in Attempt : Doubtful(b)' = Doubtful(b) /\ Authority(b)' = Authority(b)
    BY <1>2, <1>4 DEF Doubtful, Authority, Unsafe
  <2> QED BY <2>1, <1>1, <1>2, <1>4 DEF Doubts, Doubtful, Unsafe
<1> QED BY <1>5, <1>6, <1>7, <1>9, <1>10, <1>11, <1>12 DEF LedgerInvariant

\* The decisions about calls in doubt: statuses of rows that are not completed
\* change to one that is not either.
Decides(a, where) ==
  /\ Authority(a) /\ pc[a] \in {"recover", "refuse"}
  /\ where \in {"ask", "refuse", "reserve", "think"}
  /\ pc' = [pc EXCEPT ![a] = where]
  /\ UNCHANGED <<run, attempt, lease, retried, resumed, pause, used, consent, bound, refused,
                 todo, held, out, tries, consents, effects>>
  /\ row' \in [Call -> Row]
  /\ \A c \in Call : /\ row'[c].epoch = row[c].epoch /\ row'[c].by = row[c].by
                      /\ \/ row'[c].status = row[c].status
                         \/ row'[c].status \notin {"completed", "none"}

LEMMA DecisionFrame ==
  ASSUME LedgerInvariant, NEW a \in Attempt, NEW where, Decides(a, where)
  PROVE  /\ LedgerTyped' /\ Batches' /\ EpochsCount' /\ Answers' /\ Allowed' /\ Effects'
         /\ QuestionsStayOpen'
<1>1. /\ LedgerTyped /\ Batches /\ EpochsCount /\ Answers /\ Allowed /\ Effects
  BY DEF LedgerInvariant
<1>2. /\ UNCHANGED <<run, attempt, lease, retried, resumed, pause, used, consent, bound, refused,
                     todo, held, out, tries, consents, effects>>
      /\ row' \in [Call -> Row]
      /\ \A c \in Call : /\ row'[c].epoch = row[c].epoch /\ row'[c].by = row[c].by
                          /\ \/ row'[c].status = row[c].status
                             \/ row'[c].status \notin {"completed", "none"}
  BY DEF Decides
<1>3. /\ where \in {"ask", "refuse", "reserve", "think"} /\ pc[a] \in {"recover", "refuse"}
      /\ pc' = [pc EXCEPT ![a] = where]
      /\ pc'[a] = where /\ \A b \in Attempt \ {a} : pc'[b] = pc[b]
  BY <1>1 DEF LedgerTyped, ProcessesTyped, Decides
<1>4. \A b \in Attempt : /\ pc'[b] \in {"perform", "record"} => pc[b] \in {"perform", "record"}
                         /\ Alive(b)' => Alive(b)
  BY <1>3 DEF Alive
<1>5. LedgerTyped'
  <2>1. pc' \in [Attempt -> {"none", "recover", "over"} \union Deciding \union Working]
    BY <1>1, <1>3 DEF LedgerTyped, ProcessesTyped, Deciding, Working
  <2> QED BY <2>1, <1>2, <1>1 DEF LedgerTyped, TablesTyped, ProcessesTyped
<1>6. Batches'
  BY <1>2, <1>1, <1>4 DEF Batches
<1>7. EpochsCount'
  BY <1>2, <1>1, <1>4 DEF EpochsCount
<1>8. Answers' /\ QuestionsStayOpen'
  BY <1>2, <1>1 DEF Answers, QuestionsStayOpen, Authority, Decides, LedgerInvariant
<1>9. Allowed'
  <2>1. \A b \in Attempt : bound[b] \subseteq Call
    BY <1>1 DEF LedgerTyped, ProcessesTyped
  <2> QED BY <2>1, <1>2, <1>1, <1>4 DEF Allowed, Unsafe
<1>10. Effects'
  <2>1. \A b \in Attempt : pc'[b] = "record" => pc[b] = "record"
    BY <1>3
  <2> QED BY <2>1, <1>1, <1>2, EffectsUntouched
<1> QED BY <1>5, <1>6, <1>7, <1>8, <1>9, <1>10

\* Only the newest Attempt has authority, so the others have nothing to show.
LEMMA DoubtsOfTheNewest ==
  ASSUME LedgerInvariant, NEW a \in Attempt, Authority(a)',
         Authority(a)' =>
           /\ pc'[a] \in Deciding \union Working =>
                \A c \in Doubtful(a)' : row'[c].status = "approval_required"
           /\ pc'[a] = "refuse" => Doubtful(a)' \subseteq bound'[a] \union refused'[a]
           /\ pc'[a] \in Working => Doubtful(a)' \subseteq bound'[a]
  PROVE  Doubts'
  BY DEF Doubts, Authority

LEMMA FindRecoveriesKeeps ==
  ASSUME LedgerInvariant, NEW a \in Attempt, FindRecoveries(a)
  PROVE  LedgerInvariant'
<1>1. /\ LedgerTyped /\ Batches /\ Doubts
  BY DEF LedgerInvariant
<1> DEFINE where == IF Doubtful(a) # {} /\ bound[a] \union refused[a] # Doubtful(a) THEN "ask"
                    ELSE IF refused[a] # {} THEN "refuse" ELSE Start(a)
<1>2. /\ pc[a] = "recover" /\ Authority(a)
      /\ row' = [c \in Call |-> IF c \in Doubtful(a)
                                THEN [row[c] EXCEPT !.status = "approval_required", !.fresh = FALSE]
                                ELSE row[c]]
      /\ pc' = [pc EXCEPT ![a] = where]
      /\ UNCHANGED <<run, attempt, lease, retried, resumed, pause, used, consent, bound, refused,
                     todo, held, out, tries, consents, effects>>
  BY DEF FindRecoveries, Goto, history
<1>3. where \in {"ask", "refuse", "reserve", "think"}
  BY DEF Start
<1>4. pc'[a] = where
  BY <1>1, <1>2 DEF LedgerTyped, ProcessesTyped
<1>5. row' \in [Call -> Row]
  BY <1>1, <1>2 DEF LedgerTyped, TablesTyped, Row
<1>6. \A c \in Call : /\ row'[c].epoch = row[c].epoch /\ row'[c].by = row[c].by
                      /\ c \in Doubtful(a) => row'[c].status = "approval_required"
                      /\ c \notin Doubtful(a) => row'[c].status = row[c].status
  BY <1>1, <1>2 DEF LedgerTyped, TablesTyped, Row
<1>7. Doubtful(a)' = Doubtful(a)
  BY <1>6 DEF Doubtful, InDoubt, Unsafe
<1>8. /\ where = "refuse" => Doubtful(a) \subseteq bound[a] \union refused[a]
      /\ where \in Working => Doubtful(a) \subseteq bound[a]
  BY DEF Working
<1>9. Doubts'
  <2>1. \A c \in Doubtful(a) : row'[c].status = "approval_required"
    BY <1>6 DEF Doubtful, Unsafe
  <2>2. Authority(a)'
    BY <1>2 DEF Authority
  <2> HIDE DEF where
  <2> QED BY <2>1, <2>2, <1>2, <1>4, <1>7, <1>8, DoubtsOfTheNewest
<1> HIDE DEF where
<1>10. /\ LedgerTyped' /\ Batches' /\ EpochsCount' /\ Answers' /\ Allowed' /\ Effects'
       /\ QuestionsStayOpen'
  <2>1. \A c \in Call : /\ row'[c].epoch = row[c].epoch /\ row'[c].by = row[c].by
                        /\ \/ row'[c].status = row[c].status
                           \/ row'[c].status \notin {"completed", "none"}
    BY <1>6
  <2>2. Decides(a, where)
    BY <2>1, <1>2, <1>3, <1>5 DEF Decides
  <2> QED BY <2>2, DecisionFrame
<1> QED BY <1>9, <1>10 DEF LedgerInvariant

LEMMA RefuseKeeps ==
  ASSUME LedgerInvariant, NEW a \in Attempt, Refuse(a)
  PROVE  LedgerInvariant'
<1>1. /\ LedgerTyped /\ Batches /\ Doubts
  BY DEF LedgerInvariant
<1>2. /\ pc[a] = "refuse" /\ Authority(a)
      /\ \A c \in refused[a] : row[c].status = "approval_required"
      /\ row' = [c \in Call |-> IF c \in refused[a]
                                THEN [row[c] EXCEPT !.status = "failed", !.fresh = FALSE]
                                ELSE row[c]]
      /\ pc' = [pc EXCEPT ![a] = Start(a)]
      /\ UNCHANGED <<run, attempt, lease, retried, resumed, pause, used, consent, bound, refused,
                     todo, held, out, tries, consents, effects>>
  BY DEF Refuse, Goto, history
<1>3. Start(a) \in {"reserve", "think"}
  BY DEF Start
<1>4. pc'[a] = Start(a)
  BY <1>1, <1>2 DEF LedgerTyped, ProcessesTyped
<1>5. row' \in [Call -> Row]
  BY <1>1, <1>2 DEF LedgerTyped, TablesTyped, Row
<1>6. \A c \in Call : /\ row'[c].epoch = row[c].epoch /\ row'[c].by = row[c].by
                      /\ c \in refused[a] => row'[c].status = "failed"
                      /\ c \notin refused[a] => row'[c].status = row[c].status
  BY <1>1, <1>2 DEF LedgerTyped, TablesTyped, Row
<1>7. Doubtful(a)' \subseteq Doubtful(a) \ refused[a]
  BY <1>6 DEF Doubtful, InDoubt, Unsafe
<1>8. Doubts'
  <2>1. \A c \in Doubtful(a) : row[c].status = "approval_required"
    BY <1>1, <1>2 DEF Doubts, Deciding
  <2>2. Doubtful(a) \subseteq bound[a] \union refused[a]
    BY <1>1, <1>2 DEF Doubts
  <2>3. \A c \in Doubtful(a)' : row'[c].status = "approval_required"
    BY <2>1, <1>6, <1>7 DEF Doubtful, Unsafe
  <2>4. Doubtful(a)' \subseteq bound[a]
    BY <2>2, <1>7
  <2>5. Authority(a)'
    BY <1>2 DEF Authority
  <2> QED BY <2>3, <2>4, <2>5, <1>2, <1>3, <1>4, DoubtsOfTheNewest
<1>9. /\ LedgerTyped' /\ Batches' /\ EpochsCount' /\ Answers' /\ Allowed' /\ Effects'
      /\ QuestionsStayOpen'
  <2>1. \A c \in Call : /\ row'[c].epoch = row[c].epoch /\ row'[c].by = row[c].by
                        /\ \/ row'[c].status = row[c].status
                           \/ row'[c].status \notin {"completed", "none"}
    BY <1>6
  <2>2. Decides(a, Start(a))
    BY <2>1, <1>2, <1>3, <1>5 DEF Decides
  <2> QED BY <2>2, DecisionFrame
<1> QED BY <1>8, <1>9 DEF LedgerInvariant

-----------------------------------------------------------------------------
(* A new Attempt, and a new batch.                                         *)

LEMMA QuestionIsFinite ==
  ASSUME NEW S, NEW calls \in Seq(Call), NEW s \in InOrder(S, calls)
  PROVE  s \in Seq(Call) /\ IsInjective(s) /\ Range(s) = S \intersect Range(calls)
<1>1. S \intersect Range(calls) \subseteq Call
  BY RangeOfSequence
<1>2. IsFiniteSet(S \intersect Range(calls))
  BY <1>1, FS_Subset, ToolLedgerAssumption
<1>3. s \in SetToSeqs(S \intersect Range(calls))
  BY DEF InOrder
<1>4. s \in Seq(S \intersect Range(calls)) /\ IsInjective(s) /\ Range(s) = S \intersect Range(calls)
  BY <1>2, <1>3, OrdersOfASet
<1> QED BY <1>1, <1>4, SeqMonotonic

LEMMA ClaimKeeps ==
  ASSUME LedgerInvariant, NEW a \in Attempt, Claim(a)
  PROVE  LedgerInvariant'
<1>1. /\ LedgerTyped /\ Batches /\ EpochsCount /\ Answers /\ Allowed /\ Effects /\ Doubts
      /\ QuestionsStayOpen
  BY DEF LedgerInvariant
<1>2. /\ run = "queued" /\ a = attempt + 1
      /\ run' = "running" /\ attempt' = a /\ lease' = TRUE /\ resumed' = FALSE
      /\ pc' = [pc EXCEPT ![a] = "recover"]
      /\ UNCHANGED <<retried, pause, row, held, out, tries, consents, effects>>
  BY DEF Claim, Goto, history
<1> DEFINE said(loaded, S) == IF loaded THEN S ELSE {}
<1>3. PICK seen \in FlagSeen :
        /\ consent' = [consent EXCEPT ![a] = said(seen /\ resumed, Approved(pause))]
        /\ bound' = [bound EXCEPT ![a] = said(seen /\ resumed, IF pause.kind = "doubt" THEN pause.yes ELSE {})]
        /\ refused' = [refused EXCEPT ![a] =
              said(seen /\ resumed, IF pause.kind = "doubt" THEN pause.asked \ pause.yes ELSE {})]
        /\ used' = [used EXCEPT ![a] = said(seen /\ resumed, pause.used \union Range(pause.calls))]
        /\ \E order \in InOrder((Call \ pause.asked) \union Approved(pause), pause.calls) :
             todo' = [todo EXCEPT ![a] = IF seen /\ resumed THEN order ELSE <<>>]
  BY DEF Claim
<1>4. PICK order \in InOrder((Call \ pause.asked) \union Approved(pause), pause.calls) :
        todo' = [todo EXCEPT ![a] = IF seen /\ resumed THEN order ELSE <<>>]
  BY <1>3
<1> DEFINE loaded == seen /\ resumed
<1>5. /\ pause \in Question /\ attempt \in Nat /\ attempt + 1 \in Attempt
      /\ \A c \in Call : row[c].epoch \in Nat
  BY <1>1, <1>2 DEF LedgerTyped, TablesTyped, Row
<1>6. /\ order \in Seq(Call) /\ IsInjective(order) /\ Range(order) \subseteq Range(pause.calls)
      /\ Range(pause.calls) \subseteq Call
  BY <1>4, <1>5, QuestionIsFinite, RangeOfSequence DEF Question
<1>7. Approved(pause) \subseteq Call
  BY <1>5, <1>6 DEF Approved, Question
<1>8. /\ consent'[a] \subseteq Approved(pause)
      /\ bound'[a] \subseteq pause.yes /\ (bound'[a] # {} => pause.kind = "doubt" /\ resumed)
      /\ used'[a] = said(loaded, pause.used \union Range(pause.calls))
      /\ todo'[a] = (IF loaded THEN order ELSE <<>>)
      /\ bound'[a] \subseteq used'[a] \intersect Unsafe
  <2>1. pause.yes \subseteq Range(pause.calls) \intersect Unsafe
    BY <1>1 DEF Answers
  <2> QED BY <2>1, <1>1, <1>3, <1>4 DEF LedgerTyped, ProcessesTyped
<1>9. \A b \in Attempt \ {a} : /\ pc'[b] = pc[b] /\ used'[b] = used[b] /\ consent'[b] = consent[b]
                               /\ bound'[b] = bound[b] /\ todo'[b] = todo[b]
  BY <1>1, <1>2, <1>3, <1>4 DEF LedgerTyped, ProcessesTyped
<1>10. LedgerTyped'
  <2>1. TablesTyped'
    <3>1. a \in 0 .. MaxAttempts
      BY ToolLedgerAssumption DEF Attempt
    <3> QED BY <3>1, <1>1, <1>2 DEF LedgerTyped, TablesTyped
  <2>2. pc' \in [Attempt -> {"none", "recover", "over"} \union Deciding \union Working]
    BY <1>1, <1>2 DEF LedgerTyped, ProcessesTyped
  <2>3. /\ used' \in [Attempt -> SUBSET Call] /\ consent' \in [Attempt -> SUBSET Call]
        /\ bound' \in [Attempt -> SUBSET Call] /\ refused' \in [Attempt -> SUBSET Call]
    BY <1>1, <1>3, <1>5, <1>6, <1>7 DEF LedgerTyped, ProcessesTyped, Question
  <2>4. todo' \in [Attempt -> Seq(Call)]
    BY <1>1, <1>4, <1>6 DEF LedgerTyped, ProcessesTyped
  <2> QED BY <2>1, <2>2, <2>3, <2>4, <1>1, <1>2 DEF LedgerTyped, ProcessesTyped
<1> HIDE DEF said, loaded
<1>11. held[a] = <<>> /\ Range(held[a]) = {}
  BY <1>1, <1>2, <1>5, EmptyBatch DEF Batches
<1>12. IsInjective(todo'[a]) /\ Range(todo'[a]) \subseteq used'[a]
  BY <1>6, <1>8, EmptyBatch DEF said
<1>13. Batches'
  <2> SUFFICES ASSUME NEW b \in Attempt
               PROVE  /\ IsInjective(todo'[b]) /\ Range(todo'[b]) \subseteq used'[b]
                      /\ bound'[b] \subseteq used'[b] \intersect Unsafe
                      /\ IsInjective(held[b])
                      /\ \A p \in Range(held[b]) : p[1] \in used'[b] /\ p[1] \notin Range(todo'[b])
                      /\ \A p, q \in Range(held[b]) : p[1] = q[1] => p = q
                      /\ pc'[b] \in {"perform", "record"} => held[b] # <<>>
                      /\ b > attempt' => held[b] = <<>>
    BY <1>2 DEF Batches
  <2>1. CASE b = a
    <3>1. pc'[a] = "recover"
      BY <1>1, <1>2 DEF LedgerTyped, ProcessesTyped
    <3> QED BY <2>1, <3>1, <1>8, <1>11, <1>12, EmptyBatch
  <2>2. CASE b # a
    BY <2>2, <1>1, <1>2, <1>5, <1>9 DEF Batches, Attempt
  <2> QED BY <2>1, <2>2
<1>14. EpochsCount'
  BY <1>1, <1>2, <1>5 DEF EpochsCount
<1>15. Answers' /\ QuestionsStayOpen'
  BY <1>1, <1>2 DEF Answers, QuestionsStayOpen
<1>16. Allowed'
  <2>1. \A c \in Approved(pause) \intersect Unsafe : consents[c] >= 1
    BY <1>1, <1>5 DEF Answers, Approved, Question
  <2>2. \A b \in Attempt : \A c \in consent'[b] \intersect Unsafe : consents[c] >= 1
    BY <2>1, <1>1, <1>8, <1>9 DEF Allowed
  <2>3. \A c \in bound'[a] : row[c].epoch < consents[c]
    BY <1>1, <1>2, <1>8 DEF Answers
  <2> QED BY <2>2, <2>3, <1>1, <1>2 DEF Allowed
<1>17. Effects'
  BY <1>1, <1>2, EffectsUntouched
<1>18. Doubts'
  <2> SUFFICES ASSUME NEW b \in Attempt, Authority(b)'
               PROVE  /\ pc'[b] \in Deciding \union Working =>
                           \A c \in Doubtful(b)' : row'[c].status = "approval_required"
                      /\ pc'[b] = "refuse" => Doubtful(b)' \subseteq bound'[b] \union refused'[b]
                      /\ pc'[b] \in Working => Doubtful(b)' \subseteq bound'[b]
    BY DEF Doubts
  <2>1. b = a
    BY <1>2 DEF Authority
  <2>2. pc'[b] = "recover"
    BY <2>1, <1>1, <1>2 DEF LedgerTyped, ProcessesTyped
  <2> QED BY <2>2 DEF Deciding, Working
<1> QED BY <1>10, <1>13, <1>14, <1>15, <1>16, <1>17, <1>18 DEF LedgerInvariant

\* The model asks for a batch that needs no consent.
LEMMA BatchKeeps ==
  ASSUME LedgerInvariant, NEW a \in Attempt, NEW calls \in Batch,
         pc[a] = "think", Range(calls) \intersect used[a] = {},
         Goto(a, "reserve"),
         used' = [used EXCEPT ![a] = @ \union Range(calls)],
         todo' = [todo EXCEPT ![a] = calls],
         UNCHANGED <<tables, consent, bound, refused, held, out, tries, history>>
  PROVE  LedgerInvariant'
<1>1. /\ LedgerTyped /\ Batches /\ EpochsCount /\ Answers /\ Allowed /\ Effects /\ Doubts
      /\ QuestionsStayOpen
  BY DEF LedgerInvariant
<1>2. /\ UNCHANGED <<run, attempt, lease, retried, resumed, pause, row>>
      /\ UNCHANGED <<consent, bound, refused, held, out, tries, consents, effects>>
      /\ pc' = [pc EXCEPT ![a] = "reserve"]
  BY DEF tables, history, Goto
<1>3. calls \in Seq(Call) /\ IsInjective(calls) /\ Range(calls) \subseteq Call
  BY ToolLedgerAssumption, RangeOfSequence
<1>4. /\ pc'[a] = "reserve" /\ used'[a] = used[a] \union Range(calls) /\ todo'[a] = calls
      /\ \A b \in Attempt \ {a} : pc'[b] = pc[b] /\ used'[b] = used[b] /\ todo'[b] = todo[b]
  BY <1>1, <1>2 DEF LedgerTyped, ProcessesTyped
<1>5. LedgerTyped'
  <2>1. pc' \in [Attempt -> {"none", "recover", "over"} \union Deciding \union Working]
    BY <1>1, <1>2 DEF LedgerTyped, ProcessesTyped, Working
  <2>2. used' \in [Attempt -> SUBSET Call] /\ todo' \in [Attempt -> Seq(Call)]
    BY <1>1, <1>3 DEF LedgerTyped, ProcessesTyped
  <2> QED BY <2>1, <2>2, <1>1, <1>2 DEF LedgerTyped, TablesTyped, ProcessesTyped
<1>6. Batches'
  <2> SUFFICES ASSUME NEW b \in Attempt
               PROVE  /\ IsInjective(todo'[b]) /\ Range(todo'[b]) \subseteq used'[b]
                      /\ bound[b] \subseteq used'[b] \intersect Unsafe
                      /\ IsInjective(held[b])
                      /\ \A p \in Range(held[b]) : p[1] \in used'[b] /\ p[1] \notin Range(todo'[b])
                      /\ \A p, q \in Range(held[b]) : p[1] = q[1] => p = q
                      /\ pc'[b] \in {"perform", "record"} => held[b] # <<>>
                      /\ b > attempt => held[b] = <<>>
    BY <1>2 DEF Batches
  <2>1. CASE b = a
    BY <2>1, <1>1, <1>3, <1>4 DEF Batches
  <2>2. CASE b # a
    BY <2>2, <1>1, <1>4 DEF Batches
  <2> QED BY <2>1, <2>2
<1>7. EpochsCount'
  <2> SUFFICES ASSUME NEW c \in Call, NEW b \in Attempt, b = attempt, Alive(b)',
                      c \in Range(todo'[b]) \/ c \notin used'[b]
               PROVE  row[c].epoch < attempt
    BY <1>1, <1>2 DEF EpochsCount
  <2>1. Alive(b) /\ (c \in Range(todo[b]) \/ c \notin used[b])
    BY <1>4 DEF Alive
  <2> QED BY <2>1, <1>1 DEF EpochsCount
<1>8. Answers' /\ QuestionsStayOpen'
  BY <1>1, <1>2 DEF Answers, QuestionsStayOpen
<1>9. Allowed'
  <2>1. bound[a] \intersect Range(calls) = {}
    BY <1>1 DEF Batches
  <2>2. ASSUME NEW b \in Attempt, b = attempt, Alive(b)'
        PROVE  \A c \in bound[b] \intersect Range(todo'[b]) : row[c].epoch < consents[c]
    BY <2>1, <2>2, <1>1, <1>4 DEF Allowed, Alive
  <2> QED BY <2>2, <1>1, <1>2 DEF Allowed
<1>10. Effects'
  BY <1>1, <1>2, EffectsUntouched
<1>11. Doubts'
  <2> SUFFICES ASSUME NEW b \in Attempt, Authority(b)'
               PROVE  /\ pc'[b] \in Deciding \union Working =>
                           \A c \in Doubtful(b)' : row'[c].status = "approval_required"
                      /\ pc'[b] = "refuse" => Doubtful(b)' \subseteq bound'[b] \union refused'[b]
                      /\ pc'[b] \in Working => Doubtful(b)' \subseteq bound'[b]
    BY DEF Doubts
  <2>1. Authority(b) /\ Doubtful(b)' = Doubtful(b)
    BY <1>2 DEF Authority, Doubtful
  <2>2. CASE b = a
    BY <2>1, <2>2, <1>1, <1>2, <1>4 DEF Doubts, Working
  <2>3. CASE b # a
    BY <2>1, <2>3, <1>1, <1>2, <1>4 DEF Doubts
  <2> QED BY <2>2, <2>3
<1> QED BY <1>5, <1>6, <1>7, <1>8, <1>9, <1>10, <1>11 DEF LedgerInvariant

-----------------------------------------------------------------------------
(* Reservations.                                                           *)

LEMMA HeldPairs ==
  ASSUME LedgerTyped
  PROVE  \A b \in Attempt : \A p \in Range(held[b]) :
           p[1] \in Call /\ p[2] \in 1 .. MaxAttempts /\ p = <<p[1], p[2]>>
<1> SUFFICES ASSUME NEW b \in Attempt, NEW p \in Range(held[b])
             PROVE  p[1] \in Call /\ p[2] \in 1 .. MaxAttempts /\ p = <<p[1], p[2]>>
  OBVIOUS
<1>1. held[b] \in Seq(Call \X (1 .. MaxAttempts))
  BY DEF LedgerTyped, ProcessesTyped
<1>2. p \in Call \X (1 .. MaxAttempts)
  BY <1>1, RangeOfSequence
<1> QED BY <1>2

\* The answers of the ledger to an execution that asks for a call.
LEMMA VerdictFacts ==
  ASSUME NEW a, NEW c
  PROVE  /\ Verdict(a, c) = "start" =>
              /\ row[c].status # "completed"
              /\ c \in Unsafe => \/ row[c].status = "none" /\ c \in consent[a]
                                 \/ row[c].status = "approval_required" /\ c \in bound[a]
         /\ Verdict(a, c) = "hold" =>
              row[c].status = "none" \/ (row[c].status = "started" /\ c \in Unsafe)
<1> DEFINE ambiguous == \E d \in Unsafe \ {c} : Meaning[d] = Meaning[c] /\ row[d].status \in InDoubt
<1>1. CASE row[c].status = "none"
  <2>1. Verdict(a, c) = IF c \in bound[a] THEN "reject"
                        ELSE IF c \in consent[a] \/ (c \in Safe /\ ~ambiguous) THEN "start" ELSE "hold"
    BY <1>1 DEF Verdict
  <2> HIDE DEF ambiguous
  <2> QED BY <1>1, <2>1 DEF Unsafe
<1>2. CASE row[c].status # "none"
  <2>1. Verdict(a, c) =
          IF row[c].status = "completed" \/ (row[c].status = "started" /\ row[c].fresh) THEN "reuse"
          ELSE IF row[c].status = "started" /\ c \in Unsafe THEN "hold"
          ELSE IF row[c].status # "started" /\ c \in Unsafe /\ c \notin consent[a] THEN "reuse"
          ELSE IF c \in consent[a] /\ ~(c \in bound[a] /\ row[c].status = "approval_required")
          THEN "reject" ELSE "start"
    BY <1>2 DEF Verdict
  <2> QED BY <1>2, <2>1
<1> QED BY <1>1, <1>2

\* A call is started, held back or answered from its row.
Starts(a, c) ==
  /\ row' = [row EXCEPT ![c] = [status |-> "started", by |-> a, epoch |-> row[c].epoch + 1, fresh |-> TRUE]]
  /\ held' = [held EXCEPT ![a] = Append(@, <<c, row[c].epoch + 1>>)]
  /\ row[c].status # "completed"
  /\ c \in Unsafe => \/ row[c].status = "none" /\ c \in consent[a]
                     \/ row[c].status = "approval_required" /\ c \in bound[a]

Holds(a, c) ==
  /\ row' = [row EXCEPT ![c] = [status |-> "approval_required",
                                by |-> IF row[c].status = "none" THEN a ELSE row[c].by,
                                epoch |-> row[c].epoch, fresh |-> FALSE]]
  /\ held' = held
  /\ row[c].status = "none" \/ (row[c].status = "started" /\ c \in Unsafe)

LEMMA ReserveShape ==
  ASSUME LedgerTyped, NEW a \in Attempt, Reserve(a)
  PROVE  /\ \/ Starts(a, Head(todo[a]))
            \/ Holds(a, Head(todo[a]))
            \/ row' = row /\ held' = held
         /\ pc' = [pc EXCEPT ![a] = IF Len(todo[a]) > 1 THEN "reserve"
                                    ELSE IF held'[a] = <<>> THEN "think" ELSE "perform"]
         /\ todo' = [todo EXCEPT ![a] = Tail(@)]
<1> DEFINE c == Head(todo[a])
<1>1. /\ row' = CASE Verdict(a, c) = "start" -> [row EXCEPT ![c] = Reservation(a, c)]
                  [] Verdict(a, c) = "hold" -> [row EXCEPT ![c] = [status |-> "approval_required",
                                     by |-> IF @.status = "none" THEN a ELSE @.by,
                                     epoch |-> @.epoch, fresh |-> FALSE]]
                  [] OTHER -> row
      /\ held' = IF Verdict(a, c) = "start"
                 THEN [held EXCEPT ![a] = Append(@, <<c, Reservation(a, c).epoch>>)] ELSE held
  BY DEF Reserve
<1>2. Reservation(a, c) = [status |-> "started", by |-> a, epoch |-> row[c].epoch + 1, fresh |-> TRUE]
  BY DEF Reservation
<1> HIDE DEF c
<1>3. CASE Verdict(a, c) = "start"
  <2>1. Starts(a, c)
    BY <1>1, <1>2, <1>3, VerdictFacts DEF Starts
  <2> QED BY <2>1 DEF Reserve, Goto, c
<1>4. CASE Verdict(a, c) = "hold"
  <2>1. row' = [row EXCEPT ![c] = [status |-> "approval_required",
                                   by |-> IF row[c].status = "none" THEN a ELSE row[c].by,
                                   epoch |-> row[c].epoch, fresh |-> FALSE]]
    <3>1. row' = [row EXCEPT ![c] = [status |-> "approval_required",
                                     by |-> IF @.status = "none" THEN a ELSE @.by,
                                     epoch |-> @.epoch, fresh |-> FALSE]]
      BY <1>1, <1>4
    <3>2. row \in [Call -> Row]
      BY DEF LedgerTyped, TablesTyped
    <3> QED BY <3>1, <3>2
  <2>2. Holds(a, c)
    BY <2>1, <1>1, <1>4, VerdictFacts DEF Holds
  <2> QED BY <2>2 DEF Reserve, Goto, c
<1>5. CASE Verdict(a, c) \notin {"start", "hold"}
  <2>1. row' = row /\ held' = held
    BY <1>1, <1>5
  <2> QED BY <2>1 DEF Reserve, Goto, c
<1> QED BY <1>3, <1>4, <1>5

LEMMA ReserveKeeps ==
  ASSUME LedgerInvariant, NEW a \in Attempt, Reserve(a)
  PROVE  LedgerInvariant'
<1>1. /\ LedgerTyped /\ Batches /\ EpochsCount /\ Answers /\ Allowed /\ Effects /\ Doubts
  BY DEF LedgerInvariant
<1> DEFINE c == Head(todo[a])
           e == row[c].epoch + 1
<1>2. /\ pc[a] = "reserve" /\ todo[a] # <<>> /\ run = "running" /\ a = attempt /\ Authority(a)
      /\ UNCHANGED <<run, attempt, lease, retried, resumed, pause>>
      /\ UNCHANGED <<used, consent, bound, refused, out, tries, consents, effects>>
  BY DEF Reserve, history, Authority
<1>3. /\ Starts(a, c) \/ Holds(a, c) \/ (row' = row /\ held' = held)
      /\ pc' = [pc EXCEPT ![a] = IF Len(todo[a]) > 1 THEN "reserve"
                                 ELSE IF held'[a] = <<>> THEN "think" ELSE "perform"]
      /\ todo' = [todo EXCEPT ![a] = Tail(@)]
  BY <1>1, ReserveShape
<1>4. todo[a] \in Seq(Call) /\ IsInjective(todo[a]) /\ todo[a] # <<>>
  BY <1>1, <1>2 DEF Batches, LedgerTyped, ProcessesTyped
<1>5. /\ Len(todo[a]) \in Nat \ {0}
      /\ c \in Call /\ c \in Range(todo[a])
      /\ Tail(todo[a]) \in Seq(Call) /\ IsInjective(Tail(todo[a]))
      /\ \A x : x \in Range(Tail(todo[a])) <=> x \in Range(todo[a]) /\ x # c
  BY <1>4, TailOfBatch
<1>6. todo'[a] = Tail(todo[a]) /\ \A b \in Attempt \ {a} : todo'[b] = todo[b] /\ pc'[b] = pc[b]
  BY <1>1, <1>3 DEF LedgerTyped, ProcessesTyped
<1>7. /\ pc'[a] \in {"reserve", "think", "perform"}
      /\ pc'[a] = "perform" => held'[a] # <<>>
  BY <1>1, <1>3 DEF LedgerTyped, ProcessesTyped
<1>8. /\ row \in [Call -> Row] /\ row[c].epoch \in 0 .. MaxAttempts /\ row[c].epoch < attempt
      /\ attempt \in 0 .. MaxAttempts /\ MaxAttempts \in Nat
      /\ held[a] \in Seq(Call \X (1 .. MaxAttempts)) /\ held \in [Attempt -> Seq(Call \X (1 .. MaxAttempts))]
  <2>1. Alive(a)
    BY <1>2 DEF Alive
  <2>2. row[c].epoch < attempt
    BY <2>1, <1>1, <1>2, <1>5 DEF EpochsCount
  <2> QED BY <2>2, <1>1, <1>5, ToolLedgerAssumption DEF LedgerTyped, TablesTyped, ProcessesTyped, Row
<1>9. /\ row[c].epoch \in Nat /\ attempt \in Nat /\ e \in 1 .. MaxAttempts /\ e \in Nat /\ e <= attempt
      /\ e = row[c].epoch + 1
  BY <1>8
<1>10. <<c, e>> \notin Range(held[a]) /\ \A p \in Range(held[a]) : p[1] # c
  BY <1>1, <1>5 DEF Batches
<1> HIDE DEF c, e
<1>11. /\ row' \in [Call -> Row]
       /\ \A d \in Call \ {c} : row'[d] = row[d]
       /\ \/ /\ row'[c].status = "started" /\ row'[c].by = a /\ row'[c].epoch = e
             /\ row[c].status # "completed"
             /\ c \in Unsafe => \/ row[c].status = "none" /\ c \in consent[a]
                                \/ row[c].status = "approval_required" /\ c \in bound[a]
          \/ /\ row'[c].status = "approval_required" /\ row'[c].epoch = row[c].epoch
             /\ \/ row[c].status = "none" /\ row'[c].by = a
                \/ row[c].status = "started" /\ c \in Unsafe /\ row'[c].by = row[c].by
          \/ row'[c] = row[c]
  <2>1. CASE Starts(a, c)
    <3>1. row' = [row EXCEPT ![c] = [status |-> "started", by |-> a, epoch |-> e, fresh |-> TRUE]]
      BY <2>1, <1>9 DEF Starts
    <3>2. [status |-> "started", by |-> a, epoch |-> e, fresh |-> TRUE] \in Row
      BY <1>2, <1>8, <1>9 DEF Row
    <3> QED BY <3>1, <3>2, <2>1, <1>5, <1>8 DEF Starts
  <2>2. CASE Holds(a, c)
    <3>1. /\ row' = [row EXCEPT ![c] = [status |-> "approval_required",
                                        by |-> IF row[c].status = "none" THEN a ELSE row[c].by,
                                        epoch |-> row[c].epoch, fresh |-> FALSE]]
          /\ row[c].status = "none" \/ (row[c].status = "started" /\ c \in Unsafe)
      BY <2>2 DEF Holds
    <3>2. /\ a \in 0 .. MaxAttempts /\ row[c].by \in 0 .. MaxAttempts
      BY <1>2, <1>5, <1>8 DEF Row
    <3>3. [status |-> "approval_required",
           by |-> IF row[c].status = "none" THEN a ELSE row[c].by,
           epoch |-> row[c].epoch, fresh |-> FALSE] \in Row
      BY <3>2, <1>8 DEF Row
    <3> QED BY <3>1, <3>3, <1>5, <1>8
  <2>3. CASE row' = row
    BY <2>3, <1>8
  <2> QED BY <1>3, <2>1, <2>2, <2>3
<1>12. /\ held' \in [Attempt -> Seq(Call \X (1 .. MaxAttempts))]
       /\ \A b \in Attempt \ {a} : held'[b] = held[b]
       /\ IsInjective(held'[a])
       /\ \/ held'[a] = held[a]
          \/ /\ row'[c].epoch = e
             /\ \A p : p \in Range(held'[a]) <=> p \in Range(held[a]) \/ p = <<c, e>>
  <2>1. IsInjective(held[a])
    BY <1>1 DEF Batches
  <2>2. CASE Starts(a, c)
    <3>1. held' = [held EXCEPT ![a] = Append(held[a], <<c, e>>)]
      BY <2>2, <1>8, <1>9 DEF Starts
    <3>2. <<c, e>> \in Call \X (1 .. MaxAttempts)
      BY <1>5, <1>9
    <3>3. /\ Append(held[a], <<c, e>>) \in Seq(Call \X (1 .. MaxAttempts))
          /\ IsInjective(Append(held[a], <<c, e>>))
          /\ \A p : p \in Range(Append(held[a], <<c, e>>)) <=> p \in Range(held[a]) \/ p = <<c, e>>
      <4> DEFINE S == Call \X (1 .. MaxAttempts)
                 s == held[a]
                 x == <<c, e>>
      <4>1. s \in Seq(S) /\ x \in S /\ x \notin Range(s) /\ IsInjective(s)
        BY <2>1, <3>2, <1>8, <1>10
      <4> HIDE DEF S, s, x
      <4>2. /\ Append(s, x) \in Seq(S) /\ IsInjective(Append(s, x))
            /\ \A y : y \in Range(Append(s, x)) <=> y \in Range(s) \/ y = x
        BY <4>1, LongerBatch
      <4> QED BY <4>2 DEF S, s, x
    <3>4. row'[c].epoch = e
      BY <2>2, <1>5, <1>8, <1>9 DEF Starts
    <3>5. held'[a] = Append(held[a], <<c, e>>) /\ \A b \in Attempt \ {a} : held'[b] = held[b]
      BY <3>1, <1>8
    <3>6. held' \in [Attempt -> Seq(Call \X (1 .. MaxAttempts))]
      BY <3>1, <3>3, <1>8
    <3> QED BY <3>3, <3>4, <3>5, <3>6
  <2>3. CASE held' = held
    BY <2>1, <2>3, <1>8
  <2> QED BY <1>3, <2>2, <2>3 DEF Holds
<1>13. \A d \in Call : row[d].epoch \in Nat /\ row'[d].epoch \in Nat /\ row'[d].epoch >= row[d].epoch
  <2>1. ASSUME NEW d \in Call
        PROVE  row[d].epoch \in Nat /\ row'[d].epoch \in Nat
    <3>1. row[d] \in Row /\ row'[d] \in Row
      BY <1>8, <1>11
    <3> QED BY <3>1, <1>8 DEF Row
  <2>2. row'[c].epoch \in {e, row[c].epoch}
    BY <1>11
  <2>3. ASSUME NEW d \in Call
        PROVE  row'[d].epoch >= row[d].epoch
    <3>1. CASE d = c
      BY <3>1, <2>2, <1>9
    <3>2. CASE d # c
      BY <3>2, <2>1, <1>11
    <3> QED BY <3>1, <3>2
  <2> QED BY <2>1, <2>3
<1>14. LedgerTyped'
  <2>1. todo' \in [Attempt -> Seq(Call)]
    BY <1>1, <1>3, <1>5 DEF LedgerTyped, ProcessesTyped
  <2>2. pc' \in [Attempt -> {"none", "recover", "over"} \union Deciding \union Working]
    BY <1>1, <1>6, <1>7, <1>3 DEF LedgerTyped, ProcessesTyped, Working
  <2> QED BY <2>1, <2>2, <1>1, <1>2, <1>11, <1>12 DEF LedgerTyped, TablesTyped, ProcessesTyped
<1>15. Batches'
  <2> SUFFICES ASSUME NEW b \in Attempt
               PROVE  /\ IsInjective(todo'[b]) /\ Range(todo'[b]) \subseteq used[b]
                      /\ bound[b] \subseteq used[b] \intersect Unsafe
                      /\ IsInjective(held'[b])
                      /\ \A p \in Range(held'[b]) : p[1] \in used[b] /\ p[1] \notin Range(todo'[b])
                      /\ \A p, q \in Range(held'[b]) : p[1] = q[1] => p = q
                      /\ pc'[b] \in {"perform", "record"} => held'[b] # <<>>
                      /\ b > attempt => held'[b] = <<>>
    BY <1>2 DEF Batches
  <2>1. CASE b = a
    <3>1. Range(todo'[a]) \subseteq used[a] /\ c \in used[a] /\ IsInjective(todo'[a])
      BY <1>1, <1>5, <1>6 DEF Batches
    <3>2. \A p \in Range(held'[a]) : p \in Range(held[a]) \/ p = <<c, e>>
      BY <1>12
    <3>3. \A p \in Range(held'[a]) : p[1] \in used[a] /\ p[1] \notin Range(todo'[a])
      BY <3>1, <3>2, <1>1, <1>5, <1>6 DEF Batches
    <3>4. \A p, q \in Range(held'[a]) : p[1] = q[1] => p = q
      BY <3>2, <1>1, <1>10 DEF Batches
    <3>5. bound[a] \subseteq used[a] \intersect Unsafe
      BY <1>1 DEF Batches
    <3> QED BY <2>1, <3>1, <3>3, <3>4, <3>5, <1>2, <1>7, <1>9, <1>12
  <2>2. CASE b # a
    <3>1. todo'[b] = todo[b] /\ held'[b] = held[b] /\ pc'[b] = pc[b]
      BY <2>2, <1>6, <1>12
    <3> QED BY <3>1, <1>1 DEF Batches
  <2> QED BY <2>1, <2>2
<1>16. EpochsCount'
  <2>1. ASSUME NEW d \in Call
        PROVE  row'[d].epoch <= attempt /\ (row'[d].status = "none" => row'[d].epoch = 0)
    BY <1>1, <1>9, <1>11 DEF EpochsCount
  <2>2. ASSUME NEW d \in Call, d \in Range(todo'[a]) \/ d \notin used[a]
        PROVE  row'[d].epoch < attempt
    <3>1. d # c
      BY <2>2, <1>1, <1>5, <1>6 DEF Batches
    <3>2. d \in Range(todo[a]) \/ d \notin used[a]
      BY <2>2, <1>5, <1>6
    <3>3. Alive(a)
      BY <1>2 DEF Alive
    <3> QED BY <3>1, <3>2, <3>3, <1>1, <1>2, <1>11 DEF EpochsCount
  <2> QED BY <2>1, <2>2, <1>2 DEF EpochsCount
<1>17. Answers' /\ QuestionsStayOpen'
  BY <1>1, <1>2 DEF Answers, QuestionsStayOpen
<1>18. Allowed'
  <2>1. ASSUME NEW d \in Unsafe
        PROVE  row'[d].epoch <= consents[d]
    <3>1. d \in Call /\ row[d].epoch <= consents[d] /\ consents[d] \in Nat
      BY <1>1 DEF Allowed, Unsafe, LedgerTyped, ProcessesTyped
    <3>2. CASE d # c
      BY <3>1, <3>2, <1>11
    <3>3. CASE d = c /\ row[c].status = "none" /\ c \in consent[a]
      <4>1. consents[c] >= 1 /\ row[c].epoch = 0
        BY <3>3, <1>1, <1>5 DEF Allowed, EpochsCount
      <4> QED BY <4>1, <3>1, <3>3, <1>9, <1>11
    <3>4. CASE d = c /\ c \in bound[a]
      <4>1. row[c].epoch < consents[c]
        BY <3>4, <1>1, <1>2, <1>5 DEF Allowed, Alive
      <4> QED BY <4>1, <3>1, <3>4, <1>9, <1>11
    <3>5. CASE d = c /\ row'[c].epoch = row[c].epoch
      BY <3>1, <3>5
    <3> QED BY <3>2, <3>3, <3>4, <3>5, <1>11
  <2>2. ASSUME NEW d \in bound[a] \intersect Range(todo'[a])
        PROVE  row'[d].epoch < consents[d]
    <3>1. d \in Range(todo[a]) /\ d # c /\ d \in Call
      BY <1>1, <1>5, <1>6 DEF LedgerTyped, ProcessesTyped
    <3>2. row[d].epoch < consents[d]
      BY <3>1, <1>1, <1>2 DEF Allowed, Alive
    <3> QED BY <3>1, <3>2, <1>11
  <2> QED BY <2>1, <2>2, <1>1, <1>2 DEF Allowed
<1>19. Effects'
  <2>1. /\ \A d \in Call : \A n \in 1 .. MaxAttempts : effects[d][n] \in Nat
        /\ \A b \in Attempt, d \in Call : tries[b][d] \in Nat
    BY <1>1 DEF LedgerTyped, ProcessesTyped
  <2>2. ASSUME NEW d \in Call
        PROVE  Counted(d)'
    <3>1. \A n \in 1 .. MaxAttempts :
            effects[d][n] <= MostRuns(d) /\ (effects[d][n] > 0 => n <= row'[d].epoch)
      BY <2>1, <1>1, <1>13 DEF Effects, Counted
    <3>2. row'[d].status = "completed" => row'[d] = row[d]
      BY <1>11
    <3> QED BY <3>1, <3>2, <1>1, <1>2 DEF Effects, Counted, MostRuns
  <2>3. \A b \in Attempt : \A p \in Range(held[b]) : p[1] \in Call /\ p[2] \in 1 .. MaxAttempts
    BY <1>1, HeldPairs
  <2>4. effects[c][e] = 0 /\ out[a][c] = "none" /\ tries[a][c] = 0
    <3>1. ~ effects[c][e] > 0
      BY <1>1, <1>5, <1>9 DEF Effects, Counted
    <3>2. out[a][c] = "none" /\ ~ tries[a][c] > 0
      BY <1>1, <1>5, <1>10 DEF Effects, TriedIfHeld
    <3> QED BY <3>1, <3>2, <2>1, <1>5, <1>9
  <2>5. ASSUME NEW b \in Attempt, NEW p \in Range(held'[b])
        PROVE  Accounted(b, p)'
    <3>1. CASE p \in Range(held[b])
      <4>1. /\ p[1] \in Call /\ p[2] \in 1 .. MaxAttempts /\ p[2] <= row[p[1]].epoch
            /\ Accounted(b, p)
        BY <3>1, <2>3, <1>1 DEF Effects, Accounted
      <4>2. p[2] <= row'[p[1]].epoch
        BY <4>1, <1>13
      <4> QED BY <4>1, <4>2, <1>2 DEF Accounted, MostRuns
    <3>2. CASE p \notin Range(held[b])
      <4>1. b = a /\ p = <<c, e>> /\ row'[c].epoch = e
        BY <3>2, <1>12
      <4>2. 0 < MostRuns(c)
        BY <1>5, ToolLedgerAssumption DEF MostRuns
      <4> QED BY <4>1, <4>2, <2>4, <1>2, <1>9 DEF Accounted, MostRuns
    <3> QED BY <3>1, <3>2
  <2>6. ASSUME NEW b \in Attempt \ {a}
        PROVE  <<c, e>> \notin Range(held[b])
    <3>1. ASSUME <<c, e>> \in Range(held[b]) PROVE e <= row[c].epoch
      BY <3>1, <1>1 DEF Effects, Accounted
    <3> QED BY <3>1, <1>9
  <2>7. ASSUME NEW b \in Attempt, NEW d \in Attempt \ {b}
        PROVE  Range(held'[b]) \intersect Range(held'[d]) = {}
    <3>1. Range(held[b]) \intersect Range(held[d]) = {}
      BY <1>1 DEF Effects
    <3>2. CASE b = a
      BY <3>1, <3>2, <2>6, <1>12
    <3>3. CASE d = a
      BY <3>1, <3>3, <2>6, <1>12
    <3>4. CASE b # a /\ d # a
      BY <3>1, <3>4, <1>12
    <3> QED BY <3>2, <3>3, <3>4
  <2>8. ASSUME NEW b \in Attempt, NEW d \in Call
        PROVE  TriedIfHeld(b, d)'
    <3>1. TriedIfHeld(b, d)
      BY <1>1 DEF Effects
    <3>2. \A p \in Range(held[b]) : p \in Range(held'[b])
      BY <1>12
    <3> QED BY <3>1, <3>2, <1>2 DEF TriedIfHeld
  <2>9. ASSUME NEW b \in Attempt, pc'[b] = "record", NEW p \in Range(held'[b])
        PROVE  out[b][p[1]] # "none"
    <3>1. b # a
      BY <2>9, <1>7
    <3> QED BY <3>1, <2>9, <1>1, <1>6, <1>12 DEF Effects
  <2> QED BY <2>2, <2>5, <2>7, <2>8, <2>9, <1>2 DEF Effects
<1>20. Doubts'
  <2>1. \A d \in Doubtful(a) : row[d].status = "approval_required" /\ d \in bound[a]
    BY <1>1, <1>2 DEF Doubts, Working
  <2>2. Doubtful(a)' \subseteq Doubtful(a)
    <3> SUFFICES ASSUME NEW d \in Doubtful(a)'
                 PROVE  d \in Doubtful(a)
      OBVIOUS
    <3>1. d \in Unsafe /\ d \in Call /\ row'[d].status \in InDoubt /\ row'[d].by # a
      BY DEF Doubtful, Unsafe
    <3>2. row[d].status \in InDoubt /\ row[d].by # a
      BY <3>1, <1>11 DEF InDoubt
    <3> QED BY <3>1, <3>2 DEF Doubtful
  <2>3. \A d \in Doubtful(a)' : row'[d].status = "approval_required"
    <3> SUFFICES ASSUME NEW d \in Doubtful(a)'
                 PROVE  row'[d].status = "approval_required"
      OBVIOUS
    <3>1. d \in Call /\ row'[d].by # a /\ row[d].status = "approval_required"
      BY <2>1, <2>2 DEF Doubtful, Unsafe
    <3> QED BY <3>1, <1>11
  <2>4. Authority(a)'
    BY <1>2 DEF Authority
  <2> QED BY <2>1, <2>2, <2>3, <2>4, <1>2, <1>7, DoubtsOfTheNewest
<1> QED BY <1>14, <1>15, <1>16, <1>17, <1>18, <1>19, <1>20 DEF LedgerInvariant

-----------------------------------------------------------------------------
(* Running the tools of a batch, and recording what came of it.            *)

LEMMA PerformKeeps ==
  ASSUME LedgerInvariant, NEW a \in Attempt, Perform(a)
  PROVE  LedgerInvariant'
<1>1. /\ LedgerTyped /\ Batches /\ EpochsCount /\ Answers /\ Allowed /\ Effects /\ Doubts
      /\ QuestionsStayOpen
  BY DEF LedgerInvariant
<1>2. /\ pc[a] = "perform"
      /\ UNCHANGED <<run, attempt, lease, retried, resumed, pause, row>>
      /\ UNCHANGED <<used, consent, bound, refused, todo, held, consents>>
      /\ \E where \in {"record", "perform"} :
           /\ pc' = [pc EXCEPT ![a] = where]
           /\ where = "record" => \A j \in DOMAIN held[a] : out'[a][held[a][j][1]] # "none"
  BY DEF Perform, Goto, tables
<1>3. PICK where \in {"record", "perform"} :
        /\ pc' = [pc EXCEPT ![a] = where]
        /\ where = "record" => \A j \in DOMAIN held[a] : out'[a][held[a][j][1]] # "none"
  BY <1>2
<1>4. pc'[a] = where /\ \A b \in Attempt \ {a} : pc'[b] = pc[b]
  BY <1>1, <1>3 DEF LedgerTyped, ProcessesTyped
<1>5. PICK i \in DOMAIN held[a] :
        /\ out[a][held[a][i][1]] = "none"
        /\ \E o \in {"ok", "error", "none"}, took \in BOOLEAN :
             /\ o = "ok" => took \/ held[a][i][1] \in Cached
             /\ o = "none" => ShouldRetry(held[a][i][1], tries[a][held[a][i][1]] + 1)
             /\ out' = [out EXCEPT ![a][held[a][i][1]] = o]
             /\ tries' = [tries EXCEPT ![a][held[a][i][1]] = IF o = "none" THEN @ + 1 ELSE 0]
             /\ effects' = IF took THEN [effects EXCEPT ![held[a][i][1]][held[a][i][2]] = @ + 1]
                           ELSE effects
  BY DEF Perform
<1> DEFINE h == held[a][i]
           c == h[1]
           e == h[2]
           acted == effects[c][e]
           tried == tries[a][c]
<1>6. PICK o \in {"ok", "error", "none"}, took \in BOOLEAN :
        /\ o = "ok" => took \/ c \in Cached
        /\ o = "none" => ShouldRetry(c, tried + 1)
        /\ out' = [out EXCEPT ![a][c] = o]
        /\ tries' = [tries EXCEPT ![a][c] = IF o = "none" THEN @ + 1 ELSE 0]
        /\ effects' = IF took THEN [effects EXCEPT ![c][e] = @ + 1] ELSE effects
  BY <1>5
<1>7. h \in Range(held[a])
  BY DEF Range
<1>8. c \in Call /\ e \in 1 .. MaxAttempts /\ h = <<c, e>>
  BY <1>1, <1>7, HeldPairs
<1>9. /\ out[a][c] = "none" /\ acted \in Nat /\ tried \in Nat /\ MostRuns(c) \in Nat
      /\ acted <= tried /\ tried < MostRuns(c) /\ e <= row[c].epoch
      /\ o = "none" => tried + 1 < MostRuns(c)
  <2>1. Accounted(a, h)
    BY <1>1, <1>7 DEF Effects
  <2>2. acted \in Nat /\ tried \in Nat
    BY <1>1, <1>8 DEF LedgerTyped, ProcessesTyped
  <2>3. MostRuns(c) \in Nat /\ (ShouldRetry(c, tried + 1) => tried + 1 < MostRuns(c))
    BY <1>8, ToolLedgerAssumption DEF MostRuns, ShouldRetry
  <2> QED BY <2>1, <2>2, <2>3, <1>5, <1>6 DEF Accounted
<1> HIDE DEF h, c, e
<1>10. /\ effects' \in [Call -> [1 .. MaxAttempts -> Nat]]
       /\ effects'[c][e] = IF took THEN acted + 1 ELSE acted
       /\ \A d \in Call, n \in 1 .. MaxAttempts :
            <<d, n>> # <<c, e>> => effects'[d][n] = effects[d][n]
  <2>1. effects \in [Call -> [1 .. MaxAttempts -> Nat]]
    BY <1>1 DEF LedgerTyped, ProcessesTyped
  <2>2. CASE took
    <3>1. effects' = [effects EXCEPT ![c] = [effects[c] EXCEPT ![e] = acted + 1]]
      BY <2>1, <2>2, <1>6, <1>8, <1>9
    <3>2. [effects[c] EXCEPT ![e] = acted + 1] \in [1 .. MaxAttempts -> Nat]
      BY <2>1, <1>8, <1>9
    <3> HIDE DEF acted
    <3> QED BY <2>1, <2>2, <3>1, <3>2, <1>8
  <2>3. CASE ~took
    BY <2>1, <2>3, <1>6, <1>9
  <2> QED BY <2>2, <2>3
<1>11. /\ out' \in [Attempt -> [Call -> {"none", "ok", "error"}]]
       /\ out'[a][c] = o
       /\ \A d \in Call \ {c} : out'[a][d] = out[a][d]
       /\ \A b \in Attempt \ {a} : out'[b] = out[b]
  BY <1>1, <1>6, <1>8 DEF LedgerTyped, ProcessesTyped
<1>12. /\ tries' \in [Attempt -> [Call -> Nat]]
       /\ tries'[a][c] = IF o = "none" THEN tried + 1 ELSE 0
       /\ \A d \in Call \ {c} : tries'[a][d] = tries[a][d]
       /\ \A b \in Attempt \ {a} : tries'[b] = tries[b]
  <2>1. tries \in [Attempt -> [Call -> Nat]]
    BY <1>1 DEF LedgerTyped, ProcessesTyped
  <2> DEFINE t == IF o = "none" THEN tried + 1 ELSE 0
  <2>2. t \in Nat /\ tries' = [tries EXCEPT ![a][c] = t]
    BY <2>1, <1>6, <1>8, <1>9
  <2>3. [tries[a] EXCEPT ![c] = t] \in [Call -> Nat]
    BY <2>1, <2>2
  <2>4. tries' = [tries EXCEPT ![a] = [tries[a] EXCEPT ![c] = t]]
    BY <2>2
  <2>5. t = IF o = "none" THEN tried + 1 ELSE 0
    OBVIOUS
  <2> HIDE DEF t, tried
  <2> QED BY <2>1, <2>3, <2>4, <2>5, <1>8
<1> HIDE DEF acted, tried
<1>13. LedgerTyped'
  <2>1. pc' \in [Attempt -> {"none", "recover", "over"} \union Deciding \union Working]
    BY <1>1, <1>3 DEF LedgerTyped, ProcessesTyped, Working
  <2> QED BY <2>1, <1>1, <1>2, <1>10, <1>11, <1>12 DEF LedgerTyped, TablesTyped, ProcessesTyped
<1>14. Batches'
  <2>1. held[a] # <<>>
    BY <1>1, <1>2 DEF Batches
  <2>2. \A b \in Attempt : pc'[b] \in {"perform", "record"} => held[b] # <<>>
    BY <2>1, <1>1, <1>4 DEF Batches
  <2> QED BY <2>2, <1>1, <1>2 DEF Batches
<1>15. \A b \in Attempt : Alive(b)' => Alive(b)
  BY <1>2, <1>4 DEF Alive
<1>16. EpochsCount' /\ Answers' /\ Allowed' /\ QuestionsStayOpen'
  BY <1>1, <1>2, <1>15 DEF EpochsCount, Answers, Allowed, QuestionsStayOpen
<1>17. Effects'
  <2>1. ASSUME NEW d \in Call, NEW n \in 1 .. MaxAttempts
        PROVE  effects'[d][n] <= MostRuns(d) /\ (effects'[d][n] > 0 => n <= row[d].epoch)
    <3>1. CASE <<d, n>> = <<c, e>>
      BY <3>1, <1>9, <1>10
    <3>2. CASE <<d, n>> # <<c, e>>
      BY <3>2, <1>1, <1>10 DEF Effects, Counted
    <3> QED BY <3>1, <3>2
  <2>2. ASSUME NEW d \in Call, row[d].status = "completed"
        PROVE  row[d].epoch >= 1 /\ (d \in Cached \/ effects'[d][row[d].epoch] > 0)
    <3>1. row[d].epoch >= 1 /\ (d \in Cached \/ effects[d][row[d].epoch] > 0)
      BY <2>2, <1>1 DEF Effects, Counted
    <3>2. row[d].epoch \in 1 .. MaxAttempts
      BY <3>1, <1>1 DEF LedgerTyped, TablesTyped, Row
    <3>3. CASE <<d, row[d].epoch>> = <<c, e>>
      <4>1. effects[d][row[d].epoch] = acted
        BY <3>3 DEF acted
      <4> QED BY <4>1, <3>1, <3>3, <1>9, <1>10
    <3>4. CASE <<d, row[d].epoch>> # <<c, e>>
      BY <3>1, <3>2, <3>4, <1>10
    <3> QED BY <3>3, <3>4
  <2>3. ASSUME NEW b \in Attempt, NEW p \in Range(held[b])
        PROVE  Accounted(b, p)'
    <3>1. p[1] \in Call /\ p[2] \in 1 .. MaxAttempts /\ p = <<p[1], p[2]>>
      BY <1>1, HeldPairs
    <3>2. Accounted(b, p)
      BY <1>1 DEF Effects
    <3>3. CASE p = h
      <4>1. b = a /\ p[1] = c /\ p[2] = e
        <5>1. b = a
          BY <3>3, <1>1, <1>7 DEF Effects
        <5> QED BY <5>1, <3>3 DEF c, e
      <4>2. /\ out'[b][p[1]] = o /\ tries'[b][p[1]] = (IF o = "none" THEN tried + 1 ELSE 0)
            /\ effects'[p[1]][p[2]] = (IF took THEN acted + 1 ELSE acted)
            /\ row'[p[1]] = row[p[1]]
        BY <4>1, <1>2, <1>10, <1>11, <1>12
      <4>3. p[2] <= row'[p[1]].epoch /\ tries'[b][p[1]] < MostRuns(p[1])
        BY <4>1, <4>2, <1>9
      <4>4. out'[b][p[1]] = "none" => effects'[p[1]][p[2]] <= tries'[b][p[1]]
        BY <4>2, <1>9
      <4>5. out'[b][p[1]] = "ok" => p[1] \in Cached \/ effects'[p[1]][p[2]] > 0
        BY <4>1, <4>2, <1>6, <1>9
      <4> QED BY <4>3, <4>4, <4>5 DEF Accounted, MostRuns
    <3>4. CASE p # h
      <4>1. effects'[p[1]][p[2]] = effects[p[1]][p[2]]
        BY <3>1, <3>4, <1>8, <1>10
      <4>2. out'[b][p[1]] = out[b][p[1]] /\ tries'[b][p[1]] = tries[b][p[1]]
        <5>1. CASE b = a
          <6>1. p[1] # c
            BY <3>4, <5>1, <1>1, <1>7 DEF Batches, c
          <6> QED BY <5>1, <6>1, <3>1, <1>11, <1>12
        <5>2. CASE b # a
          BY <5>2, <1>11, <1>12
        <5> QED BY <5>1, <5>2
      <4> QED BY <4>1, <4>2, <3>2, <1>2 DEF Accounted, MostRuns
    <3> QED BY <3>3, <3>4
  <2>4. ASSUME NEW b \in Attempt, NEW d \in Attempt \ {b}
        PROVE  Range(held'[b]) \intersect Range(held'[d]) = {}
    BY <1>1, <1>2 DEF Effects
  <2>5. ASSUME NEW b \in Attempt, NEW d \in Call
        PROVE  TriedIfHeld(b, d)'
    <3>1. CASE b = a /\ d = c
      <4>1. /\ h \in Range(held'[b]) /\ h[1] = d
            /\ out'[b][d] = o /\ tries'[b][d] = (IF o = "none" THEN tried + 1 ELSE 0)
        BY <3>1, <1>2, <1>7, <1>11, <1>12 DEF c
      <4> QED BY <4>1 DEF TriedIfHeld
    <3>2. CASE ~(b = a /\ d = c)
      <4>1. out'[b][d] = out[b][d] /\ tries'[b][d] = tries[b][d]
        BY <3>2, <1>11, <1>12
      <4> QED BY <4>1, <1>1, <1>2 DEF Effects, TriedIfHeld
    <3> QED BY <3>1, <3>2
  <2>6. \A d \in Call : Counted(d)'
    BY <2>1, <2>2, <1>2 DEF Counted, MostRuns
  <2>7. \A b \in Attempt : \A p \in Range(held'[b]) : Accounted(b, p)'
    BY <2>3, <1>2
  <2>8. ASSUME NEW b \in Attempt, pc'[b] = "record", NEW p \in Range(held'[b])
        PROVE  out'[b][p[1]] # "none"
    <3>1. CASE b = a
      BY <3>1, <2>8, <1>2, <1>3, <1>4 DEF Range
    <3>2. CASE b # a
      BY <3>2, <2>8, <1>1, <1>2, <1>4, <1>11 DEF Effects
    <3> QED BY <3>1, <3>2
  <2> QED BY <2>4, <2>5, <2>6, <2>7, <2>8 DEF Effects
<1>18. Doubts'
  <2> SUFFICES ASSUME NEW b \in Attempt, Authority(b)'
               PROVE  /\ pc'[b] \in Deciding \union Working =>
                           \A d \in Doubtful(b)' : row'[d].status = "approval_required"
                      /\ pc'[b] = "refuse" => Doubtful(b)' \subseteq bound'[b] \union refused'[b]
                      /\ pc'[b] \in Working => Doubtful(b)' \subseteq bound'[b]
    BY DEF Doubts
  <2>1. Authority(b) /\ Doubtful(b)' = Doubtful(b)
    BY <1>2 DEF Authority, Doubtful
  <2>2. CASE b = a
    BY <2>1, <2>2, <1>1, <1>2, <1>4 DEF Doubts, Working
  <2>3. CASE b # a
    BY <2>1, <2>3, <1>1, <1>2, <1>4 DEF Doubts
  <2> QED BY <2>2, <2>3
<1> QED BY <1>13, <1>14, <1>16, <1>17, <1>18 DEF LedgerInvariant

LEMMA RecordKeeps ==
  ASSUME LedgerInvariant, NEW a \in Attempt, Record(a)
  PROVE  LedgerInvariant'
<1>1. /\ LedgerTyped /\ Batches /\ EpochsCount /\ Answers /\ Allowed /\ Effects /\ Doubts
  BY DEF LedgerInvariant
<1> DEFINE h == Head(held[a])
           c == h[1]
           e == h[2]
<1>2. /\ pc[a] = "record" /\ Authority(a)
      /\ row[c].status = "started" /\ row[c].epoch = e /\ row[c].by = a
      /\ row' = [row EXCEPT ![c].status = IF out[a][c] = "ok" THEN "completed" ELSE "failed"]
      /\ out' = [out EXCEPT ![a][c] = "none"]
      /\ held' = [held EXCEPT ![a] = Tail(@)]
      /\ pc' = [pc EXCEPT ![a] = IF Len(held[a]) = 1 THEN "think" ELSE "record"]
      /\ UNCHANGED <<run, attempt, lease, retried, resumed, pause>>
      /\ UNCHANGED <<used, consent, bound, refused, todo, tries, consents, effects>>
  BY DEF Record, Recordable, Goto, history
<1>3. run = "running" /\ a = attempt
  BY <1>2 DEF Authority
<1>4. /\ held[a] \in Seq(Call \X (1 .. MaxAttempts)) /\ held[a] # <<>> /\ IsInjective(held[a])
  BY <1>1, <1>2 DEF Batches, LedgerTyped, ProcessesTyped
<1>5. /\ Len(held[a]) \in Nat \ {0} /\ h \in Range(held[a])
      /\ Tail(held[a]) \in Seq(Call \X (1 .. MaxAttempts)) /\ IsInjective(Tail(held[a]))
      /\ \A p : p \in Range(Tail(held[a])) <=> p \in Range(held[a]) /\ p # h
      /\ Tail(held[a]) = <<>> <=> Len(held[a]) = 1
  <2> DEFINE S == Call \X (1 .. MaxAttempts)
             s == held[a]
  <2>1. s \in Seq(S) /\ s # <<>> /\ IsInjective(s)
    BY <1>4
  <2> HIDE DEF S, s
  <2>2. /\ Len(s) \in Nat \ {0} /\ Head(s) \in Range(s)
        /\ Tail(s) \in Seq(S) /\ IsInjective(Tail(s))
        /\ \A p : p \in Range(Tail(s)) <=> p \in Range(s) /\ p # Head(s)
        /\ Tail(s) = <<>> <=> Len(s) = 1
    BY <2>1, TailOfBatch
  <2> QED BY <2>2 DEF S, s
<1>6. c \in Call /\ e \in 1 .. MaxAttempts /\ h = <<c, e>>
  BY <1>1, <1>5, HeldPairs
<1>7. /\ out[a][c] = "ok" => c \in Cached \/ effects[c][e] > 0
      /\ \A p \in Range(held[a]) : p # h => p[1] # c
  BY <1>1, <1>5 DEF Effects, Accounted, Batches
<1> HIDE DEF h, c, e
<1>8. /\ row' \in [Call -> Row]
      /\ \A d \in Call \ {c} : row'[d] = row[d]
      /\ row'[c].status = (IF out[a][c] = "ok" THEN "completed" ELSE "failed")
      /\ \A d \in Call : row'[d].epoch = row[d].epoch /\ row'[d].by = row[d].by
  BY <1>1, <1>2, <1>6 DEF LedgerTyped, TablesTyped, Row
<1>9. /\ out' \in [Attempt -> [Call -> {"none", "ok", "error"}]]
      /\ out'[a][c] = "none"
      /\ \A d \in Call \ {c} : out'[a][d] = out[a][d]
      /\ \A b \in Attempt \ {a} : out'[b] = out[b]
  BY <1>1, <1>2, <1>6 DEF LedgerTyped, ProcessesTyped
<1>10. /\ held' \in [Attempt -> Seq(Call \X (1 .. MaxAttempts))]
       /\ held'[a] = Tail(held[a])
       /\ \A b \in Attempt \ {a} : held'[b] = held[b]
  BY <1>1, <1>2, <1>5 DEF LedgerTyped, ProcessesTyped
<1>11. /\ pc' \in [Attempt -> {"none", "recover", "over"} \union Deciding \union Working]
       /\ pc'[a] = (IF Len(held[a]) = 1 THEN "think" ELSE "record")
       /\ \A b \in Attempt \ {a} : pc'[b] = pc[b]
  BY <1>1, <1>2 DEF LedgerTyped, ProcessesTyped, Working
<1>12. LedgerTyped'
  BY <1>1, <1>2, <1>8, <1>9, <1>10, <1>11 DEF LedgerTyped, TablesTyped, ProcessesTyped
<1>13. Batches'
  <2> SUFFICES ASSUME NEW b \in Attempt
               PROVE  /\ IsInjective(todo[b]) /\ Range(todo[b]) \subseteq used[b]
                      /\ bound[b] \subseteq used[b] \intersect Unsafe
                      /\ IsInjective(held'[b])
                      /\ \A p \in Range(held'[b]) : p[1] \in used[b] /\ p[1] \notin Range(todo[b])
                      /\ \A p, q \in Range(held'[b]) : p[1] = q[1] => p = q
                      /\ pc'[b] \in {"perform", "record"} => held'[b] # <<>>
                      /\ b > attempt => held'[b] = <<>>
    BY <1>2 DEF Batches
  <2>1. CASE b = a
    <3>1. \A p \in Range(held'[a]) : p \in Range(held[a])
      BY <1>5, <1>10
    <3>2. ~(a > attempt)
      BY <1>1, <1>3 DEF LedgerTyped, TablesTyped
    <3>3. pc'[a] \in {"perform", "record"} => held'[a] # <<>>
      BY <1>5, <1>10, <1>11
    <3> QED BY <2>1, <3>1, <3>2, <3>3, <1>1, <1>5, <1>10 DEF Batches
  <2>2. CASE b # a
    BY <2>2, <1>1, <1>10, <1>11 DEF Batches
  <2> QED BY <2>1, <2>2
<1>14. \A b \in Attempt : Alive(b)' => Alive(b)
  BY <1>2, <1>11 DEF Alive
<1>15. \A d \in Call : row'[d].status = "none" => row[d].status = "none"
  BY <1>8
<1>16. EpochsCount'
  BY <1>1, <1>2, <1>8, <1>14, <1>15 DEF EpochsCount
<1>17. Answers' /\ QuestionsStayOpen'
  BY <1>1, <1>2, <1>3 DEF Answers, QuestionsStayOpen
<1>18. Allowed'
  <2>1. \A b \in Attempt : bound[b] \subseteq Call
    BY <1>1 DEF LedgerTyped, ProcessesTyped
  <2> QED BY <2>1, <1>1, <1>2, <1>8, <1>14 DEF Allowed, Unsafe
<1>19. Effects'
  <2>1. ASSUME NEW d \in Call
        PROVE  Counted(d)'
    <3>1. Counted(d)
      BY <1>1 DEF Effects
    <3>2. CASE d = c
      BY <3>1, <3>2, <1>2, <1>6, <1>7, <1>8 DEF Counted, MostRuns
    <3>3. CASE d # c
      BY <3>1, <3>3, <1>2, <1>8 DEF Counted, MostRuns
    <3> QED BY <3>2, <3>3
  <2>2. ASSUME NEW b \in Attempt, NEW p \in Range(held'[b])
        PROVE  Accounted(b, p)'
    <3>1. p \in Range(held[b])
      BY <1>5, <1>10
    <3>2. p[1] \in Call /\ Accounted(b, p)
      BY <3>1, <1>1, HeldPairs DEF Effects
    <3>3. out'[b][p[1]] = out[b][p[1]]
      <4>1. CASE b = a
        <5>1. p # h
          BY <4>1, <1>5, <1>10
        <5> QED BY <4>1, <5>1, <3>1, <3>2, <1>7, <1>9
      <4>2. CASE b # a
        BY <4>2, <1>9
      <4> QED BY <4>1, <4>2
    <3> QED BY <3>2, <3>3, <1>2, <1>8 DEF Accounted, MostRuns
  <2>3. \A b \in Attempt : Range(held'[b]) \subseteq Range(held[b])
    BY <1>5, <1>10
  <2>4. ASSUME NEW b \in Attempt, NEW d \in Attempt \ {b}
        PROVE  Range(held'[b]) \intersect Range(held'[d]) = {}
    BY <2>3, <1>1 DEF Effects
  <2>5. tries[a][c] = 0
    BY <1>1, <1>2, <1>5, <1>6 DEF Effects, TriedIfHeld, c
  <2>6. ASSUME NEW b \in Attempt, NEW d \in Call
        PROVE  TriedIfHeld(b, d)'
    <3>1. CASE b = a /\ d = c
      BY <3>1, <2>5, <1>2, <1>9 DEF TriedIfHeld
    <3>2. CASE ~(b = a /\ d = c)
      <4>1. out'[b][d] = out[b][d] /\ TriedIfHeld(b, d)
        BY <3>2, <1>1, <1>9 DEF Effects
      <4>2. \A p \in Range(held[b]) : p[1] = d => p \in Range(held'[b])
        <5>1. CASE b = a
          BY <5>1, <3>2, <1>5, <1>6, <1>10
        <5>2. CASE b # a
          BY <5>2, <1>10
        <5> QED BY <5>1, <5>2
      <4> QED BY <4>1, <4>2, <1>2 DEF TriedIfHeld
    <3> QED BY <3>1, <3>2
  <2>7. ASSUME NEW b \in Attempt, pc'[b] = "record", NEW p \in Range(held'[b])
        PROVE  out'[b][p[1]] # "none"
    <3>1. pc[b] = "record" /\ p \in Range(held[b])
      BY <2>7, <1>2, <1>5, <1>10, <1>11
    <3>2. out[b][p[1]] # "none" /\ p[1] \in Call
      BY <3>1, <1>1, HeldPairs DEF Effects
    <3>3. ~(b = a /\ p[1] = c)
      BY <1>5, <1>7, <1>10
    <3> QED BY <3>2, <3>3, <1>9
  <2> QED BY <2>1, <2>2, <2>4, <2>6, <2>7, <1>2 DEF Effects
<1>20. Doubts'
  <2>1. \A d \in Doubtful(a) : row[d].status = "approval_required" /\ d \in bound[a]
    BY <1>1, <1>2 DEF Doubts, Working
  <2>2. \A d \in Doubtful(a)' : d \in Doubtful(a) /\ row'[d] = row[d]
    <3> SUFFICES ASSUME NEW d \in Doubtful(a)'
                 PROVE  d \in Doubtful(a) /\ row'[d] = row[d]
      OBVIOUS
    <3>1. d \in Unsafe /\ d \in Call /\ row'[d].status \in InDoubt /\ row'[d].by # a
      BY DEF Doubtful, Unsafe
    <3>2. d # c
      BY <3>1, <1>2, <1>8
    <3> QED BY <3>1, <3>2, <1>8 DEF Doubtful
  <2>3. Authority(a)'
    BY <1>2 DEF Authority
  <2>4. pc'[a] \in {"think", "record"}
    BY <1>11
  <2> QED BY <2>1, <2>2, <2>3, <2>4, <1>2, DoubtsOfTheNewest
<1> QED BY <1>12, <1>13, <1>16, <1>17, <1>18, <1>19, <1>20 DEF LedgerInvariant

-----------------------------------------------------------------------------
(* Every step, and the theorems.                                           *)

LEMMA WaitEnds ==
  ASSUME NEW a, NEW p, Wait(a, p), FitQuestion(p)
  PROVE  Ends(a)
<1>1. CASE Authority(a)
  BY <1>1 DEF Wait, Ends, FitQuestion
<1>2. CASE ~Authority(a)
  BY <1>2 DEF Wait, Ends
<1> QED BY <1>1, <1>2

LEMMA CloseEnds ==
  ASSUME NEW a, Close(a)
  PROVE  Ends(a)
<1>1. CASE Authority(a)
  BY <1>1 DEF Close, Ends
<1>2. CASE ~Authority(a)
  BY <1>2 DEF Close, Ends
<1> QED BY <1>1, <1>2

\* A pause about calls in doubt names them all.  Without authority it is not
\* recorded, so nothing need be known of the rows.
LEMMA AskEnds ==
  ASSUME LedgerInvariant, NEW a \in Attempt, AskAboutDoubt(a)
  PROVE  Ends(a)
<1>1. LedgerTyped /\ Doubts
  BY DEF LedgerInvariant
<1>2. pc[a] = "ask"
  BY DEF AskAboutDoubt
<1>3. PICK order \in SetToSeqs(Doubtful(a)) :
        Wait(a, [kind |-> "doubt", calls |-> order, asked |-> Doubtful(a), yes |-> {},
                 blanket |-> FALSE, used |-> {}])
  BY DEF AskAboutDoubt
<1> DEFINE p == [kind |-> "doubt", calls |-> order, asked |-> Doubtful(a), yes |-> {},
                 blanket |-> FALSE, used |-> {}]
<1>4. Doubtful(a) \subseteq Call /\ Doubtful(a) \subseteq Unsafe /\ IsFiniteSet(Doubtful(a))
  <2>1. Doubtful(a) \subseteq Call /\ Doubtful(a) \subseteq Unsafe
    BY DEF Doubtful, Unsafe
  <2> QED BY <2>1, FS_Subset, ToolLedgerAssumption
<1>5. order \in Seq(Doubtful(a)) /\ IsInjective(order) /\ Range(order) = Doubtful(a)
  BY <1>3, <1>4, OrdersOfASet
<1>6. order \in Seq(Call)
  BY <1>4, <1>5, SeqMonotonic
<1>7. CASE Authority(a)
  <2>1. \A c \in Doubtful(a) : row[c].status = "approval_required"
    BY <1>1, <1>2, <1>7 DEF Doubts, Deciding
  <2>2. p \in Question
    BY <1>4, <1>6 DEF Question
  <2>3. FitQuestion(p)
    BY <2>1, <2>2, <1>4, <1>5 DEF FitQuestion
  <2> HIDE DEF p
  <2>4. Wait(a, p)
    BY <1>3 DEF p
  <2> QED BY <2>3, <2>4, WaitEnds
<1>8. CASE ~Authority(a)
  BY <1>3, <1>8 DEF Wait, Ends
<1> QED BY <1>7, <1>8

LEMMA ThinkKeeps ==
  ASSUME LedgerInvariant, NEW a \in Attempt, Think(a)
  PROVE  LedgerInvariant'
<1>1. LedgerTyped /\ Allowed
  BY DEF LedgerInvariant
<1>2. pc[a] = "think"
  BY DEF Think
<1> DEFINE risky(calls) == {c \in Range(calls) : c \in Unsafe /\ c \notin consent[a]}
           p(calls) == [kind |-> "consent", calls |-> calls, asked |-> risky(calls), yes |-> {},
                        blanket |-> FALSE, used |-> used[a]]
<1>3. PICK calls \in Batch :
        /\ Range(calls) \intersect used[a] = {}
        /\ IF risky(calls) # {}
           THEN Wait(a, p(calls))
           ELSE /\ Goto(a, "reserve")
                /\ used' = [used EXCEPT ![a] = @ \union Range(calls)]
                /\ todo' = [todo EXCEPT ![a] = calls]
                /\ UNCHANGED <<tables, consent, bound, refused, held, out, tries, history>>
  BY DEF Think
<1>4. calls \in Seq(Call) /\ IsInjective(calls) /\ Range(calls) \subseteq Call
  BY ToolLedgerAssumption, RangeOfSequence
<1>5. CASE risky(calls) # {}
  <2>1. p(calls) \in Question
    <3>1. used[a] \in SUBSET Call /\ risky(calls) \in SUBSET Call
      BY <1>1, <1>4 DEF LedgerTyped, ProcessesTyped
    <3> HIDE DEF risky
    <3> QED BY <3>1, <1>4 DEF Question
  <2>2. \A c \in (Range(calls) \intersect Unsafe) \ risky(calls) : consents[c] >= 1
    BY <1>1 DEF Allowed
  <2>3. FitQuestion(p(calls))
    <3>1. risky(calls) \subseteq Range(calls) \intersect Unsafe
      OBVIOUS
    <3> HIDE DEF risky
    <3> QED BY <2>1, <2>2, <3>1, <1>4 DEF FitQuestion
  <2>4. Wait(a, p(calls))
    BY <1>3, <1>5
  <2> HIDE DEF p
  <2> QED BY <2>3, <2>4, WaitEnds, EndKeeps
<1>6. CASE risky(calls) = {}
  <2> HIDE DEF risky
  <2>1. /\ Range(calls) \intersect used[a] = {}
        /\ Goto(a, "reserve")
        /\ used' = [used EXCEPT ![a] = @ \union Range(calls)]
        /\ todo' = [todo EXCEPT ![a] = calls]
        /\ UNCHANGED <<tables, consent, bound, refused, held, out, tries, history>>
    BY <1>3, <1>6
  <2> QED BY <2>1, <1>2, BatchKeeps
<1> QED BY <1>5, <1>6

LEMMA LedgerInit == Init => LedgerInvariant
<1> SUFFICES ASSUME Init PROVE LedgerInvariant
  OBVIOUS
<1>1. MaxAttempts \in Nat
  BY ToolLedgerAssumption
<1>2. /\ NoPause \in Question /\ NoRow \in Row /\ \A c \in Call : row[c] = NoRow
      /\ \A a \in Attempt : held[a] = <<>> /\ todo[a] = <<>> /\ bound[a] = {} /\ pc[a] = "none"
      /\ pause = NoPause /\ run = "queued" /\ attempt = 0
  BY <1>1 DEF Init, NoPause, NoRow, Question, Row
<1>3. LedgerTyped
  <2>1. TablesTyped
    <3>1. row \in [Call -> Row]
      BY <1>2 DEF Init
    <3>2. attempt \in 0 .. MaxAttempts
      BY <1>1, <1>2
    <3> QED BY <3>1, <3>2, <1>2 DEF Init, TablesTyped
  <2>2. ProcessesTyped
    BY DEF Init, ProcessesTyped
  <2> QED BY <2>1, <2>2 DEF LedgerTyped
<1>4. Batches
  BY <1>2, EmptyBatch DEF Batches
<1>5. EpochsCount
  BY <1>2 DEF EpochsCount, NoRow, Alive
<1>6. Answers
  BY <1>2, EmptyBatch DEF Answers, NoPause
<1>7. Allowed
  <2>1. \A c \in Unsafe : row[c].epoch <= consents[c]
    BY <1>2 DEF Init, Unsafe, NoRow
  <2>2. \A a \in Attempt : consent[a] = {}
    BY DEF Init
  <2> QED BY <2>1, <2>2, <1>2 DEF Allowed
<1>8. Effects
  <2>1. \A c \in Call : \A e \in 1 .. MaxAttempts : effects[c][e] = 0
    BY DEF Init
  <2>2. \A a \in Attempt : /\ Range(held[a]) = {}
                           /\ \A c \in Call : out[a][c] = "none" /\ tries[a][c] = 0
    BY <1>2, EmptyBatch DEF Init
  <2>3. \A c \in Call : row[c].status = "none"
    BY <1>2 DEF NoRow
  <2>4. \A c \in Call : MostRuns(c) \in Nat
    BY ToolLedgerAssumption DEF MostRuns
  <2> QED BY <2>1, <2>2, <2>3, <2>4 DEF Effects, Counted, TriedIfHeld
<1>9. Doubts /\ QuestionsStayOpen
  BY <1>2 DEF Doubts, QuestionsStayOpen, Authority, NoPause
<1> QED BY <1>3, <1>4, <1>5, <1>6, <1>7, <1>8, <1>9 DEF LedgerInvariant

LEMMA LedgerStep == LedgerInvariant /\ [Next]_vars => LedgerInvariant'
<1> SUFFICES ASSUME LedgerInvariant, [Next]_vars
             PROVE  LedgerInvariant'
  OBVIOUS
<1>1. LedgerTyped
  BY DEF LedgerInvariant
<1>2. retried \in BOOLEAN /\ lease \in BOOLEAN
  BY <1>1 DEF LedgerTyped, TablesTyped
<1>3. CASE LeaseLapses
  BY <1>2, <1>3, AuthorityLost DEF LeaseLapses
<1>4. CASE Recover
  BY <1>2, <1>4, AuthorityLost DEF Recover
<1>5. CASE Cancel
  BY <1>2, <1>5, AuthorityLost DEF Cancel
<1>6. CASE Answer
  BY <1>6, AnswerKeeps
<1>7. ASSUME NEW c \in Call, ReservationLapses(c)
      PROVE  LedgerInvariant'
  BY <1>7, ReservationLapsesKeeps
<1>8. ASSUME NEW a \in Attempt, Claim(a)
      PROVE  LedgerInvariant'
  BY <1>8, ClaimKeeps
<1>9. ASSUME NEW a \in Attempt, Crash(a)
      PROVE  LedgerInvariant'
  <2>1. Ends(a)
    BY <1>9 DEF Crash, Ends, tables
  <2> QED BY <2>1, EndKeeps
<1>10. ASSUME NEW a \in Attempt, Execution(a)
       PROVE  LedgerInvariant'
  <2>1. CASE FindRecoveries(a)
    BY <2>1, FindRecoveriesKeeps
  <2>2. CASE AskAboutDoubt(a)
    BY <2>2, AskEnds, EndKeeps
  <2>3. CASE Refuse(a)
    BY <2>3, RefuseKeeps
  <2>4. CASE StopEarly(a)
    BY <2>4, CloseEnds, EndKeeps DEF StopEarly
  <2>5. CASE Think(a)
    BY <2>5, ThinkKeeps
  <2>6. CASE Finish(a)
    BY <2>6, CloseEnds, EndKeeps DEF Finish
  <2>7. CASE Reserve(a)
    BY <2>7, ReserveKeeps
  <2>8. CASE ReserveRejected(a)
    BY <2>8, CloseEnds, EndKeeps DEF ReserveRejected
  <2>9. CASE Perform(a)
    BY <2>9, PerformKeeps
  <2>10. CASE Record(a)
    BY <2>10, RecordKeeps
  <2>11. CASE RecordRejected(a)
    BY <2>11, CloseEnds, EndKeeps DEF RecordRejected
  <2> QED BY <1>10, <2>1, <2>2, <2>3, <2>4, <2>5, <2>6, <2>7, <2>8, <2>9, <2>10, <2>11 DEF Execution
<1>11. CASE UNCHANGED vars
  <2>1. UNCHANGED <<attempt, resumed, pause, row, process, history>> /\ retried' = retried
        /\ lease' = lease /\ run' = run
    BY <1>11 DEF vars, tables
  <2> QED BY <2>1, <1>2, AuthorityLost
<1> QED BY <1>3, <1>4, <1>5, <1>6, <1>7, <1>8, <1>9, <1>10, <1>11 DEF Next

\* The invariant holds in every reachable state.
THEOREM LedgerIsConsistent == Spec => []LedgerInvariant
  BY LedgerInit, LedgerStep, PTL DEF Spec

\* A call outside the safe catalog acts under no more reservations than the user
\* gave consents to it: reserve_tool_execution counts an epoch for each, and a
\* consent is never used up twice.  A call of a tool that changes something acts
\* once for each; one that only reads may be run again by _attempt_task.
THEOREM ConsentIsNeverOverdrawn == Spec => []UnsafeNeedsConsent
<1>1. LedgerInvariant => UnsafeNeedsConsent
  <2> DEFINE under(c) == {e \in 1 .. MaxAttempts : effects[c][e] > 0}
  <2> SUFFICES ASSUME LedgerInvariant, NEW c \in Unsafe
               PROVE  /\ Cardinality(under(c)) <= consents[c]
                      /\ MostRuns(c) = 1 => \A e \in 1 .. MaxAttempts : effects[c][e] <= 1
    BY DEF UnsafeNeedsConsent
  <2>1. /\ c \in Call /\ LedgerTyped /\ Allowed /\ Effects
    BY DEF LedgerInvariant, Unsafe
  <2>2. row[c].epoch \in Nat /\ consents[c] \in Nat /\ row[c].epoch <= consents[c]
    BY <2>1 DEF LedgerTyped, TablesTyped, ProcessesTyped, Row, Allowed
  <2>3. /\ \A e \in 1 .. MaxAttempts : effects[c][e] <= MostRuns(c)
        /\ \A e \in 1 .. MaxAttempts : effects[c][e] > 0 => e <= row[c].epoch
    BY <2>1 DEF Effects, Counted
  <2>4. under(c) \subseteq 1 .. row[c].epoch
    BY <2>2, <2>3
  <2>5. IsFiniteSet(1 .. row[c].epoch) /\ Cardinality(1 .. row[c].epoch) = row[c].epoch
    <3> DEFINE n == row[c].epoch
    <3>1. n \in Int /\ n >= 0 /\ 1 \in Int
      BY <2>2
    <3> HIDE DEF n
    <3>2. IsFiniteSet(1 .. n) /\ Cardinality(1 .. n) = IF 1 > n THEN 0 ELSE n - 1 + 1
      BY <3>1, FS_Interval
    <3>3. Cardinality(1 .. n) = n
      BY <3>1, <3>2
    <3> QED BY <3>2, <3>3 DEF n
  <2> HIDE DEF under
  <2>6. Cardinality(under(c)) <= row[c].epoch /\ Cardinality(under(c)) \in Nat
    BY <2>4, <2>5, FS_Subset, FS_CardinalityType
  <2>7. Cardinality(under(c)) <= consents[c]
    BY <2>2, <2>6
  <2> QED BY <2>3, <2>7
<1> QED BY <1>1, LedgerIsConsistent, PTL

\* A reservation pays for no more runs of its tool than max_attempts, and for one
\* of a tool that changes something; a row that complete_tool_execution marked
\* describes a run under the epoch it was reserved with, unless its answer may be
\* one that was kept; and types are kept.
THEOREM OutcomesAreTrue == Spec => []OutcomeDescribesItsEpoch
<1>1. LedgerInvariant => OutcomeDescribesItsEpoch
  <2> SUFFICES ASSUME LedgerInvariant PROVE OutcomeDescribesItsEpoch
    OBVIOUS
  <2>1. LedgerTyped /\ Effects /\ Answers
    BY DEF LedgerInvariant
  <2>2. TypeOK
    BY <2>1 DEF LedgerTyped, TablesTyped, ProcessesTyped, Answers, TypeOK, Question, Row
  <2>3. ASSUME NEW c \in Call
        PROVE  /\ \A e \in 1 .. MaxAttempts : effects[c][e] <= MostRuns(c)
               /\ row[c].status = "completed" =>
                    row[c].epoch > 0 /\ (c \in Cached \/ effects[c][row[c].epoch] > 0)
    BY <2>1 DEF Effects, Counted, LedgerTyped, TablesTyped, Row
  <2> QED BY <2>2, <2>3 DEF OutcomeDescribesItsEpoch
<1> QED BY <1>1, LedgerIsConsistent, PTL

\* No work starts before the user decided about the calls in doubt.
THEOREM DoubtComesFirst == Spec => []DoubtIsDecidedFirst
<1>1. LedgerInvariant => DoubtIsDecidedFirst
  BY DEF LedgerInvariant, Doubts, DoubtIsDecidedFirst
<1> QED BY <1>1, LedgerIsConsistent, PTL

\* What the user is being asked about does not change underneath the question.
THEOREM QuestionsAreStable == Spec => []QuestionsStayOpen
<1>1. LedgerInvariant => QuestionsStayOpen
  BY DEF LedgerInvariant
<1> QED BY <1>1, LedgerIsConsistent, PTL

\* No step touches the row of a call that is settled.
LEMMA SettledStep ==
  ASSUME LedgerInvariant, [Next]_vars, NEW d \in Call,
         row[d].status = "completed" \/ (row[d].status = "failed" /\ d \in Unsafe)
  PROVE  row'[d] = row[d]
<1>1. LedgerTyped
  BY DEF LedgerInvariant
<1>2. row \in [Call -> Row]
  BY <1>1 DEF LedgerTyped, TablesTyped
<1>3. ASSUME NEW c \in Call, ReservationLapses(c)
      PROVE  row'[d] = row[d]
  <2>1. row[c].status = "started" /\ row' = [row EXCEPT ![c].fresh = FALSE]
    BY <1>3 DEF ReservationLapses
  <2>2. c # d
    BY <2>1
  <2> QED BY <2>1, <2>2, <1>2
<1>4. ASSUME NEW a \in Attempt, FindRecoveries(a)
      PROVE  row'[d] = row[d]
  <2>1. d \notin Doubtful(a)
    BY DEF Doubtful, InDoubt
  <2> QED BY <2>1, <1>4 DEF FindRecoveries
<1>5. ASSUME NEW a \in Attempt, Refuse(a)
      PROVE  row'[d] = row[d]
  <2>1. d \notin refused[a]
    BY <1>5 DEF Refuse
  <2> QED BY <2>1, <1>5 DEF Refuse
<1>6. ASSUME NEW a \in Attempt, Reserve(a)
      PROVE  row'[d] = row[d]
  <2> DEFINE c == Head(todo[a])
  <2>1. Starts(a, c) \/ Holds(a, c) \/ row' = row
    BY <1>1, <1>6, ReserveShape
  <2> HIDE DEF c
  <2>2. CASE Starts(a, c)
    <3>1. c # d
      BY <2>2 DEF Starts
    <3> QED BY <2>2, <3>1, <1>2 DEF Starts
  <2>3. CASE Holds(a, c)
    <3>1. c # d
      BY <2>3 DEF Holds
    <3> QED BY <2>3, <3>1, <1>2 DEF Holds
  <2> QED BY <2>1, <2>2, <2>3
<1>7. ASSUME NEW a \in Attempt, Record(a)
      PROVE  row'[d] = row[d]
  <2> DEFINE c == Head(held[a])[1]
  <2>1. row[c].status = "started" /\ \E s : row' = [row EXCEPT ![c].status = s]
    BY <1>7 DEF Record, Recordable
  <2> HIDE DEF c
  <2>2. c # d
    BY <2>1
  <2> QED BY <2>1, <2>2, <1>2
<1>8. ASSUME NEW a \in Attempt, Claim(a) \/ Crash(a)
      PROVE  row'[d] = row[d]
  BY <1>8 DEF Claim, Crash, tables
<1>9. ASSUME NEW a \in Attempt, Think(a)
      PROVE  row' = row
  <2>1. \A p : Wait(a, p) => row' = row
    BY DEF Wait
  <2> QED BY <2>1, <1>9 DEF Think, tables
<1>10. ASSUME NEW a \in Attempt, Execution(a)
       PROVE  row'[d] = row[d]
  <2>1. CASE AskAboutDoubt(a)
    BY <2>1 DEF AskAboutDoubt, Wait
  <2>2. CASE StopEarly(a) \/ Finish(a) \/ ReserveRejected(a) \/ RecordRejected(a)
    BY <2>2 DEF StopEarly, Finish, ReserveRejected, RecordRejected, Close
  <2>3. CASE Perform(a)
    BY <2>3 DEF Perform, tables
  <2> QED BY <2>1, <2>2, <2>3, <1>4, <1>5, <1>6, <1>7, <1>9, <1>10 DEF Execution
<1>11. CASE LeaseLapses \/ Recover \/ Cancel \/ Answer
  BY <1>11 DEF LeaseLapses, Recover, Cancel, Answer
<1>12. CASE UNCHANGED vars
  BY <1>12 DEF vars, tables
<1> QED BY <1>3, <1>8, <1>10, <1>11, <1>12 DEF Next

\* A settled call is not run again, by no Attempt and after no crash.
THEOREM SettledIsFinal == Spec => SettledCallsStaySettled
<1>1. LedgerInvariant /\ [Next]_vars =>
        [\A c \in Call :
           row[c].status = "completed" \/ (row[c].status = "failed" /\ c \in Unsafe)
             => row'[c] = row[c]]_vars
  BY SettledStep
<1> QED BY <1>1, LedgerIsConsistent, PTL DEF Spec, SettledCallsStaySettled
=============================================================================
