--------------------------- MODULE RunStreamProofs ---------------------------
(***************************************************************************)
(* Proofs about RunStream, for any number of facts, entries, commands,     *)
(* reconnections and faults.                                               *)
(*                                                                         *)
(* That the browser applies the history rests on a chain: the frames under *)
(* way lead, one by one, from the cursor of the hook to that of the reader *)
(* (WireFits).  So the next frame is always new to the hook, and is the    *)
(* next fact, or an entry whose facts have been applied (GotFits).  That   *)
(* what is shown moves forward rests on the requests: at most one is of    *)
(* the present generation, the one the hook waits for (CallsFit).  That    *)
(* the end is seen is proved as far as it needs no fairness (RequestsFit). *)
(***************************************************************************)
EXTENDS RunStream, FiniteSetTheorems, SequenceTheorems, TLAPS

\* Nothing follows the end, and a pause leaves room to be resumed and to end.
HistoryFits ==
  /\ \A n \in 1 .. Len(facts) : facts[n] = "end" => n = Len(facts)
  /\ Waiting(Len(facts)) => Len(facts) + 1 < MaxFacts

\* The reader knows no fact that is not there, and holds entries that are still
\* to be sent.
ReaderFits ==
  /\ reader.durable <= Len(facts) /\ reader.upto <= Len(facts)
  /\ reader.pc = "status" => reader.durable <= reader.upto
  /\ reader.pc \in {"tail", "done"} => Ended(Len(facts))
  /\ reader.pc = "done" => reader.durable = Len(facts)
  /\ \A i \in 1 .. Len(reader.batch) : reader.batch[i] > reader.redis
  /\ \A i, j \in 1 .. Len(reader.batch) : i < j => reader.batch[i] < reader.batch[j]

\* What may come behind a cursor: the next fact, or a later entry whose facts
\* have all been sent.
Follows(id, frame) ==
  \/ frame.type = "fact" /\ frame.durable = id[1] + 1 /\ frame.redis = id[2]
  \/ /\ frame.type = "entry" /\ frame.durable = id[1] /\ frame.redis > id[2]
     /\ Watermark[frame.redis] <= frame.durable

Id(frame) == <<frame.durable, frame.redis>>

\* The cursor after the first i frames.
CursorAfter(from, frames, i) == IF i = 0 THEN from ELSE Id(frames[i])

\* The frames lead from one cursor to the other.
Chain(from, frames, to) ==
  /\ \A i \in 1 .. Len(frames) : Follows(CursorAfter(from, frames, i - 1), frames[i])
  /\ CursorAfter(from, frames, Len(frames)) = to

\* The frames under way lead from the cursor of the hook to that of the reader.
WireFits ==
  /\ pc # "follow" => reader = Closed /\ wire = <<>>
  /\ pc = "follow" => Chain(cursor, wire, <<reader.durable, reader.redis>>)
  /\ \A i \in 1 .. Len(wire) : wire[i].durable <= Len(facts)

\* What was applied leads to the cursor.
GotFits ==
  /\ cursor[1] <= Len(facts)
  /\ \A id \in seen : id[1] <= cursor[1] /\ id[2] <= cursor[2]
  /\ cursor[1] = IF got = <<>> THEN 0 ELSE got[Len(got)].durable
  /\ cursor[1] = Cardinality({j \in 1 .. Len(got) : IsFact(got[j])})
  /\ \A i \in 1 .. Len(got) :
       /\ got[i].durable <= cursor[1] /\ got[i].redis <= cursor[2]
       /\ IsFact(got[i]) =>
            got[i].durable > 0 /\ got[i].durable = Cardinality({j \in 1 .. i : IsFact(got[j])})
       /\ ~IsFact(got[i]) => got[i].redis > 0 /\ Watermark[got[i].redis] <= got[i].durable
       /\ \A n \in 1 .. got[i].durable : \E j \in 1 .. i : IsFact(got[j]) /\ got[j].durable = n
  /\ \A i, j \in 1 .. Len(got) :
       i < j /\ ~IsFact(got[i]) /\ ~IsFact(got[j]) => got[i].redis < got[j].redis

Expects(where) ==
  CASE where \in {"create", "cancel", "resume"} -> {where}
    [] where \in {"calibrate", "reconcile", "recover"} -> {"snapshot"}
    [] OTHER -> {}

\* One request of the present generation at most, the one the hook waits for;
\* its reply is not older than what is shown.
CallsFit ==
  /\ \A c \in calls : c.gen <= generation /\ c.at <= Len(facts) /\ c.arg <= Len(facts)
  /\ \A c \in calls : Current(c) =>
       /\ c.type \in Expects(pc)
       /\ c.at > 0 => c.at >= shown
       /\ pc = "reconcile" => c.arg >= shown
       /\ \A d \in calls : Current(d) => c = d

\* Only interruptions cost reconnections, unless the Run is over.
PatienceFits ==
  /\ attempt <= Interruptions
  /\ pc = "calibrate" =>
       \/ attempt < Interruptions
       \/ /\ Ended(Len(facts))
          /\ \A c \in calls : Current(c) => c.at = 0 \/ Ended(c.at)
  /\ PatienceIsSpentOnTrouble

ViewFits ==
  /\ shown <= Len(facts) /\ pause <= Len(facts)
  /\ pc = "create" => shown = 0 /\ tries <= 2

StreamInvariant ==
  /\ StreamTypeOK /\ HistoryFits /\ ReaderFits /\ WireFits /\ GotFits
  /\ CallsFit /\ PatienceFits /\ ViewFits

-----------------------------------------------------------------------------
LEMMA NumbersOfTheStream ==
  /\ MaxReconnect \in Nat /\ MaxCommands \in Nat /\ MaxTrouble \in Nat
  /\ MaxFacts \in Nat \ {0}
  /\ Watermark \in Seq(0 .. MaxFacts) /\ MaxLive \in Nat
  BY StreamAssumption DEF MaxLive

LEMMA TypesOfTheStream ==
  ASSUME StreamTypeOK
  PROVE  /\ Len(facts) \in 0 .. MaxFacts /\ Len(facts) \in Nat
         /\ live \in Nat /\ lost \in Nat /\ trouble \in Nat /\ attempt \in Nat
         /\ reader.durable \in Nat /\ reader.redis \in Nat /\ reader.upto \in Nat
         /\ Len(wire) \in Nat /\ Len(got) \in Nat
         /\ cursor[1] \in Nat /\ cursor[2] \in Nat /\ cursor = <<cursor[1], cursor[2]>>
         /\ shown \in Nat /\ pause \in Nat
<1>1. MaxFacts \in Nat /\ MaxLive \in Nat /\ MaxReconnect \in Nat /\ MaxTrouble \in Nat
  BY NumbersOfTheStream
<1>2. /\ facts \in Seq(Fact) /\ Len(facts) <= MaxFacts
      /\ live \in 0 .. MaxLive /\ lost \in 0 .. live
      /\ trouble \in 0 .. MaxTrouble /\ attempt \in 0 .. MaxReconnect
      /\ reader \in Reader
      /\ wire \in Seq(Frame) /\ got \in Seq(Frame)
      /\ shown \in 0 .. MaxFacts /\ pause \in 0 .. MaxFacts
  BY DEF StreamTypeOK
<1>3. Len(facts) \in 0 .. MaxFacts /\ Len(facts) \in Nat
  BY <1>1, <1>2
<1>4. live \in Nat /\ lost \in Nat /\ trouble \in Nat /\ attempt \in Nat
  BY <1>1, <1>2
<1>5. /\ reader.durable \in Nat /\ reader.redis \in Nat /\ reader.upto \in Nat
      /\ Len(wire) \in Nat /\ Len(got) \in Nat
  BY <1>1, <1>2 DEF Reader
<1>6. cursor[1] \in Nat /\ cursor[2] \in Nat /\ cursor = <<cursor[1], cursor[2]>>
  <2>1. cursor \in (0 .. MaxFacts) \X (0 .. MaxLive)
    BY DEF StreamTypeOK, Cursor
  <2> QED BY <1>1, <2>1
<1>7. shown \in Nat /\ pause \in Nat
  BY <1>1, <1>2
<1> QED BY <1>3, <1>4, <1>5, <1>6, <1>7

LEMMA FrameNumbers ==
  ASSUME NEW frame \in Frame
  PROVE  /\ frame.durable \in Nat /\ frame.redis \in Nat
         /\ frame.durable \in 0 .. MaxFacts /\ frame.redis \in 0 .. MaxLive
         /\ frame.type \in {"fact", "entry"}
  BY NumbersOfTheStream DEF Frame

\* The frames that were applied: each a frame, with numbers.
LEMMA GotNumbers ==
  ASSUME StreamTypeOK, NEW i \in 1 .. Len(got)
  PROVE  got[i] \in Frame /\ got[i].durable \in Nat /\ got[i].redis \in Nat
<1>1. got[i] \in Frame
  BY ElementOfSeq DEF StreamTypeOK
<1> QED BY <1>1, FrameNumbers

LEMMA WireNumbers ==
  ASSUME StreamTypeOK, NEW i \in 1 .. Len(wire)
  PROVE  wire[i] \in Frame /\ wire[i].durable \in Nat /\ wire[i].redis \in Nat
<1>1. wire[i] \in Frame
  BY ElementOfSeq DEF StreamTypeOK
<1> QED BY <1>1, FrameNumbers

\* The requests under way: each a call, with numbers.
LEMMA CallNumbers ==
  ASSUME StreamTypeOK, NEW c \in calls
  PROVE  /\ c \in Call /\ c.gen \in Nat /\ c.at \in Nat /\ c.arg \in Nat
         /\ c.at \in 0 .. MaxFacts /\ c.arg \in 0 .. MaxFacts
<1>1. c \in Call
  BY DEF StreamTypeOK
<1> QED BY <1>1, NumbersOfTheStream DEF Call

LEMMA GenerationNumber ==
  ASSUME StreamTypeOK
  PROVE  /\ generation \in 0 .. MaxCommands /\ generation \in Nat /\ generation <= generation
         /\ Len(facts) \in Nat /\ 0 <= Len(facts) /\ 0 \in 0 .. MaxFacts
<1>1. generation \in 0 .. MaxCommands
  BY DEF StreamTypeOK
<1> QED BY <1>1, TypesOfTheStream, NumbersOfTheStream

LEMMA InterruptionsAreCounted ==
  ASSUME StreamTypeOK
  PROVE  Interruptions \in Nat
<1> DEFINE P == {i \in 1 .. Len(got) : IsFact(got[i]) /\ facts[got[i].durable] = "paused"}
<1>1. IsFiniteSet(1 .. Len(got)) /\ P \in SUBSET (1 .. Len(got))
  <2>1. P \in SUBSET (1 .. Len(got))
    OBVIOUS
  <2> HIDE DEF P
  <2>2. 1 \in Int /\ Len(got) \in Int
    BY TypesOfTheStream
  <2> QED BY <2>1, <2>2, FS_Interval
<1>2. IsFiniteSet(P)
  BY <1>1, FS_Subset
<1> HIDE DEF P
<1>3. Cardinality(P) \in Nat
  BY <1>2, FS_CardinalityType
<1> QED BY <1>3, TypesOfTheStream DEF Interruptions, P

LEMMA TableIsSequence ==
  ASSUME NEW S, NEW n \in Nat, NEW f \in [1 .. n -> S]
  PROVE  f \in Seq(S) /\ Len(f) = n
  BY SeqDef, LenProperties

LEMMA HeadAndRest ==
  ASSUME NEW S, NEW f \in Seq(S), f # <<>>
  PROVE  /\ Head(f) \in S /\ Tail(f) \in Seq(S)
         /\ Len(f) \in Nat /\ Len(f) > 0
         /\ Len(Tail(f)) = Len(f) - 1 /\ Head(f) = f[1]
         /\ \A i \in 1 .. Len(Tail(f)) : Tail(f)[i] = f[i + 1]
  OBVIOUS

-----------------------------------------------------------------------------
(* Chains of frames.                                                       *)

LEMMA ChainGrows ==
  ASSUME NEW S, NEW f \in Seq(S), NEW g \in Seq(S), NEW a, NEW b, NEW c,
         Chain(a, f, b), Chain(b, g, c)
  PROVE  Chain(a, f \o g, c)
<1> DEFINE h == f \o g
<1>1. /\ Len(f) \in Nat /\ Len(g) \in Nat /\ Len(h) = Len(f) + Len(g)
      /\ \A i \in 1 .. Len(f) : h[i] = f[i]
      /\ \A i \in 1 .. Len(g) : h[Len(f) + i] = g[i]
  OBVIOUS
<1> HIDE DEF h
<1>2. \A i \in 0 .. Len(f) : CursorAfter(a, h, i) = CursorAfter(a, f, i)
  BY <1>1 DEF CursorAfter
<1>3. CursorAfter(a, h, Len(f)) = b
  BY <1>1, <1>2 DEF Chain
<1>4. ASSUME NEW i \in 0 .. Len(g)
      PROVE  CursorAfter(a, h, Len(f) + i) = CursorAfter(b, g, i)
  <2>1. CASE i = 0
    BY <1>1, <1>3, <2>1 DEF CursorAfter
  <2>2. CASE i > 0
    <3>1. i \in 1 .. Len(g) /\ Len(f) + i # 0 /\ i # 0
      BY <1>1, <2>2
    <3> QED BY <1>1, <3>1 DEF CursorAfter
  <2> QED BY <1>1, <2>1, <2>2
<1>5. ASSUME NEW i \in 1 .. Len(h)
      PROVE  Follows(CursorAfter(a, h, i - 1), h[i])
  <2>1. CASE i <= Len(f)
    <3>1. i \in 1 .. Len(f) /\ i - 1 \in 0 .. Len(f)
      BY <1>1, <2>1
    <3> QED BY <1>1, <1>2, <3>1 DEF Chain
  <2>2. CASE i > Len(f)
    <3>1. PICK j \in 1 .. Len(g) : i = Len(f) + j
      <4>1. i - Len(f) \in 1 .. Len(g) /\ i = Len(f) + (i - Len(f))
        BY <1>1, <2>2
      <4> QED BY <4>1
    <3>2. j - 1 \in 0 .. Len(g) /\ i - 1 = Len(f) + (j - 1)
      BY <1>1, <3>1
    <3>3. CursorAfter(a, h, i - 1) = CursorAfter(b, g, j - 1)
      BY <1>4, <3>2
    <3> QED BY <1>1, <3>1, <3>3 DEF Chain
  <2> QED BY <1>1, <2>1, <2>2
<1>6. CursorAfter(a, h, Len(h)) = c
  BY <1>1, <1>4 DEF Chain
<1> QED BY <1>5, <1>6 DEF Chain, h

LEMMA ChainIsConsumed ==
  ASSUME NEW S, NEW f \in Seq(S), f # <<>>, NEW a, NEW b, Chain(a, f, b)
  PROVE  Follows(a, Head(f)) /\ Chain(Id(Head(f)), Tail(f), b)
<1> DEFINE g == Tail(f)
<1>1. /\ Len(f) \in Nat /\ Len(f) > 0 /\ Len(g) = Len(f) - 1
      /\ \A i \in 1 .. Len(g) : g[i] = f[i + 1]
      /\ Head(f) = f[1]
  OBVIOUS
<1> HIDE DEF g
<1>2. Follows(a, f[1])
  <2>1. 1 \in 1 .. Len(f) /\ 1 - 1 = 0
    BY <1>1
  <2> QED BY <2>1 DEF Chain, CursorAfter
<1>3. ASSUME NEW i \in 0 .. Len(g)
      PROVE  CursorAfter(Id(f[1]), g, i) = CursorAfter(a, f, i + 1)
  <2>1. i + 1 # 0 /\ (i # 0 => i \in 1 .. Len(g))
    BY <1>1
  <2> QED BY <1>1, <2>1 DEF CursorAfter
<1>4. ASSUME NEW i \in 1 .. Len(g)
      PROVE  Follows(CursorAfter(Id(f[1]), g, i - 1), g[i])
  <2>1. i - 1 \in 0 .. Len(g) /\ i + 1 \in 1 .. Len(f) /\ (i - 1) + 1 = i /\ (i + 1) - 1 = i
    BY <1>1
  <2> QED BY <1>1, <1>3, <2>1 DEF Chain
<1>5. CursorAfter(Id(f[1]), g, Len(g)) = b
  <2>1. Len(g) \in 0 .. Len(g) /\ Len(g) + 1 = Len(f)
    BY <1>1
  <2> QED BY <1>3, <2>1 DEF Chain
<1> QED BY <1>1, <1>2, <1>4, <1>5 DEF Chain, g

LEMMA ChainOfNone ==
  ASSUME NEW a
  PROVE  Chain(a, <<>>, a)
  BY DEF Chain, CursorAfter

-----------------------------------------------------------------------------
(* The history grows, or stays.                                            *)

Grows ==
  \E fact \in Fact :
    /\ Record(fact)
    /\ ~Ended(Len(facts))
    /\ Len(facts) < MaxFacts
    /\ fact = "paused" => Len(facts) + 2 < MaxFacts

LEMMA GrownHistory ==
  ASSUME StreamTypeOK, Grows \/ UNCHANGED facts
  PROVE  /\ facts' \in Seq(Fact) /\ Len(facts') \in 0 .. MaxFacts
         /\ Len(facts) <= Len(facts')
         /\ \A n \in 1 .. Len(facts) : facts'[n] = facts[n]
<1>1. CASE UNCHANGED facts
  <2>1. facts \in Seq(Fact)
    BY DEF StreamTypeOK
  <2> QED BY <1>1, <2>1, TypesOfTheStream
<1>2. CASE Grows
  <2>1. PICK fact \in Fact : facts' = Append(facts, fact) /\ Len(facts) < MaxFacts
    BY <1>2 DEF Grows, Record
  <2>2. facts \in Seq(Fact)
    BY DEF StreamTypeOK
  <2>3. /\ facts' \in Seq(Fact) /\ Len(facts') = Len(facts) + 1
        /\ \A n \in 1 .. Len(facts) : facts'[n] = facts[n]
    BY <2>1, <2>2
  <2>4. Len(facts') \in 0 .. MaxFacts /\ Len(facts) <= Len(facts')
    <3>1. Len(facts) \in Nat /\ MaxFacts \in Nat /\ Len(facts') = Len(facts) + 1
      BY <2>3, TypesOfTheStream, NumbersOfTheStream
    <3> QED BY <2>1, <3>1
  <2> QED BY <2>3, <2>4
<1> QED BY <1>1, <1>2

LEMMA HistoryKeeps ==
  ASSUME StreamTypeOK, HistoryFits, Grows \/ UNCHANGED facts
  PROVE  HistoryFits'
<1>1. CASE UNCHANGED facts
  BY <1>1 DEF HistoryFits, Waiting
<1>2. CASE Grows
  <2>1. PICK fact \in Fact : /\ facts' = Append(facts, fact)
                             /\ ~Ended(Len(facts))
                             /\ fact = "paused" => Len(facts) + 2 < MaxFacts
    BY <1>2 DEF Grows, Record
  <2>2. facts \in Seq(Fact) /\ Len(facts) \in Nat
    BY TypesOfTheStream DEF StreamTypeOK
  <2>3. /\ Len(facts') = Len(facts) + 1
        /\ \A n \in 1 .. Len(facts) : facts'[n] = facts[n]
        /\ facts'[Len(facts) + 1] = fact
    BY <2>1, <2>2
  <2>4. \A n \in 1 .. Len(facts) : facts[n] # "end"
    BY <2>1, <2>2 DEF HistoryFits, Ended
  <2>5. \A n \in 1 .. Len(facts') : facts'[n] = "end" => n = Len(facts')
    BY <2>2, <2>3, <2>4
  <2>6. Waiting(Len(facts))' => Len(facts') + 1 < MaxFacts
    BY <2>1, <2>2, <2>3, NumbersOfTheStream DEF Waiting
  <2> QED BY <2>5, <2>6 DEF HistoryFits
<1> QED BY <1>1, <1>2

LEMMA GotStays ==
  ASSUME StreamTypeOK, GotFits, Grows \/ UNCHANGED facts,
         UNCHANGED <<cursor, seen, got>>
  PROVE  GotFits'
<1>1. cursor[1] <= Len(facts') /\ cursor[1] \in Nat
  <2>1. cursor[1] <= Len(facts) /\ cursor[1] \in Nat /\ Len(facts) \in Nat
    BY TypesOfTheStream DEF GotFits
  <2>2. Len(facts) <= Len(facts') /\ Len(facts') \in Nat
    BY GrownHistory, NumbersOfTheStream
  <2> QED BY <2>1, <2>2
<1> QED BY <1>1 DEF GotFits, IsFact
LEMMA InterruptionsMove ==
  ASSUME StreamTypeOK, GotFits, Grows \/ UNCHANGED facts, UNCHANGED got, trouble' \in Nat
  PROVE  Interruptions' = Interruptions + (trouble' - trouble)
<1> DEFINE P == {i \in 1 .. Len(got) : IsFact(got[i]) /\ facts[got[i].durable] = "paused"}
<1>1. ASSUME NEW i \in 1 .. Len(got), IsFact(got[i])
      PROVE  facts'[got[i].durable] = facts[got[i].durable]
  <2>1. got[i].durable \in 1 .. Len(facts)
    <3>1. got[i].durable \in Nat /\ cursor[1] \in Nat /\ Len(facts) \in Nat
      BY GotNumbers, TypesOfTheStream
    <3>2. 0 < got[i].durable /\ got[i].durable <= cursor[1] /\ cursor[1] <= Len(facts)
      BY <1>1 DEF GotFits
    <3> QED BY <3>1, <3>2
  <2> QED BY <2>1, GrownHistory
<1>2. {i \in 1 .. Len(got') : IsFact(got'[i]) /\ facts'[got'[i].durable] = "paused"} = P
  BY <1>1
<1>3. Interruptions = trouble + Cardinality(P) /\ Interruptions' = trouble' + Cardinality(P)
  BY <1>2 DEF Interruptions, IsFact
<1>4. Cardinality(P) \in Nat
  <2>1. P \in SUBSET (1 .. Len(got))
    OBVIOUS
  <2> HIDE DEF P
  <2>2. 1 \in Int /\ Len(got) \in Int
    BY TypesOfTheStream
  <2> QED BY <2>1, <2>2, FS_Interval, FS_Subset, FS_CardinalityType
<1> HIDE DEF P
<1>5. trouble \in Nat
  BY TypesOfTheStream
<1> QED BY <1>3, <1>4, <1>5

LEMMA InterruptionsStay ==
  ASSUME StreamTypeOK, GotFits, Grows \/ UNCHANGED facts,
         UNCHANGED <<got, trouble>>
  PROVE  Interruptions' = Interruptions
<1>1. trouble' \in Nat /\ trouble \in Nat /\ Interruptions \in Nat
  BY TypesOfTheStream, InterruptionsAreCounted
<1>2. Interruptions' = Interruptions + (trouble' - trouble)
  BY <1>1, InterruptionsMove
<1> QED BY <1>1, <1>2

\* Nothing but the history moves, and the requests to the server.
LEMMA ServerRests ==
  ASSUME StreamInvariant, Grows \/ UNCHANGED facts, UNCHANGED <<serverVars, hookVars>>
  PROVE  ReaderFits' /\ WireFits' /\ ViewFits'
<1> USE DEF serverVars, hookVars
<1>1. StreamTypeOK /\ ReaderFits /\ WireFits /\ ViewFits
  BY DEF StreamInvariant
<1>2. /\ Len(facts) <= Len(facts') /\ Len(facts) \in Nat /\ Len(facts') \in Nat
      /\ Ended(Len(facts)) => facts' = facts
  <2>1. Len(facts) <= Len(facts') /\ Len(facts) \in Nat /\ Len(facts') \in Nat
    BY <1>1, GrownHistory, TypesOfTheStream, NumbersOfTheStream
  <2> QED BY <2>1 DEF Grows
<1>3. ReaderFits'
  <2>1. reader.durable <= Len(facts') /\ reader.upto <= Len(facts')
    BY <1>1, <1>2, TypesOfTheStream DEF ReaderFits
  <2>2. reader.pc \in {"tail", "done"} => facts' = facts
    BY <1>1, <1>2 DEF ReaderFits
  <2> QED BY <1>1, <2>1, <2>2 DEF ReaderFits, Ended
<1>4. WireFits'
  <2>1. \A i \in 1 .. Len(wire) : wire[i].durable \in Nat
    BY <1>1, WireNumbers
  <2> QED BY <1>1, <1>2, <2>1 DEF WireFits
<1>5. ViewFits'
  BY <1>1, <1>2, TypesOfTheStream DEF ViewFits
<1> QED BY <1>3, <1>4, <1>5

-----------------------------------------------------------------------------
(* The Run and the server.                                                 *)

LEMMA CommitFactKeeps ==
  ASSUME StreamInvariant, CommitFact
  PROVE  StreamInvariant'
<1>1. StreamTypeOK /\ HistoryFits /\ GotFits /\ CallsFit /\ PatienceFits
  BY DEF StreamInvariant
<1>2. UNCHANGED <<live, lost, serverVars, hookVars, calls, trouble>>
  BY DEF CommitFact
<1>3. Grows
  <2>1. Len(facts) \in Nat /\ MaxFacts \in Nat
    BY <1>1, TypesOfTheStream, NumbersOfTheStream
  <2> QED BY <2>1 DEF CommitFact, Grows, Fact, Active, Ended, Waiting
<1>4. StreamTypeOK'
  <2>1. facts' \in Seq(Fact) /\ Len(facts') <= MaxFacts
    BY <1>1, <1>3, GrownHistory, NumbersOfTheStream
  <2> QED BY <1>1, <1>2, <2>1 DEF StreamTypeOK, serverVars, hookVars
<1>5. HistoryFits' /\ ReaderFits' /\ WireFits' /\ ViewFits'
  BY <1>1, <1>2, <1>3, HistoryKeeps, ServerRests
<1>6. GotFits' /\ Interruptions' = Interruptions
  BY <1>1, <1>2, <1>3, GotStays, InterruptionsStay DEF hookVars
<1>7. CallsFit'
  <2>1. /\ Len(facts) <= Len(facts') /\ Len(facts) \in Nat /\ Len(facts') \in Nat
        /\ \A c \in calls : c.at \in Nat /\ c.arg \in Nat
    BY <1>1, <1>3, GrownHistory, TypesOfTheStream, NumbersOfTheStream, CallNumbers
  <2> QED BY <1>1, <1>2, <2>1 DEF CallsFit, Current, Expects, hookVars
<1>8. PatienceFits'
  BY <1>1, <1>2, <1>3, <1>6 DEF PatienceFits, PatienceIsSpentOnTrouble, Grows, hookVars
<1> QED BY <1>4, <1>5, <1>6, <1>7, <1>8 DEF StreamInvariant

LEMMA ServeKeeps ==
  ASSUME StreamInvariant, NEW c \in calls, Serve(c)
  PROVE  StreamInvariant'
<1>1. StreamTypeOK /\ HistoryFits /\ GotFits /\ CallsFit /\ PatienceFits /\ ViewFits
  BY DEF StreamInvariant
<1> DEFINE d == [c EXCEPT !.at = Len(facts')]
<1>2. /\ UNCHANGED <<live, lost, serverVars, hookVars, trouble>>
      /\ calls' = (calls \ {c}) \union {d}
  BY DEF Serve
<1>3. Grows \/ UNCHANGED facts
  <2>1. Len(facts) \in Nat /\ MaxFacts \in Nat \ {0}
    BY <1>1, TypesOfTheStream, NumbersOfTheStream
  <2>2. Waiting(Len(facts)) => Len(facts) + 1 < MaxFacts /\ ~Ended(Len(facts))
    BY <1>1 DEF HistoryFits, Waiting, Ended
  <2> QED BY <2>1, <2>2 DEF Serve, Grows, Fact, Active, Ended
<1>4. /\ facts' \in Seq(Fact) /\ Len(facts') \in 0 .. MaxFacts
      /\ Len(facts) <= Len(facts') /\ Len(facts) \in Nat /\ Len(facts') \in Nat
  BY <1>1, <1>3, GrownHistory, TypesOfTheStream, NumbersOfTheStream
<1>5. c \in Call /\ d \in Call /\ d.gen = c.gen /\ d.type = c.type /\ d.arg = c.arg
      /\ d.at = Len(facts')
  BY <1>1, <1>4 DEF StreamTypeOK, Call
<1>6. \A e \in calls : e.at \in Nat /\ e.arg \in Nat
  BY <1>1, CallNumbers
<1> HIDE DEF d
<1>7. StreamTypeOK'
  <2>1. calls' \subseteq Call
    BY <1>1, <1>2, <1>5 DEF StreamTypeOK
  <2>2. Len(facts') <= MaxFacts
    BY <1>4, NumbersOfTheStream
  <2> QED BY <1>1, <1>2, <1>4, <2>1, <2>2 DEF StreamTypeOK, serverVars, hookVars
<1>8. HistoryFits' /\ ReaderFits' /\ WireFits' /\ ViewFits'
  BY <1>1, <1>2, <1>3, HistoryKeeps, ServerRests
<1>9. GotFits' /\ Interruptions' = Interruptions
  BY <1>1, <1>2, <1>3, GotStays, InterruptionsStay DEF hookVars
<1>10. CallsFit'
  <2>1. shown <= Len(facts') /\ UNCHANGED <<pc, generation, shown>>
    BY <1>1, <1>2, <1>4, TypesOfTheStream DEF ViewFits, hookVars
  <2>2. \A e \in calls' : e.gen <= generation' /\ e.at <= Len(facts') /\ e.arg <= Len(facts')
    BY <1>1, <1>2, <1>4, <1>5, <1>6, <2>1 DEF CallsFit
  <2>3. ASSUME NEW e \in calls', e.gen = generation'
        PROVE  /\ e.type \in Expects(pc')
               /\ e.at > 0 => e.at >= shown'
               /\ pc' = "reconcile" => e.arg >= shown'
    <3>1. CASE e \in calls
      BY <1>1, <2>1, <2>3, <3>1 DEF CallsFit, Current
    <3>2. CASE e = d
      BY <1>1, <1>4, <1>5, <2>1, <2>3, <3>2 DEF CallsFit, Current
    <3> QED BY <1>2, <3>1, <3>2
  <2>4. ASSUME NEW e \in calls', NEW f \in calls', e.gen = generation', f.gen = generation'
        PROVE  e = f
    <3>1. \A x, y \in calls : x.gen = generation /\ y.gen = generation => x = y
      BY <1>1 DEF CallsFit, Current
    <3> QED BY <1>2, <1>5, <2>1, <2>4, <3>1
  <2> QED BY <2>2, <2>3, <2>4 DEF CallsFit, Current
<1>11. PatienceFits'
  <2>1. attempt' <= Interruptions' /\ PatienceIsSpentOnTrouble'
    BY <1>1, <1>2, <1>9 DEF PatienceFits, PatienceIsSpentOnTrouble, hookVars
  <2>2. ASSUME pc' = "calibrate", ~(attempt < Interruptions)
        PROVE  /\ Ended(Len(facts))'
               /\ \A e \in calls' : e.gen = generation' => e.at = 0 \/ Ended(e.at)'
    <3>1. /\ Ended(Len(facts))
          /\ \A e \in calls : e.gen = generation => e.at = 0 \/ Ended(e.at)
      BY <1>1, <1>2, <2>2 DEF PatienceFits, Current, hookVars
    <3>2. facts' = facts
      BY <1>3, <3>1 DEF Grows
    <3>3. generation' = generation
      BY <1>2 DEF hookVars
    <3> QED BY <1>2, <1>5, <3>1, <3>2, <3>3 DEF Ended
  <2> QED BY <1>2, <1>9, <2>1, <2>2 DEF PatienceFits, Current, Ended, hookVars
<1> QED BY <1>7, <1>8, <1>9, <1>10, <1>11 DEF StreamInvariant

\* Only the stream of live entries moves.
LEMMA LiveKeeps ==
  ASSUME StreamInvariant, UNCHANGED <<facts, serverVars, hookVars, calls, trouble>>,
         live' \in 0 .. MaxLive, lost' \in 0 .. live'
  PROVE  StreamInvariant'
<1>1. StreamTypeOK /\ HistoryFits /\ GotFits /\ CallsFit /\ PatienceFits
  BY DEF StreamInvariant
<1>2. StreamTypeOK'
  BY <1>1 DEF StreamTypeOK, serverVars, hookVars
<1>3. HistoryFits' /\ ReaderFits' /\ WireFits' /\ ViewFits'
  BY <1>1, HistoryKeeps, ServerRests
<1>4. GotFits' /\ Interruptions' = Interruptions
  BY <1>1, GotStays, InterruptionsStay DEF hookVars
<1>5. CallsFit'
  BY <1>1 DEF CallsFit, Current, Expects, hookVars
<1>6. PatienceFits'
  BY <1>1, <1>4 DEF PatienceFits, PatienceIsSpentOnTrouble, Current, Ended, hookVars
<1> QED BY <1>2, <1>3, <1>4, <1>5, <1>6 DEF StreamInvariant

LEMMA PublishAndTrimKeep ==
  ASSUME StreamInvariant, Publish \/ Trim
  PROVE  StreamInvariant'
<1>1. live \in 0 .. MaxLive /\ lost \in 0 .. live /\ MaxLive \in Nat
  BY NumbersOfTheStream DEF StreamInvariant, StreamTypeOK
<1>2. CASE Publish
  BY <1>1, <1>2, LiveKeeps DEF Publish
<1>3. CASE Trim
  <2>1. lost' \in lost + 1 .. live /\ live' = live
        /\ UNCHANGED <<facts, serverVars, hookVars, calls, trouble>>
    BY <1>3 DEF Trim
  <2>2. lost' \in 0 .. live'
    BY <1>1, <2>1
  <2> QED BY <1>1, <2>1, <2>2, LiveKeeps
<1> QED BY <1>2, <1>3

-----------------------------------------------------------------------------
(* The reader of the connection.                                           *)

LEMMA OnlyTheReader ==
  ASSUME StreamInvariant, UNCHANGED <<runVars, hookVars, calls, trouble>>,
         reader' \in Reader, wire' \in Seq(Frame), ReaderFits', WireFits'
  PROVE  StreamInvariant'
<1>1. StreamTypeOK /\ HistoryFits /\ GotFits /\ CallsFit /\ PatienceFits /\ ViewFits
  BY DEF StreamInvariant
<1>2. StreamTypeOK'
  BY <1>1 DEF StreamTypeOK, runVars, hookVars
<1>3. HistoryFits' /\ ViewFits'
  BY <1>1 DEF HistoryFits, Waiting, ViewFits, runVars, hookVars
<1>4. GotFits' /\ Interruptions' = Interruptions
  BY <1>1, GotStays, InterruptionsStay DEF runVars, hookVars
<1>5. CallsFit'
  BY <1>1 DEF CallsFit, Current, Expects, runVars, hookVars
<1>6. PatienceFits'
  BY <1>1, <1>4 DEF PatienceFits, PatienceIsSpentOnTrouble, Current, Ended, runVars, hookVars
<1> QED BY <1>2, <1>3, <1>4, <1>5, <1>6 DEF StreamInvariant

\* A reader that reads has a hook that follows.
LEMMA ReaderIsFollowed ==
  ASSUME StreamInvariant, reader.pc # "closed"
  PROVE  pc = "follow"
  BY DEF StreamInvariant, WireFits, Closed

\* The facts up to some number are sent.
LEMMA FactsAreSent ==
  ASSUME StreamInvariant, reader.pc # "closed", UNCHANGED <<facts, hookVars>>,
         NEW upto \in Nat, reader.durable <= upto, upto <= Len(facts),
         wire' = wire \o FactFrames(upto),
         reader'.durable = upto, reader'.redis = reader.redis
  PROVE  WireFits' /\ wire' \in Seq(Frame)
<1>1. StreamTypeOK /\ WireFits /\ pc = "follow"
  BY ReaderIsFollowed DEF StreamInvariant
<1> DEFINE n == upto - reader.durable
           frames == FactFrames(upto)
<1>2. /\ reader.durable \in Nat /\ reader.redis \in 0 .. MaxLive
      /\ Len(facts) \in Nat /\ Len(facts) <= MaxFacts /\ MaxFacts \in Nat
  <2>1. reader \in Reader /\ Len(facts) <= MaxFacts
    BY <1>1 DEF StreamTypeOK
  <2> QED BY <1>1, <2>1, TypesOfTheStream, NumbersOfTheStream DEF Reader
<1>3. n \in Nat /\ reader.durable + n = upto
  BY <1>2
<1>4. /\ frames \in [1 .. n -> Frame]
      /\ \A i \in 1 .. n : frames[i] = [type |-> "fact", durable |-> reader.durable + i, redis |-> reader.redis]
  <2>1. \A i \in 1 .. n : [type |-> "fact", durable |-> reader.durable + i, redis |-> reader.redis] \in Frame
    BY <1>2, <1>3 DEF Frame
  <2> QED BY <2>1 DEF FactFrames
<1> HIDE DEF frames, n
<1>5. frames \in Seq(Frame) /\ Len(frames) = n
  BY <1>3, <1>4, TableIsSequence
<1> DEFINE from == <<reader.durable, reader.redis>>
           to == <<upto, reader.redis>>
<1>6. ASSUME NEW i \in 0 .. n
      PROVE  CursorAfter(from, frames, i) = <<reader.durable + i, reader.redis>>
  <2>1. CASE i = 0
    BY <1>2, <2>1 DEF CursorAfter
  <2>2. CASE i # 0
    <3>1. i \in 1 .. n
      BY <1>3, <2>2
    <3> QED BY <1>4, <2>2, <3>1 DEF CursorAfter, Id
  <2> QED BY <2>1, <2>2
<1>7. Chain(from, frames, to)
  <2>1. ASSUME NEW i \in 1 .. n
        PROVE  Follows(CursorAfter(from, frames, i - 1), frames[i])
    <3>1. i - 1 \in 0 .. n /\ reader.durable + (i - 1) + 1 = reader.durable + i
      BY <1>2, <1>3
    <3>2. CursorAfter(from, frames, i - 1) = <<reader.durable + (i - 1), reader.redis>>
      BY <1>6, <3>1
    <3> QED BY <1>4, <3>1, <3>2 DEF Follows
  <2>2. n \in 0 .. n
    BY <1>3
  <2>3. CursorAfter(from, frames, n) = to
    BY <1>3, <1>6, <2>2
  <2> QED BY <1>5, <2>1, <2>3 DEF Chain
<1> HIDE DEF from, to
<1>8. \A i \in 1 .. n : frames[i].durable <= Len(facts)
  BY <1>2, <1>3, <1>4
<1>9. wire \in Seq(Frame) /\ Chain(cursor, wire, from)
  BY <1>1 DEF StreamTypeOK, WireFits, from
<1>10. wire' \in Seq(Frame) /\ Chain(cursor, wire', to)
  BY <1>5, <1>7, <1>9, ChainGrows DEF frames
<1>11. \A i \in 1 .. Len(wire') : wire'[i].durable <= Len(facts)
  <2>1. \A i \in 1 .. Len(wire) : wire[i].durable <= Len(facts)
    BY <1>1 DEF WireFits
  <2> QED BY <1>5, <1>8, <1>9, <2>1 DEF frames
<1> QED BY <1>1, <1>10, <1>11 DEF WireFits, to, hookVars

\* The reader changes and sends nothing.
LEMMA ReaderMoves ==
  ASSUME StreamInvariant, reader.pc # "closed",
         UNCHANGED <<runVars, wire, hookVars, calls, trouble>>,
         reader' \in Reader, reader'.durable = reader.durable, reader'.redis = reader.redis,
         ReaderFits'
  PROVE  StreamInvariant'
<1>1. StreamTypeOK /\ WireFits /\ pc = "follow"
  BY ReaderIsFollowed DEF StreamInvariant
<1>2. WireFits'
  BY <1>1 DEF WireFits, runVars, hookVars
<1>3. wire' \in Seq(Frame)
  BY <1>1 DEF StreamTypeOK
<1> QED BY <1>2, <1>3, OnlyTheReader

LEMMA ReaderNumbers ==
  ASSUME StreamTypeOK
  PROVE  /\ reader \in Reader
         /\ reader.durable \in 0 .. MaxFacts /\ reader.redis \in 0 .. MaxLive
         /\ reader.upto \in 0 .. MaxFacts
         /\ reader.batch \in Seq(1 .. MaxLive) /\ Len(reader.batch) \in Nat
         /\ \A i \in 1 .. Len(reader.batch) : reader.batch[i] \in Nat
<1>1. reader \in Reader
  BY DEF StreamTypeOK
<1>2. reader.batch \in Seq(1 .. MaxLive)
  BY <1>1 DEF Reader
<1> QED BY <1>1, <1>2, NumbersOfTheStream DEF Reader

LEMMA ListEventsKeeps ==
  ASSUME StreamInvariant, ListEvents
  PROVE  StreamInvariant'
<1>1. StreamTypeOK /\ ReaderFits
  BY DEF StreamInvariant
<1>2. /\ reader.pc = "list" /\ UNCHANGED <<runVars, wire, hookVars, calls, trouble>>
      /\ reader' = [reader EXCEPT !.pc = "status", !.upto = Len(facts)]
  BY DEF ListEvents
<1>3. Len(facts) \in 0 .. MaxFacts /\ reader \in Reader /\ facts' = facts
  BY <1>1, <1>2, TypesOfTheStream, ReaderNumbers DEF runVars
<1>4. reader' \in Reader /\ reader'.durable = reader.durable /\ reader'.redis = reader.redis
      /\ reader'.pc = "status" /\ reader'.upto = Len(facts) /\ reader'.batch = reader.batch
  BY <1>2, <1>3 DEF Reader
<1>5. ReaderFits'
  BY <1>1, <1>3, <1>4 DEF ReaderFits
<1> QED BY <1>2, <1>4, <1>5, ReaderMoves

\* The batch is kept, or dropped as a whole.
LEMMA ContinueFits ==
  ASSUME StreamTypeOK, ReaderFits, reader.pc = "status", NEW next, next = Continue(reader.upto)
  PROVE  /\ next \in Reader
         /\ next.durable = reader.upto /\ next.redis = reader.redis /\ next.upto = reader.upto
         /\ next.batch \in {reader.batch, <<>>}
         /\ next.pc \in {"read", "entries", "list"}
<1>1. reader \in Reader /\ reader.batch \in Seq(1 .. MaxLive) /\ reader.upto \in 0 .. MaxFacts
      /\ <<>> \in Seq(1 .. MaxLive)
  BY ReaderNumbers
<1> QED BY <1>1 DEF Continue, Reader

LEMMA GetStatusKeeps ==
  ASSUME StreamInvariant, GetStatus
  PROVE  StreamInvariant'
<1>1. StreamTypeOK /\ ReaderFits /\ reader.pc = "status" /\ reader.pc # "closed"
  BY DEF StreamInvariant, GetStatus
<1>2. UNCHANGED <<runVars, hookVars, calls, trouble>>
  BY DEF GetStatus
<1>3. CASE Ended(Len(facts))
  <2>1. reader' = [reader EXCEPT !.pc = "tail"] /\ UNCHANGED wire
    BY <1>3 DEF GetStatus
  <2>2. /\ reader' \in Reader /\ reader'.durable = reader.durable /\ reader'.redis = reader.redis
        /\ reader'.pc = "tail" /\ reader'.upto = reader.upto /\ reader'.batch = reader.batch
    BY <1>1, <2>1, ReaderNumbers DEF Reader
  <2>3. ReaderFits'
    BY <1>1, <1>2, <1>3, <2>2 DEF ReaderFits, Ended, runVars
  <2> QED BY <1>1, <1>2, <2>1, <2>2, <2>3, ReaderMoves
<1>4. CASE ~Ended(Len(facts))
  <2>1. reader' = Continue(reader.upto) /\ wire' = wire \o FactFrames(reader.upto)
    BY <1>4 DEF GetStatus
  <2>2. /\ reader' \in Reader
        /\ reader'.durable = reader.upto /\ reader'.redis = reader.redis
        /\ reader'.upto = reader.upto
        /\ reader'.batch \in {reader.batch, <<>>}
        /\ reader'.pc \in {"read", "entries", "list"}
    BY <1>1, <2>1, ContinueFits
  <2>3. reader.upto \in Nat /\ reader.durable <= reader.upto /\ reader.upto <= Len(facts)
    BY <1>1, TypesOfTheStream DEF ReaderFits
  <2>4. WireFits' /\ wire' \in Seq(Frame)
    BY <1>1, <1>2, <2>1, <2>2, <2>3, FactsAreSent DEF runVars
  <2>5. ReaderFits'
    BY <1>1, <1>2, <2>2, <2>3 DEF ReaderFits, runVars
  <2> QED BY <1>2, <2>2, <2>4, <2>5, OnlyTheReader
<1> QED BY <1>3, <1>4

LEMMA ListTailKeeps ==
  ASSUME StreamInvariant, ListTail
  PROVE  StreamInvariant'
<1>1. StreamTypeOK /\ ReaderFits /\ reader.pc = "tail" /\ reader.pc # "closed"
  BY DEF StreamInvariant, ListTail
<1>2. /\ UNCHANGED <<runVars, hookVars, calls, trouble>>
      /\ wire' = wire \o FactFrames(Len(facts))
      /\ reader' = [reader EXCEPT !.pc = "done", !.durable = Len(facts)]
  BY DEF ListTail
<1>3. Len(facts) \in 0 .. MaxFacts /\ Len(facts) \in Nat /\ reader \in Reader /\ facts' = facts
  BY <1>1, <1>2, TypesOfTheStream, ReaderNumbers DEF runVars
<1>4. /\ reader' \in Reader /\ reader'.durable = Len(facts) /\ reader'.redis = reader.redis
      /\ reader'.pc = "done" /\ reader'.upto = reader.upto /\ reader'.batch = reader.batch
  BY <1>2, <1>3 DEF Reader
<1>5. WireFits' /\ wire' \in Seq(Frame)
  <2>1. reader.durable <= Len(facts) /\ Len(facts) <= Len(facts)
    BY <1>1, <1>3 DEF ReaderFits
  <2> QED BY <1>1, <1>2, <1>3, <1>4, <2>1, FactsAreSent
<1>6. ReaderFits'
  BY <1>1, <1>3, <1>4 DEF ReaderFits, Ended
<1> QED BY <1>2, <1>4, <1>5, <1>6, OnlyTheReader

LEMMA ReadBusKeeps ==
  ASSUME StreamInvariant, ReadBus
  PROVE  StreamInvariant'
<1> DEFINE first == IF reader.redis > lost THEN reader.redis + 1 ELSE lost + 1
           n == live + 1 - first
           entries == [i \in 1 .. n |-> first + i - 1]
<1>1. StreamTypeOK /\ ReaderFits
  BY DEF StreamInvariant
<1>2. /\ reader.pc = "read" /\ UNCHANGED <<runVars, wire, hookVars, calls, trouble>>
      /\ \/ /\ entries # <<>>
            /\ reader' = [reader EXCEPT !.pc = "list", !.for = "batch", !.batch = entries]
         \/ reader' = [reader EXCEPT !.pc = "list", !.for = "round"]
  BY DEF ReadBus
<1>3. /\ reader \in Reader /\ reader.redis \in Nat /\ facts' = facts
      /\ live \in 0 .. MaxLive /\ live \in Nat /\ lost \in Nat /\ MaxLive \in Nat
  BY <1>1, <1>2, TypesOfTheStream, ReaderNumbers, NumbersOfTheStream DEF StreamTypeOK, runVars
<1>4. first \in Nat /\ first > reader.redis /\ first > 0
  BY <1>3
<1>5. CASE /\ entries # <<>>
           /\ reader' = [reader EXCEPT !.pc = "list", !.for = "batch", !.batch = entries]
  <2>1. n \in Nat
    <3>1. n \notin Nat => 1 .. n = {}
      BY <1>3, <1>4
    <3>2. 1 .. n = {} => entries = <<>>
      OBVIOUS
    <3> QED BY <1>5, <3>1, <3>2
  <2>2. /\ \A i \in 1 .. n : entries[i] = first + i - 1
        /\ \A i \in 1 .. n : first + i - 1 \in 1 .. MaxLive
    BY <1>3, <1>4
  <2>3. entries \in [1 .. n -> 1 .. MaxLive]
    BY <2>2
  <2> HIDE DEF n, entries
  <2>4. entries \in Seq(1 .. MaxLive) /\ Len(entries) = n
    BY <2>1, <2>3, TableIsSequence
  <2>5. /\ reader' \in Reader /\ reader'.durable = reader.durable /\ reader'.redis = reader.redis
        /\ reader'.pc = "list" /\ reader'.upto = reader.upto /\ reader'.batch = entries
    BY <1>3, <1>5, <2>4 DEF Reader
  <2>6. /\ \A i \in 1 .. n : entries[i] > reader.redis
        /\ \A i, j \in 1 .. n : i < j => entries[i] < entries[j]
    <3> HIDE DEF first
    <3> QED BY <1>3, <1>4, <2>1, <2>2
  <2>7. ReaderFits'
    BY <1>1, <1>3, <2>4, <2>5, <2>6 DEF ReaderFits
  <2>8. reader.pc # "closed"
    BY <1>2
  <2> QED BY <1>2, <2>5, <2>7, <2>8, ReaderMoves
<1>6. CASE reader' = [reader EXCEPT !.pc = "list", !.for = "round"]
  <2>1. /\ reader' \in Reader /\ reader'.durable = reader.durable /\ reader'.redis = reader.redis
        /\ reader'.pc = "list" /\ reader'.upto = reader.upto /\ reader'.batch = reader.batch
    BY <1>3, <1>6 DEF Reader
  <2>2. ReaderFits'
    BY <1>1, <1>3, <2>1 DEF ReaderFits
  <2>3. reader.pc # "closed"
    BY <1>2
  <2> QED BY <1>2, <2>1, <2>2, <2>3, ReaderMoves
<1> QED BY <1>2, <1>5, <1>6

LEMMA EndRoundKeeps ==
  ASSUME StreamInvariant, EndRound
  PROVE  StreamInvariant'
<1>1. StreamTypeOK /\ ReaderFits /\ reader \in Reader
  BY ReaderNumbers DEF StreamInvariant
<1>2. /\ reader.pc = "entries" /\ reader.pc # "closed"
      /\ reader' = [reader EXCEPT !.pc = "list", !.for = "round"]
      /\ UNCHANGED <<runVars, wire, hookVars, calls, trouble>>
  BY DEF EndRound
<1>3. /\ reader' \in Reader /\ reader'.durable = reader.durable /\ reader'.redis = reader.redis
      /\ reader'.pc = "list" /\ reader'.upto = reader.upto /\ reader'.batch = reader.batch
  BY <1>1, <1>2 DEF Reader
<1>4. ReaderFits'
  BY <1>1, <1>2, <1>3 DEF ReaderFits, runVars
<1> QED BY <1>2, <1>3, <1>4, ReaderMoves

LEMMA SendEntryKeeps ==
  ASSUME StreamInvariant, SendEntry
  PROVE  StreamInvariant'
<1> DEFINE entry == Head(reader.batch)
           frame == [type |-> "entry", durable |-> reader.durable, redis |-> entry]
<1>1. StreamTypeOK /\ ReaderFits /\ WireFits /\ reader \in Reader
  BY ReaderNumbers DEF StreamInvariant
<1>2. /\ reader.pc = "entries" /\ reader.pc # "closed" /\ reader.batch # <<>>
      /\ UNCHANGED <<runVars, hookVars, calls, trouble>>
  BY DEF SendEntry
<1>3. CASE /\ Watermark[entry] > reader.durable
           /\ reader' = [reader EXCEPT !.pc = "list", !.for = "entry"]
           /\ UNCHANGED wire
  <2>1. /\ reader' \in Reader /\ reader'.durable = reader.durable /\ reader'.redis = reader.redis
        /\ reader'.pc = "list" /\ reader'.upto = reader.upto /\ reader'.batch = reader.batch
    BY <1>1, <1>3 DEF Reader
  <2>2. ReaderFits'
    BY <1>1, <1>2, <2>1 DEF ReaderFits, runVars
  <2> QED BY <1>2, <1>3, <2>1, <2>2, ReaderMoves
<1>4. CASE /\ ~(Watermark[entry] > reader.durable)
           /\ reader' = [reader EXCEPT !.redis = entry, !.batch = Tail(@)]
           /\ wire' = Append(wire, frame)
  <2> DEFINE rest == Tail(reader.batch)
  <2>1. /\ reader.batch \in Seq(1 .. MaxLive) /\ reader.durable \in 0 .. MaxFacts
        /\ reader.durable \in Nat /\ reader.redis \in Nat /\ MaxLive \in Nat
    BY <1>1, ReaderNumbers, TypesOfTheStream, NumbersOfTheStream
  <2>2. /\ entry \in 1 .. MaxLive /\ rest \in Seq(1 .. MaxLive)
        /\ Len(reader.batch) \in Nat /\ Len(reader.batch) > 0
        /\ Len(rest) = Len(reader.batch) - 1 /\ entry = reader.batch[1]
        /\ \A i \in 1 .. Len(rest) : rest[i] = reader.batch[i + 1]
    BY <1>2, <2>1, HeadAndRest
  <2>3. /\ \A i \in 1 .. Len(reader.batch) : reader.batch[i] > reader.redis
        /\ \A i, j \in 1 .. Len(reader.batch) : i < j => reader.batch[i] < reader.batch[j]
    BY <1>1 DEF ReaderFits
  <2> HIDE DEF entry, rest
  <2>4. entry \in Nat /\ entry \in 0 .. MaxLive /\ entry > reader.redis
    BY <2>1, <2>2, <2>3
  <2>5. /\ \A i \in 1 .. Len(rest) : rest[i] > entry
        /\ \A i, j \in 1 .. Len(rest) : i < j => rest[i] < rest[j]
    <3>1. \A i \in 1 .. Len(rest) : i + 1 \in 1 .. Len(reader.batch) /\ 1 < i + 1
      BY <2>2
    <3>2. 1 \in 1 .. Len(reader.batch)
      BY <2>2
    <3> QED BY <2>2, <2>3, <3>1, <3>2
  <2>6. /\ reader' \in Reader /\ reader'.durable = reader.durable /\ reader'.redis = entry
        /\ reader'.pc = "entries" /\ reader'.upto = reader.upto /\ reader'.batch = rest
    BY <1>1, <1>2, <1>4, <2>2, <2>4 DEF Reader, rest
  <2>7. ReaderFits'
    BY <1>1, <1>2, <2>5, <2>6 DEF ReaderFits, runVars
  <2>8. frame \in Frame
    BY <2>1, <2>4 DEF Frame
  <2>9. Follows(<<reader.durable, reader.redis>>, frame)
    <3>1. Watermark[entry] <= reader.durable
      <4>1. Watermark[entry] \in 0 .. MaxFacts
        BY <2>2, NumbersOfTheStream, ElementOfSeq DEF MaxLive
      <4>2. Watermark[entry] \in Nat
        BY <4>1, NumbersOfTheStream
      <4> QED BY <1>4, <2>1, <4>2
    <3> QED BY <2>4, <3>1 DEF Follows
  <2>10. Chain(<<reader.durable, reader.redis>>, <<frame>>, <<reader.durable, entry>>)
    <3> HIDE DEF frame
    <3>1. Len(<<frame>>) = 1 /\ <<frame>>[1] = frame
      OBVIOUS
    <3>2. CursorAfter(<<reader.durable, reader.redis>>, <<frame>>, 1) = Id(frame)
      BY DEF CursorAfter
    <3>3. Id(frame) = <<reader.durable, entry>>
      BY DEF Id, frame
    <3>4. CursorAfter(<<reader.durable, reader.redis>>, <<frame>>, 0) = <<reader.durable, reader.redis>>
      BY DEF CursorAfter
    <3>5. \A i \in 1 .. 1 : i = 1 /\ i - 1 = 0
      OBVIOUS
    <3> QED BY <2>9, <3>1, <3>2, <3>3, <3>4, <3>5 DEF Chain
  <2>11. wire \in Seq(Frame) /\ Chain(cursor, wire, <<reader.durable, reader.redis>>) /\ pc = "follow"
    BY <1>1, <1>2, ReaderIsFollowed DEF StreamTypeOK, WireFits
  <2>12. wire' = wire \o <<frame>> /\ <<frame>> \in Seq(Frame)
    <3> HIDE DEF frame
    <3> QED BY <1>4, <2>8, <2>11
  <2>13. wire' \in Seq(Frame) /\ Chain(cursor, wire', <<reader.durable, entry>>)
    <3> DEFINE here == <<reader.durable, reader.redis>>
               there == <<reader.durable, entry>>
               one == <<frame>>
    <3>1. /\ Chain(cursor, wire, here) /\ Chain(here, one, there)
          /\ wire \in Seq(Frame) /\ one \in Seq(Frame) /\ wire' = wire \o one
      BY <2>10, <2>11, <2>12
    <3> HIDE DEF here, there, one, frame
    <3>2. Chain(cursor, wire \o one, there)
      BY <3>1, ChainGrows
    <3>3. wire' \in Seq(Frame) /\ Chain(cursor, wire', there)
      BY <3>1, <3>2
    <3> QED BY <3>3 DEF there
  <2>14. \A i \in 1 .. Len(wire') : wire'[i].durable <= Len(facts)
    <3>1. \A i \in 1 .. Len(wire) : wire[i].durable <= Len(facts)
      BY <1>1 DEF WireFits
    <3>2. frame.durable <= Len(facts)
      BY <1>1 DEF ReaderFits
    <3> HIDE DEF frame
    <3>3. Len(wire') = Len(wire) + 1 /\ wire'[Len(wire) + 1] = frame
          /\ \A i \in 1 .. Len(wire) : wire'[i] = wire[i]
      BY <1>4, <2>11
    <3> QED BY <2>11, <3>1, <3>2, <3>3
  <2>15. WireFits'
    BY <1>2, <2>6, <2>11, <2>13, <2>14 DEF WireFits, runVars, hookVars
  <2> QED BY <1>2, <2>6, <2>7, <2>13, <2>15, OnlyTheReader
<1> QED BY <1>3, <1>4 DEF SendEntry

-----------------------------------------------------------------------------
(* The stream of the hook.                                                 *)

LEMMA ClosedFits ==
  ASSUME reader' = Closed, UNCHANGED facts, StreamTypeOK
  PROVE  Closed \in Reader /\ ReaderFits'
<1>1. 0 <= Len(facts) /\ 0 \in 0 .. MaxFacts /\ 0 \in 0 .. MaxLive /\ Len(<<>>) = 0
  BY TypesOfTheStream, NumbersOfTheStream
<1>2. <<>> \in Seq(1 .. MaxLive)
  OBVIOUS
<1>3. Closed \in Reader
  BY <1>1, <1>2 DEF Closed, Reader
<1>4. /\ reader'.durable = 0 /\ reader'.upto = 0 /\ reader'.pc = "closed" /\ reader'.batch = <<>>
      /\ facts' = facts
  BY DEF Closed
<1>5. ReaderFits'
  BY <1>1, <1>4 DEF ReaderFits
<1> QED BY <1>3, <1>5

LEMMA ConnectKeeps ==
  ASSUME StreamInvariant, Connect
  PROVE  StreamInvariant'
<1>1. StreamTypeOK /\ HistoryFits /\ WireFits /\ GotFits /\ CallsFit /\ PatienceFits /\ ViewFits
  BY DEF StreamInvariant
<1>2. /\ pc = "connect" /\ pc' = "follow" /\ paused' = FALSE
      /\ reader' = [Closed EXCEPT !.pc = "list", !.durable = cursor[1], !.redis = cursor[2]]
      /\ UNCHANGED <<facts, live, lost, wire, generation, busy, wish, tries, attempt, cursor, seen,
                     got, shown, pause, calls, trouble>>
  BY DEF Connect, runVars
<1>3. cursor \in (0 .. MaxFacts) \X (0 .. MaxLive)
  BY <1>1 DEF StreamTypeOK, Cursor
<1>4. cursor[1] \in 0 .. MaxFacts /\ cursor[2] \in 0 .. MaxLive /\ cursor = <<cursor[1], cursor[2]>>
  BY <1>3
<1>5. 0 \in 0 .. MaxFacts /\ <<>> \in Seq(1 .. MaxLive) /\ Len(<<>>) = 0
  BY NumbersOfTheStream
<1>6. /\ reader' \in Reader /\ reader'.durable = cursor[1] /\ reader'.redis = cursor[2]
      /\ reader'.pc = "list" /\ reader'.upto = 0 /\ reader'.batch = <<>>
  BY <1>2, <1>4, <1>5 DEF Reader, Closed
<1>7. StreamTypeOK'
  BY <1>1, <1>2, <1>6 DEF StreamTypeOK
<1>8. ReaderFits'
  <2>1. cursor[1] <= Len(facts) /\ 0 <= Len(facts)
    BY <1>1, TypesOfTheStream DEF GotFits
  <2> QED BY <1>2, <1>5, <1>6, <2>1 DEF ReaderFits
<1>9. WireFits'
  <2>1. wire = <<>>
    BY <1>1, <1>2 DEF WireFits
  <2>2. Chain(cursor, <<>>, <<cursor[1], cursor[2]>>)
    BY <1>4, ChainOfNone
  <2>3. \A i \in 1 .. Len(wire) : wire[i].durable <= Len(facts)
    BY <1>1 DEF WireFits
  <2> QED BY <1>2, <1>6, <2>1, <2>2, <2>3 DEF WireFits
<1>10. HistoryFits' /\ GotFits' /\ ViewFits'
  BY <1>1, <1>2, GotStays DEF HistoryFits, Waiting, ViewFits
<1>11. CallsFit'
  <2>1. \A c \in calls : ~Current(c)
    BY <1>1, <1>2 DEF CallsFit, Expects
  <2> QED BY <1>1, <1>2, <2>1 DEF CallsFit, Current
<1>12. PatienceFits'
  <2>1. Interruptions' = Interruptions
    BY <1>1, <1>2, InterruptionsStay
  <2> QED BY <1>1, <1>2, <2>1 DEF PatienceFits, PatienceIsSpentOnTrouble
<1> QED BY <1>7, <1>8, <1>9, <1>10, <1>11, <1>12 DEF StreamInvariant

\* The hook asks for a snapshot when its stream is over.
LEMMA CalibrateFits ==
  ASSUME StreamInvariant, pc \in {"connect", "follow"}, Calibrate, UNCHANGED <<facts, generation>>
  PROVE  /\ calls' \subseteq Call /\ reader' \in Reader /\ wire' \in Seq(Frame)
         /\ ReaderFits' /\ WireFits' /\ CallsFit'
         /\ \A c \in calls' : c.gen = generation' => c.at = 0
<1> DEFINE new == [gen |-> generation, type |-> "snapshot", arg |-> 0, at |-> 0]
<1>1. StreamTypeOK /\ CallsFit
  BY DEF StreamInvariant
<1>2. /\ pc' = "calibrate" /\ calls' = calls \union {new}
      /\ reader' = Closed /\ wire' = <<>> /\ facts' = facts /\ generation' = generation
  BY DEF Calibrate, Abort, Request
<1>3. /\ generation \in 0 .. MaxCommands /\ generation <= generation
      /\ Len(facts) \in Nat /\ 0 <= Len(facts) /\ 0 \in 0 .. MaxFacts
  BY <1>1, GenerationNumber
<1>4. new \in Call /\ new.gen = generation /\ new.at = 0 /\ new.arg = 0 /\ new.type = "snapshot"
  BY <1>3 DEF Call
<1> HIDE DEF new
<1>5. \A c \in calls : c.gen # generation
  BY <1>1 DEF CallsFit, Current, Expects
<1>6. calls' \subseteq Call
  BY <1>1, <1>2, <1>4 DEF StreamTypeOK
<1>7. CallsFit'
  BY <1>1, <1>2, <1>3, <1>4, <1>5 DEF CallsFit, Current, Expects
<1>8. WireFits'
  BY <1>2 DEF WireFits, Closed
<1>9. reader' \in Reader /\ wire' \in Seq(Frame) /\ ReaderFits'
  BY <1>1, <1>2, ClosedFits
<1> QED BY <1>2, <1>4, <1>5, <1>6, <1>7, <1>8, <1>9

LEMMA StreamEndsKeeps ==
  ASSUME StreamInvariant, StreamEnds
  PROVE  StreamInvariant'
<1>1. StreamTypeOK /\ HistoryFits /\ ReaderFits /\ GotFits /\ PatienceFits /\ ViewFits
  BY DEF StreamInvariant
<1>2. /\ pc = "follow" /\ reader.pc = "done" /\ Calibrate /\ pc' = "calibrate"
      /\ UNCHANGED <<facts, live, lost, generation, busy, wish, tries, attempt, paused, cursor, seen,
                     got, shown, pause, trouble>>
  BY DEF StreamEnds, Calibrate, runVars
<1>3. /\ calls' \subseteq Call /\ reader' \in Reader /\ wire' \in Seq(Frame)
      /\ ReaderFits' /\ WireFits' /\ CallsFit'
      /\ \A c \in calls' : c.gen = generation' => c.at = 0
  BY <1>2, CalibrateFits
<1>4. StreamTypeOK'
  BY <1>1, <1>2, <1>3 DEF StreamTypeOK
<1>5. HistoryFits' /\ GotFits' /\ ViewFits'
  BY <1>1, <1>2, GotStays DEF HistoryFits, Waiting, ViewFits
<1>6. PatienceFits'
  <2>1. Interruptions' = Interruptions /\ Ended(Len(facts))
    BY <1>1, <1>2, InterruptionsStay DEF ReaderFits
  <2> QED BY <1>1, <1>2, <1>3, <2>1 DEF PatienceFits, PatienceIsSpentOnTrouble, Ended, Current
<1> QED BY <1>3, <1>4, <1>5, <1>6 DEF StreamInvariant

LEMMA DisconnectKeeps ==
  ASSUME StreamInvariant, Disconnect
  PROVE  StreamInvariant'
<1>1. StreamTypeOK /\ HistoryFits /\ GotFits /\ PatienceFits /\ ViewFits
  BY DEF StreamInvariant
<1>2. /\ pc \in {"connect", "follow"} /\ Calibrate /\ pc' = "calibrate"
      /\ paused' = FALSE /\ trouble' = trouble + 1 /\ trouble < MaxTrouble
      /\ UNCHANGED <<facts, live, lost, generation, busy, wish, tries, attempt, cursor, seen,
                     got, shown, pause>>
  BY DEF Disconnect, Calibrate, runVars
<1>3. /\ calls' \subseteq Call /\ reader' \in Reader /\ wire' \in Seq(Frame)
      /\ ReaderFits' /\ WireFits' /\ CallsFit'
  BY <1>2, CalibrateFits
<1>4. trouble \in Nat /\ trouble' \in Nat /\ trouble' \in 0 .. MaxTrouble /\ attempt \in Nat
      /\ Interruptions \in Nat
  <2>1. trouble \in Nat /\ attempt \in Nat /\ MaxTrouble \in Nat /\ Interruptions \in Nat
    BY <1>1, TypesOfTheStream, NumbersOfTheStream, InterruptionsAreCounted
  <2> QED BY <1>2, <2>1
<1>5. StreamTypeOK'
  BY <1>1, <1>2, <1>3, <1>4 DEF StreamTypeOK
<1>6. HistoryFits' /\ GotFits' /\ ViewFits'
  BY <1>1, <1>2, GotStays DEF HistoryFits, Waiting, ViewFits
<1>7. PatienceFits'
  <2>1. Interruptions' = Interruptions + (trouble' - trouble)
    BY <1>1, <1>2, <1>4, InterruptionsMove
  <2>2. attempt <= Interruptions
    BY <1>1 DEF PatienceFits
  <2>3. attempt < Interruptions'
    BY <1>2, <1>4, <2>1, <2>2
  <2>4. attempt' = attempt /\ attempt <= Interruptions'
    BY <1>2, <1>4, <2>1, <2>2
  <2> QED BY <1>2, <2>3, <2>4 DEF PatienceFits, PatienceIsSpentOnTrouble
<1> QED BY <1>3, <1>5, <1>6, <1>7 DEF StreamInvariant

\* A frame is counted when it is applied.
LEMMA OneMoreIsCounted ==
  ASSUME NEW n \in Nat, NEW A \in SUBSET (1 .. n)
  PROVE  Cardinality(A) \in Nat /\ Cardinality(A \union {n + 1}) = Cardinality(A) + 1
<1>1. IsFiniteSet(A)
  <2>1. 1 \in Int /\ n \in Int
    OBVIOUS
  <2> QED BY <2>1, FS_Interval, FS_Subset
<1>2. n + 1 \notin A
  OBVIOUS
<1> QED BY <1>1, <1>2, FS_CardinalityType, FS_AddElement

FactCount(frames, n) == Cardinality({j \in 1 .. n : IsFact(frames[j])})

LEMMA FactsAreCounted ==
  ASSUME NEW n \in Nat, NEW s, NEW t, \A j \in 1 .. n : t[j] = s[j]
  PROVE  /\ \A i \in 0 .. n : FactCount(t, i) = FactCount(s, i)
         /\ FactCount(s, n) \in Nat
         /\ FactCount(t, n + 1) = IF IsFact(t[n + 1]) THEN FactCount(s, n) + 1 ELSE FactCount(s, n)
<1> DEFINE A == {j \in 1 .. n : IsFact(s[j])}
           B == {j \in 1 .. n + 1 : IsFact(t[j])}
<1>1. \A i \in 0 .. n : \A j \in 1 .. i : j \in 1 .. n
  OBVIOUS
<1>2. ASSUME NEW i \in 0 .. n
      PROVE  {j \in 1 .. i : IsFact(t[j])} = {j \in 1 .. i : IsFact(s[j])}
  BY <1>1
<1>3. A \in SUBSET (1 .. n)
  OBVIOUS
<1>4. \A j \in 1 .. n + 1 : j \in 1 .. n \/ j = n + 1
  OBVIOUS
<1>5. n + 1 \in 1 .. n + 1 /\ \A j \in 1 .. n : j \in 1 .. n + 1
  OBVIOUS
<1>6. B = IF IsFact(t[n + 1]) THEN A \union {n + 1} ELSE A
  BY <1>4, <1>5
<1>7. FactCount(s, n) = Cardinality(A) /\ FactCount(t, n + 1) = Cardinality(B)
  BY DEF FactCount
<1> HIDE DEF A, B
<1>8. Cardinality(A) \in Nat /\ Cardinality(A \union {n + 1}) = Cardinality(A) + 1
  BY <1>3, OneMoreIsCounted
<1> QED BY <1>2, <1>6, <1>7, <1>8 DEF FactCount

\* The frame that comes next is new to the hook.
LEMMA NextFrame ==
  ASSUME StreamInvariant, pc = "follow", wire # <<>>, NEW frame, frame = Head(wire)
  PROVE  /\ frame \in Frame /\ frame.durable \in Nat /\ frame.redis \in Nat
         /\ Follows(cursor, frame)
         /\ frame.durable <= Len(facts)
         /\ Id(frame) \notin seen
         /\ Tail(wire) \in Seq(Frame)
         /\ Chain(Id(frame), Tail(wire), <<reader.durable, reader.redis>>)
         /\ \A i \in 1 .. Len(Tail(wire)) : Tail(wire)[i].durable <= Len(facts)
<1>1. StreamTypeOK /\ WireFits /\ GotFits
  BY DEF StreamInvariant
<1>2. wire \in Seq(Frame) /\ Chain(cursor, wire, <<reader.durable, reader.redis>>)
      /\ \A i \in 1 .. Len(wire) : wire[i].durable <= Len(facts)
  BY <1>1 DEF StreamTypeOK, WireFits
<1>3. /\ frame \in Frame /\ frame = wire[1] /\ Tail(wire) \in Seq(Frame)
      /\ Len(wire) \in Nat /\ Len(wire) > 0 /\ Len(Tail(wire)) = Len(wire) - 1
      /\ \A i \in 1 .. Len(Tail(wire)) : Tail(wire)[i] = wire[i + 1]
  BY <1>2, HeadAndRest
<1>4. frame.durable \in Nat /\ frame.redis \in Nat
  BY <1>3, FrameNumbers
<1>5. Follows(cursor, frame) /\ Chain(Id(frame), Tail(wire), <<reader.durable, reader.redis>>)
  <2> DEFINE end == <<reader.durable, reader.redis>>
  <2>1. Chain(cursor, wire, end)
    BY <1>2
  <2> HIDE DEF end
  <2>2. Follows(cursor, frame) /\ Chain(Id(frame), Tail(wire), end)
    BY <1>2, <2>1, ChainIsConsumed
  <2> QED BY <2>2 DEF end
<1>6. frame.durable <= Len(facts)
  <2>1. 1 \in 1 .. Len(wire)
    BY <1>3
  <2> QED BY <1>2, <1>3, <2>1
<1>7. \A i \in 1 .. Len(Tail(wire)) : Tail(wire)[i].durable <= Len(facts)
  <2>1. \A i \in 1 .. Len(Tail(wire)) : i + 1 \in 1 .. Len(wire)
    BY <1>3
  <2> QED BY <1>2, <1>3, <2>1
<1>8. Id(frame) \notin seen
  <2>1. cursor[1] \in Nat /\ cursor[2] \in Nat
    BY <1>1, TypesOfTheStream
  <2>2. \A id \in seen : id[1] <= cursor[1] /\ id[2] <= cursor[2]
    BY <1>1 DEF GotFits
  <2>3. Id(frame)[1] = frame.durable /\ Id(frame)[2] = frame.redis
    BY DEF Id
  <2>4. frame.durable > cursor[1] \/ frame.redis > cursor[2]
    BY <1>4, <1>5, <2>1 DEF Follows
  <2> QED BY <1>4, <2>1, <2>2, <2>3, <2>4
<1> QED BY <1>3, <1>4, <1>5, <1>6, <1>7, <1>8

LEMMA AppliedFits ==
  ASSUME StreamInvariant, pc = "follow", wire # <<>>, NEW frame, frame = Head(wire),
         facts' = facts, cursor' = Id(frame), seen' = seen \union {Id(frame)},
         got' = Append(got, frame)
  PROVE  /\ cursor' \in Cursor /\ seen' \subseteq Cursor /\ got' \in Seq(Frame)
         /\ GotFits'
<1>1. StreamTypeOK /\ GotFits
  BY DEF StreamInvariant
<1>2. /\ frame \in Frame /\ frame.durable \in Nat /\ frame.redis \in Nat
      /\ Follows(cursor, frame) /\ frame.durable <= Len(facts)
  BY NextFrame
<1>3. /\ Id(frame) \in Cursor /\ Id(frame)[1] = frame.durable /\ Id(frame)[2] = frame.redis
  BY <1>2, FrameNumbers DEF Id, Cursor
<1>4. cursor' \in Cursor /\ seen' \subseteq Cursor
  BY <1>1, <1>3 DEF StreamTypeOK
<1>5. /\ got \in Seq(Frame) /\ Len(got) \in Nat
      /\ cursor[1] \in Nat /\ cursor[2] \in Nat /\ Len(facts) \in Nat
  BY <1>1, TypesOfTheStream DEF StreamTypeOK
<1> DEFINE n == Len(got)
<1>6. /\ got' \in Seq(Frame) /\ Len(got') = n + 1
      /\ \A i \in 1 .. n : got'[i] = got[i]
      /\ got'[n + 1] = frame
  BY <1>2, <1>5
<1>7. \A i \in 1 .. n : got[i].durable \in Nat /\ got[i].redis \in Nat
  BY <1>1, GotNumbers
<1>8. /\ cursor[1] <= frame.durable /\ cursor[2] <= frame.redis
      /\ IsFact(frame) => frame.durable = cursor[1] + 1
      /\ ~IsFact(frame) => /\ frame.durable = cursor[1] /\ frame.redis > cursor[2]
                           /\ Watermark[frame.redis] <= frame.durable
  BY <1>2, <1>5 DEF Follows, IsFact, Frame
<1>9. /\ cursor[1] = IF got = <<>> THEN 0 ELSE got[n].durable
      /\ cursor[1] = FactCount(got, n)
      /\ \A id \in seen : id[1] <= cursor[1] /\ id[2] <= cursor[2]
  BY <1>1 DEF GotFits, FactCount
<1>10. ASSUME NEW i \in 1 .. n
       PROVE  /\ got[i].durable <= cursor[1] /\ got[i].redis <= cursor[2]
              /\ IsFact(got[i]) => got[i].durable > 0 /\ got[i].durable = FactCount(got, i)
              /\ ~IsFact(got[i]) => got[i].redis > 0 /\ Watermark[got[i].redis] <= got[i].durable
              /\ \A m \in 1 .. got[i].durable : \E j \in 1 .. i : IsFact(got[j]) /\ got[j].durable = m
  BY <1>1 DEF GotFits, FactCount
<1>11. \A i, j \in 1 .. n :
         i < j /\ ~IsFact(got[i]) /\ ~IsFact(got[j]) => got[i].redis < got[j].redis
  BY <1>1 DEF GotFits
<1>12. /\ \A i \in 0 .. n : FactCount(got', i) = FactCount(got, i)
       /\ FactCount(got, n) \in Nat
       /\ FactCount(got', n + 1) = IF IsFact(frame) THEN FactCount(got, n) + 1 ELSE FactCount(got, n)
  <2>1. n \in Nat /\ \A j \in 1 .. n : got'[j] = got[j]
    BY <1>5, <1>6
  <2> HIDE DEF n
  <2>2. ASSUME NEW t, t = got'
        PROVE  /\ \A i \in 0 .. n : FactCount(t, i) = FactCount(got, i)
               /\ FactCount(got, n) \in Nat
               /\ FactCount(t, n + 1) = IF IsFact(t[n + 1]) THEN FactCount(got, n) + 1 ELSE FactCount(got, n)
    <3>1. \A j \in 1 .. n : t[j] = got[j]
      BY <2>1, <2>2
    <3> QED BY <2>1, <3>1, FactsAreCounted
  <2> QED BY <1>6, <2>2
<1> HIDE DEF n
<1>13. n \in Nat /\ n + 1 \in 1 .. n + 1 /\ \A i \in 1 .. n + 1 : i \in 1 .. n \/ i = n + 1
  BY <1>5 DEF n
<1>14. cursor'[1] <= Len(facts') /\ cursor'[1] = frame.durable /\ cursor'[2] = frame.redis
  BY <1>2, <1>3
<1>15. \A id \in seen' : id[1] <= cursor'[1] /\ id[2] <= cursor'[2]
  <2>1. \A id \in seen : id[1] \in Nat /\ id[2] \in Nat
    <3>1. seen \subseteq (0 .. MaxFacts) \X (0 .. MaxLive)
      BY <1>1 DEF StreamTypeOK, Cursor
    <3> QED BY <3>1, NumbersOfTheStream
  <2>2. \A id \in seen : id[1] <= frame.durable /\ id[2] <= frame.redis
    BY <1>2, <1>5, <1>8, <1>9, <2>1
  <2>3. frame.durable <= frame.durable /\ frame.redis <= frame.redis
    BY <1>2
  <2> QED BY <1>3, <1>14, <2>2, <2>3
<1>16. got' # <<>> /\ cursor'[1] = got'[n + 1].durable
  BY <1>6, <1>13, <1>14
<1>17. cursor'[1] = FactCount(got', n + 1)
  BY <1>8, <1>9, <1>12, <1>14
<1>18. ASSUME NEW i \in 1 .. n + 1
       PROVE  /\ got'[i].durable <= cursor'[1] /\ got'[i].redis <= cursor'[2]
              /\ IsFact(got'[i]) => got'[i].durable > 0 /\ got'[i].durable = FactCount(got', i)
              /\ ~IsFact(got'[i]) => got'[i].redis > 0 /\ Watermark[got'[i].redis] <= got'[i].durable
              /\ \A m \in 1 .. got'[i].durable : \E j \in 1 .. i : IsFact(got'[j]) /\ got'[j].durable = m
  <2>1. CASE i \in 1 .. n
    <3>1. got'[i] = got[i] /\ i \in 0 .. n /\ \A j \in 1 .. i : j \in 1 .. n
      BY <1>6, <1>13, <2>1
    <3>2. got[i].durable <= frame.durable /\ got[i].redis <= frame.redis
      BY <1>2, <1>5, <1>7, <1>8, <1>10, <2>1
    <3>3. \A m \in 1 .. got'[i].durable : \E j \in 1 .. i : IsFact(got'[j]) /\ got'[j].durable = m
      BY <1>6, <1>10, <2>1, <3>1
    <3> QED BY <1>10, <1>12, <1>14, <2>1, <3>1, <3>2, <3>3
  <2>2. CASE i = n + 1
    <3>1. got'[i] = frame
      BY <1>6, <2>2
    <3>2. ASSUME NEW m \in 1 .. frame.durable
          PROVE  \E j \in 1 .. i : IsFact(got'[j]) /\ got'[j].durable = m
      <4>1. CASE IsFact(frame) /\ m = frame.durable
        BY <1>13, <2>2, <3>1, <4>1
      <4>2. CASE ~(IsFact(frame) /\ m = frame.durable)
        <5>1. m \in 1 .. cursor[1]
          BY <1>2, <1>5, <1>8, <4>2
        <5>2. n \in 1 .. n /\ cursor[1] = got[n].durable
          <6>1. got # <<>>
            BY <1>5, <1>9, <5>1
          <6>2. n # 0
            BY <1>5, <6>1 DEF n
          <6> QED BY <1>9, <1>13, <6>1, <6>2
        <5>3. PICK j \in 1 .. n : IsFact(got[j]) /\ got[j].durable = m
          BY <1>10, <5>1, <5>2
        <5>4. j \in 1 .. i
          BY <1>13, <2>2
        <5> QED BY <1>6, <5>3, <5>4
      <4> QED BY <4>1, <4>2
    <3>3. frame.durable <= frame.durable /\ frame.redis <= frame.redis
          /\ (IsFact(frame) => frame.durable > 0) /\ (~IsFact(frame) => frame.redis > 0)
      BY <1>2, <1>5, <1>8
    <3> QED BY <1>8, <1>14, <1>17, <2>2, <3>1, <3>2, <3>3
  <2> QED BY <1>13, <2>1, <2>2
<1>19. ASSUME NEW i \in 1 .. n + 1, NEW j \in 1 .. n + 1,
              i < j, ~IsFact(got'[i]), ~IsFact(got'[j])
       PROVE  got'[i].redis < got'[j].redis
  <2>1. i \in 1 .. n
    BY <1>13, <1>19
  <2>2. CASE j \in 1 .. n
    BY <1>6, <1>11, <1>19, <2>1, <2>2
  <2>3. CASE j = n + 1
    <3>1. got[i].redis <= cursor[2] /\ cursor[2] < frame.redis
      BY <1>5, <1>6, <1>2, <1>8, <1>10, <1>19, <2>1, <2>3
    <3>2. got[i].redis < frame.redis
      BY <1>2, <1>5, <1>7, <2>1, <3>1
    <3> QED BY <1>6, <2>1, <2>3, <3>2
  <2> QED BY <1>13, <2>2, <2>3
<1>20. Len(got') = n + 1
  BY <1>6 DEF n
<1>21. GotFits'
  <2>1. /\ cursor'[1] = IF got' = <<>> THEN 0 ELSE got'[Len(got')].durable
        /\ cursor'[1] = Cardinality({j \in 1 .. Len(got') : IsFact(got'[j])})
    BY <1>16, <1>17, <1>20 DEF FactCount
  <2>2. \A i \in 1 .. Len(got') :
          /\ got'[i].durable <= cursor'[1] /\ got'[i].redis <= cursor'[2]
          /\ IsFact(got'[i]) =>
               got'[i].durable > 0 /\ got'[i].durable = Cardinality({j \in 1 .. i : IsFact(got'[j])})
          /\ ~IsFact(got'[i]) => got'[i].redis > 0 /\ Watermark[got'[i].redis] <= got'[i].durable
          /\ \A m \in 1 .. got'[i].durable : \E j \in 1 .. i : IsFact(got'[j]) /\ got'[j].durable = m
    BY <1>18, <1>20 DEF FactCount
  <2>3. \A i, j \in 1 .. Len(got') :
          i < j /\ ~IsFact(got'[i]) /\ ~IsFact(got'[j]) => got'[i].redis < got'[j].redis
    BY <1>19, <1>20
  <2> QED BY <1>14, <1>15, <2>1, <2>2, <2>3 DEF GotFits, IsFact
<1> QED BY <1>4, <1>6, <1>21

LEMMA AppliedPause ==
  ASSUME StreamTypeOK, NEW frame \in Frame, UNCHANGED <<facts, trouble>>, got' = Append(got, frame)
  PROVE  Interruptions' = IF IsFact(frame) /\ facts[frame.durable] = "paused"
                          THEN Interruptions + 1 ELSE Interruptions
<1> DEFINE n == Len(got)
           A == {i \in 1 .. n : IsFact(got[i]) /\ facts[got[i].durable] = "paused"}
           B == {i \in 1 .. n + 1 : IsFact(got'[i]) /\ facts[got'[i].durable] = "paused"}
<1>1. /\ Len(got') = n + 1 /\ n \in Nat
      /\ \A i \in 1 .. n : got'[i] = got[i]
      /\ got'[n + 1] = frame
  <2>1. got \in Seq(Frame)
    BY DEF StreamTypeOK
  <2> QED BY <2>1
<1>2. Interruptions = trouble + Cardinality(A)
  BY DEF Interruptions
<1>3. Interruptions' = trouble + Cardinality(B)
  BY <1>1 DEF Interruptions, IsFact
<1>4. A \in SUBSET (1 .. n)
  OBVIOUS
<1>5. /\ \A i \in 1 .. n + 1 : i \in 1 .. n \/ i = n + 1
      /\ n + 1 \in 1 .. n + 1 /\ \A i \in 1 .. n : i \in 1 .. n + 1
  BY <1>1
<1>6. B = IF IsFact(frame) /\ facts[frame.durable] = "paused" THEN A \union {n + 1} ELSE A
  BY <1>1, <1>5
<1> HIDE DEF n, A, B
<1>7. Cardinality(A) \in Nat /\ Cardinality(A \union {n + 1}) = Cardinality(A) + 1
  BY <1>1, <1>4, OneMoreIsCounted
<1>8. trouble \in Nat
  BY TypesOfTheStream
<1> QED BY <1>2, <1>3, <1>6, <1>7, <1>8

LEMMA ConsumeKeeps ==
  ASSUME StreamInvariant, Consume
  PROVE  StreamInvariant' /\ shown' >= shown
<1> DEFINE frame == Head(wire)
           id == <<frame.durable, frame.redis>>
           fact == IF frame.type = "fact" THEN facts[frame.durable] ELSE "progress"
<1>1. /\ pc = "follow" /\ wire # <<>>
      /\ UNCHANGED <<facts, live, lost, generation, busy, wish, tries, attempt, trouble>>
  BY DEF Consume, runVars
<1>2. /\ frame \in Frame /\ frame.durable \in Nat /\ frame.redis \in Nat
      /\ Follows(cursor, frame) /\ frame.durable <= Len(facts)
      /\ id \notin seen /\ id = Id(frame)
      /\ Tail(wire) \in Seq(Frame)
      /\ Chain(Id(frame), Tail(wire), <<reader.durable, reader.redis>>)
      /\ \A i \in 1 .. Len(Tail(wire)) : Tail(wire)[i].durable <= Len(facts)
  BY <1>1, NextFrame DEF Id
<1>3. /\ seen' = seen \union {id} /\ cursor' = id /\ got' = Append(got, frame)
      /\ shown' = IF fact = "end" THEN frame.durable ELSE shown
      /\ pause' = CASE fact = "end" -> 0
                    [] fact = "paused" -> frame.durable
                    [] OTHER -> pause
      /\ paused' = (fact \in {"end", "paused"})
      /\ IF paused' THEN Calibrate
         ELSE wire' = Tail(wire) /\ UNCHANGED <<reader, pc, calls>>
  BY <1>1, <1>2 DEF Consume
<1>4. StreamTypeOK /\ HistoryFits /\ ReaderFits /\ GotFits /\ CallsFit /\ PatienceFits /\ ViewFits
  BY DEF StreamInvariant
<1>5. /\ cursor' \in Cursor /\ seen' \subseteq Cursor /\ got' \in Seq(Frame)
      /\ GotFits'
  BY <1>1, <1>2, <1>3, AppliedFits
<1>6. /\ Len(facts) \in 0 .. MaxFacts /\ Len(facts) \in Nat /\ shown \in Nat /\ pause \in Nat
      /\ shown <= Len(facts) /\ pause <= Len(facts)
      /\ Interruptions \in Nat /\ attempt \in Nat
  BY <1>4, TypesOfTheStream, InterruptionsAreCounted DEF ViewFits
<1>7. Interruptions' = IF fact = "paused" THEN Interruptions + 1 ELSE Interruptions
  BY <1>1, <1>2, <1>3, <1>4, AppliedPause DEF IsFact
<1>8. fact = "end" => frame.durable = Len(facts) /\ Ended(Len(facts))
  <2>1. fact = "end" => frame.durable \in 1 .. Len(facts) /\ facts[frame.durable] = "end"
    <3>1. frame.type = "fact" => frame.durable = cursor[1] + 1
      BY <1>2 DEF Follows
    <3>2. cursor[1] \in Nat
      BY <1>4, TypesOfTheStream
    <3> QED BY <1>2, <1>6, <3>1, <3>2
  <2> QED BY <1>4, <1>6, <2>1 DEF HistoryFits, Ended
<1> HIDE DEF frame, id, fact
<1>9. /\ shown' \in 0 .. MaxFacts /\ shown' <= Len(facts) /\ shown' >= shown
      /\ pause' \in 0 .. MaxFacts /\ pause' <= Len(facts)
      /\ paused' \in BOOLEAN
  <2>1. 0 \in 0 .. MaxFacts /\ frame.durable \in 0 .. MaxFacts
        /\ shown \in 0 .. MaxFacts /\ pause \in 0 .. MaxFacts
    BY <1>2, <1>6, NumbersOfTheStream
  <2> QED BY <1>2, <1>3, <1>6, <1>8, <2>1
<1>10. HistoryFits'
  BY <1>1, <1>4 DEF HistoryFits, Waiting
<1>11. CASE paused'
  <2>1. Calibrate /\ pc' = "calibrate"
    BY <1>3, <1>11 DEF Calibrate
  <2>2. /\ calls' \subseteq Call /\ reader' \in Reader /\ wire' \in Seq(Frame)
        /\ ReaderFits' /\ WireFits' /\ CallsFit'
        /\ \A c \in calls' : c.gen = generation' => c.at = 0
    BY <1>1, <2>1, CalibrateFits
  <2>3. StreamTypeOK'
    BY <1>1, <1>4, <1>5, <1>9, <2>1, <2>2 DEF StreamTypeOK
  <2>4. ViewFits'
    BY <1>1, <1>9, <2>1 DEF ViewFits
  <2>5. PatienceFits'
    <3>1. attempt <= Interruptions
      BY <1>4 DEF PatienceFits
    <3>2. attempt' = attempt /\ attempt <= Interruptions'
      BY <1>1, <1>6, <1>7, <3>1
    <3>3. attempt < Interruptions' \/ Ended(Len(facts))
      <4>1. fact = "end" \/ fact = "paused"
        BY <1>3, <1>11
      <4>2. CASE fact = "end"
        BY <1>8, <4>2
      <4>3. CASE fact = "paused"
        BY <1>6, <1>7, <3>1, <4>3
      <4> QED BY <4>1, <4>2, <4>3
    <3> QED BY <1>1, <2>1, <2>2, <3>2, <3>3 DEF PatienceFits, PatienceIsSpentOnTrouble, Current, Ended
  <2> QED BY <1>5, <1>9, <1>10, <2>2, <2>3, <2>4, <2>5 DEF StreamInvariant
<1>12. CASE ~paused'
  <2>1. /\ wire' = Tail(wire) /\ UNCHANGED <<reader, pc, calls>>
        /\ fact # "end" /\ fact # "paused" /\ shown' = shown /\ pause' = pause
    BY <1>3, <1>12
  <2>2. StreamTypeOK'
    BY <1>1, <1>2, <1>4, <1>5, <1>9, <2>1 DEF StreamTypeOK
  <2>3. ReaderFits' /\ ViewFits'
    BY <1>1, <1>4, <2>1 DEF ReaderFits, Ended, ViewFits
  <2>4. WireFits'
    BY <1>1, <1>2, <1>3, <2>1 DEF WireFits
  <2>5. CallsFit'
    BY <1>1, <1>4, <2>1 DEF CallsFit, Current, Expects
  <2>6. PatienceFits'
    BY <1>1, <1>4, <1>7, <2>1 DEF PatienceFits, PatienceIsSpentOnTrouble
  <2> QED BY <1>5, <1>9, <1>10, <2>2, <2>3, <2>4, <2>5, <2>6 DEF StreamInvariant
<1> QED BY <1>11, <1>12

-----------------------------------------------------------------------------
(* Replies, and what is done without them.                                 *)

\* Where the hook follows no stream.
Elsewhere ==
  {"create", "cancel", "resume", "connect", "calibrate", "reconcile", "recover", "rest",
   "abandoned", "error"}

\* The request the hook waits for is answered or given up: the stream is not
\* touched, and there is at most one request after it, the one the hook waits
\* for next.
LEMMA AnswerKeeps ==
  ASSUME StreamInvariant, NEW c \in calls, Current(c),
         UNCHANGED <<runVars, serverVars, generation, cursor, seen, got>>,
         pc' \in Elsewhere,
         \/ calls' = calls \ {c}
         \/ \E type \in Expects(pc'), arg \in 0 .. MaxFacts :
              /\ calls' = (calls \ {c}) \union {Request(type, arg)}
              /\ arg <= Len(facts)
              /\ pc' = "reconcile" => arg >= shown',
         {busy', wish', paused'} \subseteq BOOLEAN,
         tries' \in 0 .. 3, attempt' \in 0 .. MaxReconnect, trouble' \in 0 .. MaxTrouble,
         shown' \in 0 .. MaxFacts, shown' <= Len(facts),
         pause' \in 0 .. MaxFacts, pause' <= Len(facts),
         pc' = "create" => shown' = 0 /\ tries' <= 2,
         PatienceFits'
  PROVE  StreamInvariant'
<1>1. StreamTypeOK /\ HistoryFits /\ ReaderFits /\ WireFits /\ GotFits /\ CallsFit
  BY DEF StreamInvariant
<1>2. facts' = facts /\ live' = live /\ lost' = lost /\ reader' = reader /\ wire' = wire
  BY DEF runVars, serverVars
<1>3. /\ generation \in 0 .. MaxCommands /\ generation <= generation
      /\ Len(facts) \in Nat /\ 0 <= Len(facts) /\ 0 \in 0 .. MaxFacts
  BY <1>1, GenerationNumber
<1>4. Expects(pc') \subseteq {"create", "cancel", "resume", "snapshot"}
  BY DEF Expects
<1>5. \A d \in calls \ {c} : d.gen # generation
  BY <1>1 DEF CallsFit, Current
<1>6. /\ calls' \subseteq Call
      /\ \A d \in calls' : d \in calls \/ (d.gen = generation /\ d.at = 0 /\ d.arg <= Len(facts))
      /\ \A d \in calls' : d.gen = generation =>
           /\ d.type \in Expects(pc') /\ d.at = 0
           /\ pc' = "reconcile" => d.arg >= shown'
           /\ \A e \in calls' : e.gen = generation => d = e
  <2>1. CASE calls' = calls \ {c}
    BY <1>1, <1>5, <2>1 DEF StreamTypeOK
  <2>2. CASE \E type \in Expects(pc'), arg \in 0 .. MaxFacts :
               /\ calls' = (calls \ {c}) \union {Request(type, arg)}
               /\ arg <= Len(facts)
               /\ pc' = "reconcile" => arg >= shown'
    <3>1. PICK type \in Expects(pc'), arg \in 0 .. MaxFacts :
               /\ calls' = (calls \ {c}) \union {Request(type, arg)}
               /\ arg <= Len(facts)
               /\ pc' = "reconcile" => arg >= shown'
      BY <2>2
    <3> DEFINE new == Request(type, arg)
    <3>2. /\ new \in Call /\ new.gen = generation /\ new.at = 0 /\ new.arg = arg /\ new.type = type
      BY <1>3, <1>4 DEF Request, Call
    <3> HIDE DEF new
    <3>3. calls' = (calls \ {c}) \union {new}
      BY <3>1 DEF new
    <3>4. calls' \subseteq Call
      BY <1>1, <3>2, <3>3 DEF StreamTypeOK
    <3> QED BY <1>5, <3>1, <3>2, <3>3, <3>4
  <2> QED BY <2>1, <2>2
<1>7. StreamTypeOK'
  BY <1>1, <1>2, <1>6 DEF StreamTypeOK, Elsewhere
<1>8. HistoryFits' /\ ReaderFits' /\ GotFits'
  BY <1>1, <1>2, GotStays DEF HistoryFits, Waiting, ReaderFits, Ended
<1>9. WireFits'
  <2>1. pc # "follow"
    BY <1>1 DEF CallsFit, Expects
  <2>2. reader = Closed /\ wire = <<>>
    BY <1>1, <2>1 DEF WireFits
  <2>3. pc' # "follow"
    BY DEF Elsewhere
  <2>4. reader' = Closed /\ wire' = <<>>
    BY <1>2, <2>2
  <2>5. \A i \in 1 .. Len(wire') : FALSE
    <3>1. Len(wire') = 0
      BY <2>4
    <3> QED BY <3>1
  <2> QED BY <2>3, <2>4, <2>5 DEF WireFits, Closed
<1>10. CallsFit'
  <2>1. \A d \in calls' : d.gen <= generation' /\ d.at <= Len(facts') /\ d.arg <= Len(facts')
    BY <1>1, <1>2, <1>3, <1>6 DEF CallsFit
  <2>2. \A d \in calls' : d.gen = generation' =>
           /\ d.type \in Expects(pc') /\ d.at = 0
           /\ pc' = "reconcile" => d.arg >= shown'
           /\ \A e \in calls' : e.gen = generation' => d = e
    BY <1>6
  <2>3. ASSUME NEW d \in calls', d.gen = generation'
        PROVE  /\ d.type \in Expects(pc')
               /\ d.at > 0 => d.at >= shown'
               /\ pc' = "reconcile" => d.arg >= shown'
               /\ \A e \in calls' : e.gen = generation' => d = e
    <3>1. /\ d.type \in Expects(pc') /\ d.at = 0
          /\ pc' = "reconcile" => d.arg >= shown'
          /\ \A e \in calls' : e.gen = generation' => d = e
      BY <2>2, <2>3
    <3>2. ~(0 > 0)
      OBVIOUS
    <3> QED BY <3>1, <3>2
  <2> QED BY <2>1, <2>3 DEF CallsFit, Current, Expects
<1>11. ViewFits'
  BY <1>2 DEF ViewFits
<1> QED BY <1>7, <1>8, <1>9, <1>10, <1>11 DEF StreamInvariant

LEMMA MoreTrouble ==
  ASSUME NEW a \in Nat, NEW i \in Nat, NEW t \in Nat, NEW u \in Nat, u >= t, a <= i,
         NEW j, j = i + (u - t)
  PROVE  /\ j \in Nat /\ a <= j /\ 0 <= j
         /\ a < i \/ u > t => a < j /\ a + 1 <= j /\ \A m \in Nat : a >= m => j > m
  OBVIOUS

\* An answer that starts no reconnection costs no patience.
LEMMA PatienceLasts ==
  ASSUME StreamInvariant, UNCHANGED <<facts, got>>,
         trouble' \in Nat, trouble' >= trouble, attempt' = 0 \/ attempt' = attempt,
         pc' # "calibrate", pc' # "abandoned"
  PROVE  PatienceFits'
<1>1. StreamTypeOK /\ GotFits /\ PatienceFits
  BY DEF StreamInvariant
<1>2. /\ attempt \in Nat /\ trouble \in Nat /\ Interruptions \in Nat
      /\ Interruptions' = Interruptions + (trouble' - trouble)
  BY <1>1, TypesOfTheStream, InterruptionsAreCounted, InterruptionsMove
<1>3. attempt <= Interruptions
  BY <1>1 DEF PatienceFits
<1>4. 0 <= Interruptions' /\ attempt <= Interruptions'
  <2>1. ASSUME NEW u, u = trouble', NEW j, j = Interruptions'
        PROVE  0 <= j /\ attempt <= j
    <3>1. u \in Nat /\ u >= trouble /\ j = Interruptions + (u - trouble)
      BY <1>2, <2>1
    <3>2. attempt \in Nat /\ trouble \in Nat /\ Interruptions \in Nat
      BY <1>2
    <3> QED BY <1>3, <3>1, <3>2
  <2> QED BY <2>1
<1>6. attempt' <= Interruptions'
  BY <1>4
<1> QED BY <1>6 DEF PatienceFits, PatienceIsSpentOnTrouble

LEMMA ReconnectingIsPaidFor ==
  ASSUME StreamInvariant, UNCHANGED <<facts, got>>, trouble' \in Nat, trouble' >= trouble,
         pc = "calibrate", attempt < Interruptions \/ trouble' > trouble,
         Reconnect, UNCHANGED busy \/ busy' = FALSE
  PROVE  /\ PatienceFits'
         /\ pc' \in {"connect", "abandoned"} /\ attempt' \in 0 .. MaxReconnect
         /\ busy' \in BOOLEAN
<1>1. StreamTypeOK /\ GotFits /\ PatienceFits
  BY DEF StreamInvariant
<1>2. /\ attempt \in Nat /\ trouble \in Nat /\ Interruptions \in Nat /\ MaxReconnect \in Nat
      /\ Interruptions' = Interruptions + (trouble' - trouble)
  BY <1>1, TypesOfTheStream, InterruptionsAreCounted, InterruptionsMove, NumbersOfTheStream
<1>3. attempt <= Interruptions /\ busy \in BOOLEAN
  BY <1>1 DEF PatienceFits, StreamTypeOK
<1>4. /\ 0 <= Interruptions' /\ attempt < Interruptions' /\ attempt + 1 <= Interruptions'
      /\ attempt >= MaxReconnect => Interruptions' > MaxReconnect
  <2>1. ASSUME NEW u, u = trouble', NEW j, j = Interruptions'
        PROVE  /\ 0 <= j /\ attempt < j /\ attempt + 1 <= j
               /\ attempt >= MaxReconnect => j > MaxReconnect
    <3>1. /\ u \in Nat /\ u >= trouble /\ j = Interruptions + (u - trouble)
          /\ attempt < Interruptions \/ u > trouble
      BY <1>2, <2>1
    <3> QED BY <1>2, <1>3, <3>1, MoreTrouble
  <2> QED BY <2>1
<1>5. CASE attempt >= MaxReconnect
  <2>1. pc' = "abandoned" /\ attempt' = 0 /\ busy' = FALSE
    BY <1>5 DEF Reconnect, Settle
  <2>2. Interruptions' > MaxReconnect /\ attempt' <= Interruptions'
    BY <1>4, <1>5, <2>1
  <2>3. 0 \in 0 .. MaxReconnect
    BY <1>2
  <2> QED BY <2>1, <2>2, <2>3 DEF PatienceFits, PatienceIsSpentOnTrouble
<1>6. CASE ~(attempt >= MaxReconnect)
  <2>1. pc' = "connect" /\ attempt' = attempt + 1 /\ busy' \in BOOLEAN
    BY <1>3, <1>6 DEF Reconnect, Follow
  <2>2. attempt' <= Interruptions'
    BY <1>4, <2>1
  <2>3. attempt + 1 \in 0 .. MaxReconnect
    BY <1>2, <1>6
  <2> QED BY <2>1, <2>2, <2>3 DEF PatienceFits, PatienceIsSpentOnTrouble
<1> QED BY <1>5, <1>6

\* What is known of the request the hook waits for.
LEMMA WaitedFor ==
  ASSUME StreamInvariant, NEW c \in calls, Current(c)
  PROVE  /\ c.type \in Expects(pc)
         /\ c.at \in 0 .. MaxFacts /\ c.at \in Nat /\ c.at <= Len(facts)
         /\ c.arg \in 0 .. MaxFacts /\ c.arg \in Nat /\ c.arg <= Len(facts)
         /\ c.at > 0 => c.at >= shown
         /\ pc = "reconcile" => c.arg >= shown
<1>1. StreamTypeOK /\ CallsFit
  BY DEF StreamInvariant
<1>2. /\ c.at \in 0 .. MaxFacts /\ c.at \in Nat /\ c.arg \in 0 .. MaxFacts /\ c.arg \in Nat
  BY <1>1, CallNumbers
<1> QED BY <1>1, <1>2 DEF CallsFit

LEMMA HookNumbers ==
  ASSUME StreamInvariant
  PROVE  /\ busy \in BOOLEAN /\ wish \in BOOLEAN /\ paused \in BOOLEAN
         /\ tries \in 0 .. 3 /\ attempt \in 0 .. MaxReconnect /\ 0 \in 0 .. MaxReconnect
         /\ trouble \in 0 .. MaxTrouble /\ trouble \in Nat /\ trouble >= trouble
         /\ shown \in 0 .. MaxFacts /\ shown \in Nat /\ shown <= Len(facts)
         /\ pause \in 0 .. MaxFacts /\ pause <= Len(facts)
         /\ 0 \in 0 .. MaxFacts /\ 0 <= Len(facts)
         /\ pc = "create" => shown = 0 /\ tries <= 2
<1>1. StreamTypeOK /\ ViewFits
  BY DEF StreamInvariant
<1>2. /\ busy \in BOOLEAN /\ wish \in BOOLEAN /\ paused \in BOOLEAN
      /\ tries \in 0 .. 3 /\ attempt \in 0 .. MaxReconnect /\ trouble \in 0 .. MaxTrouble
      /\ shown \in 0 .. MaxFacts /\ pause \in 0 .. MaxFacts
  BY <1>1 DEF StreamTypeOK
<1>3. /\ shown <= Len(facts) /\ pause <= Len(facts)
      /\ pc = "create" => shown = 0 /\ tries <= 2
  BY <1>1 DEF ViewFits
<1>4. /\ MaxReconnect \in Nat /\ trouble \in Nat /\ shown \in Nat
      /\ Len(facts) \in Nat /\ MaxFacts \in Nat
  BY <1>1, TypesOfTheStream, NumbersOfTheStream
<1>5. /\ 0 \in 0 .. MaxReconnect /\ trouble >= trouble /\ 0 \in 0 .. MaxFacts /\ 0 <= Len(facts)
  BY <1>4
<1> QED BY <1>2, <1>3, <1>4, <1>5

LEMMA ReplyKeeps ==
  ASSUME StreamInvariant, NEW c \in calls, Reply(c)
  PROVE  StreamInvariant' /\ shown' >= shown
<1>1. /\ c.at > 0 /\ Current(c)
      /\ OnCreated(c) \/ OnCancelled(c) \/ OnResumed(c) \/ OnSnapshot(c)
      /\ tries' = 0 /\ paused' = FALSE
      /\ UNCHANGED <<runVars, serverVars, generation, cursor, seen, got, trouble>>
  BY DEF Reply
<1>2. UNCHANGED <<facts, got>> /\ trouble' = trouble
  BY <1>1 DEF runVars
<1>3. /\ c.type \in Expects(pc)
      /\ c.at \in 0 .. MaxFacts /\ c.at \in Nat /\ c.at <= Len(facts) /\ c.at >= shown
  BY <1>1, WaitedFor
<1>4. /\ busy \in BOOLEAN /\ wish \in BOOLEAN
      /\ attempt \in 0 .. MaxReconnect /\ 0 \in 0 .. MaxReconnect
      /\ trouble \in 0 .. MaxTrouble /\ trouble \in Nat /\ trouble >= trouble
      /\ shown \in 0 .. MaxFacts /\ shown \in Nat /\ shown <= Len(facts) /\ shown >= shown
      /\ pause \in 0 .. MaxFacts /\ pause <= Len(facts)
      /\ 0 \in 0 .. MaxFacts /\ 0 <= Len(facts) /\ 0 \in 0 .. 3
  BY HookNumbers
<1>5. tries' \in 0 .. 3 /\ paused' \in BOOLEAN /\ trouble' \in 0 .. MaxTrouble /\ trouble' \in Nat
      /\ trouble' >= trouble
  BY <1>1, <1>2, <1>4
<1>6. CASE OnCreated(c)
  <2>1. /\ shown' = c.at /\ pause' = pause
        /\ \/ /\ pc' = "cancel" /\ wish' = FALSE /\ attempt' = attempt /\ busy' = busy
              /\ calls' = (calls \ {c}) \union {Request("cancel", 0)}
           \/ /\ pc' = "connect" /\ attempt' = 0 /\ busy' = busy /\ wish' = wish
              /\ calls' = calls \ {c}
    BY <1>6 DEF OnCreated, Follow
  <2>2. PatienceFits'
    BY <1>2, <1>5, <2>1, PatienceLasts
  <2>3. pc' \in Elsewhere /\ pc' # "create" /\ pc' # "reconcile"
    BY <2>1 DEF Elsewhere
  <2>4. \/ calls' = calls \ {c}
        \/ \E type \in Expects(pc'), arg \in 0 .. MaxFacts :
              /\ calls' = (calls \ {c}) \union {Request(type, arg)}
              /\ arg <= Len(facts)
              /\ pc' = "reconcile" => arg >= shown'
    <3>1. pc' = "cancel" => "cancel" \in Expects(pc')
      BY DEF Expects
    <3> QED BY <1>4, <2>1, <2>3, <3>1
  <2>5. /\ {busy', wish', paused'} \subseteq BOOLEAN /\ attempt' \in 0 .. MaxReconnect
        /\ shown' \in 0 .. MaxFacts /\ shown' <= Len(facts)
        /\ pause' \in 0 .. MaxFacts /\ pause' <= Len(facts)
    BY <1>3, <1>4, <1>5, <2>1
  <2>6. shown' >= shown
    BY <1>3, <2>1
  <2>7. StreamInvariant'
    BY <1>1, <1>5, <2>2, <2>3, <2>4, <2>5, AnswerKeeps
  <2> QED BY <2>6, <2>7
<1>7. CASE OnCancelled(c)
  <2>1. /\ shown' = c.at /\ wish' = wish /\ calls' = calls \ {c} /\ attempt' = 0
        /\ busy' \in {busy, FALSE} /\ pause' \in {pause, 0} /\ pc' \in {"rest", "connect"}
    BY <1>7 DEF OnCancelled, Follow, Settle
  <2>2. pc' \in Elsewhere /\ pc' # "create" /\ pc' # "calibrate" /\ pc' # "abandoned"
    BY <2>1 DEF Elsewhere
  <2>3. PatienceFits'
    BY <1>2, <1>5, <2>1, <2>2, PatienceLasts
  <2>4. /\ {busy', wish', paused'} \subseteq BOOLEAN /\ attempt' \in 0 .. MaxReconnect
        /\ shown' \in 0 .. MaxFacts /\ shown' <= Len(facts)
        /\ pause' \in 0 .. MaxFacts /\ pause' <= Len(facts)
    BY <1>3, <1>4, <1>5, <2>1
  <2>5. shown' >= shown
    BY <1>3, <2>1
  <2>6. StreamInvariant'
    BY <1>1, <1>5, <2>1, <2>2, <2>3, <2>4, AnswerKeeps
  <2> QED BY <2>5, <2>6
<1>8. CASE OnResumed(c)
  <2>1. /\ pc' = "reconcile" /\ busy' = FALSE
        /\ calls' = (calls \ {c}) \union {Request("snapshot", c.at)}
        /\ wish' = wish /\ attempt' = attempt /\ shown' = shown /\ pause' = pause
    BY <1>8 DEF OnResumed
  <2>2. PatienceFits'
    BY <1>2, <1>5, <2>1, PatienceLasts
  <2>3. pc' \in Elsewhere /\ "snapshot" \in Expects(pc')
    BY <2>1 DEF Elsewhere, Expects
  <2>4. \E type \in Expects(pc'), arg \in 0 .. MaxFacts :
          /\ calls' = (calls \ {c}) \union {Request(type, arg)}
          /\ arg <= Len(facts)
          /\ pc' = "reconcile" => arg >= shown'
    BY <1>3, <2>1, <2>3
  <2>5. /\ {busy', wish', paused'} \subseteq BOOLEAN /\ attempt' \in 0 .. MaxReconnect
        /\ shown' \in 0 .. MaxFacts /\ shown' <= Len(facts)
        /\ pause' \in 0 .. MaxFacts /\ pause' <= Len(facts)
    BY <1>4, <1>5, <2>1
  <2>6. StreamInvariant'
    BY <1>1, <1>5, <2>1, <2>2, <2>3, <2>4, <2>5, AnswerKeeps
  <2> QED BY <1>4, <2>1, <2>6
<1>9. CASE OnSnapshot(c)
  <2>1. /\ shown' = c.at /\ pause' = PauseAt(c.at) /\ calls' = calls \ {c} /\ wish' = wish
        /\ \/ pc = "calibrate" /\ Active(c.at) /\ Reconnect
           \/ attempt' = 0 /\ busy' \in {busy, FALSE} /\ pc' \in {"rest", "connect"}
    BY <1>9 DEF OnSnapshot, Display, Settle, Follow
  <2>2. /\ PatienceFits' /\ pc' \in {"rest", "connect", "abandoned"}
        /\ attempt' \in 0 .. MaxReconnect /\ busy' \in BOOLEAN
    <3>1. CASE pc = "calibrate" /\ Active(c.at) /\ Reconnect
      <4>1. attempt < Interruptions
        <5>1. c.at # 0 /\ ~Ended(c.at)
          BY <1>1, <1>3, <3>1 DEF Active
        <5> QED BY <1>1, <3>1, <5>1 DEF StreamInvariant, PatienceFits
      <4>2. UNCHANGED busy \/ busy' = FALSE
        BY <3>1 DEF Reconnect, Settle, Follow
      <4>3. /\ PatienceFits' /\ pc' \in {"connect", "abandoned"}
            /\ attempt' \in 0 .. MaxReconnect /\ busy' \in BOOLEAN
        BY <1>2, <1>5, <3>1, <4>1, <4>2, ReconnectingIsPaidFor
      <4> QED BY <4>3
    <3>2. CASE attempt' = 0 /\ busy' \in {busy, FALSE} /\ pc' \in {"rest", "connect"}
      <4>1. pc' # "calibrate" /\ pc' # "abandoned"
        BY <3>2
      <4>2. PatienceFits'
        BY <1>2, <1>5, <3>2, <4>1, PatienceLasts
      <4> QED BY <1>4, <3>2, <4>2
    <3> QED BY <2>1, <3>1, <3>2
  <2>3. pc' \in Elsewhere /\ pc' # "create"
    BY <2>2 DEF Elsewhere
  <2>4. /\ {busy', wish', paused'} \subseteq BOOLEAN
        /\ shown' \in 0 .. MaxFacts /\ shown' <= Len(facts)
        /\ pause' \in 0 .. MaxFacts /\ pause' <= Len(facts)
    BY <1>3, <1>4, <1>5, <2>1, <2>2 DEF PauseAt
  <2>5. shown' >= shown
    BY <1>3, <2>1
  <2>6. StreamInvariant'
    BY <1>1, <1>5, <2>1, <2>2, <2>3, <2>4, AnswerKeeps
  <2> QED BY <2>5, <2>6
<1> QED BY <1>1, <1>6, <1>7, <1>8, <1>9

\* A request that is lost or refused; only a lost one may be a snapshot.
LEMMA FailureKeeps ==
  ASSUME StreamInvariant, NEW c \in calls, Fails(c),
         trouble' \in 0 .. MaxTrouble, trouble' \in Nat, trouble' >= trouble,
         trouble' > trouble \/ c.type # "snapshot"
  PROVE  StreamInvariant' /\ shown' >= shown
<1>1. /\ Current(c)
      /\ CreateFails(c) \/ CommandFails(c) \/ SnapshotFails(c)
      /\ paused' = FALSE
      /\ UNCHANGED <<runVars, serverVars, generation, cursor, seen, got>>
  BY DEF Fails
<1>2. UNCHANGED <<facts, got>>
  BY <1>1 DEF runVars
<1>3. /\ c.arg \in 0 .. MaxFacts /\ c.arg \in Nat /\ c.arg <= Len(facts)
      /\ pc = "reconcile" => c.arg >= shown
  BY <1>1, WaitedFor
<1>4. /\ busy \in BOOLEAN /\ wish \in BOOLEAN
      /\ tries \in 0 .. 3 /\ attempt \in 0 .. MaxReconnect /\ 0 \in 0 .. MaxReconnect
      /\ shown \in 0 .. MaxFacts /\ shown \in Nat /\ shown <= Len(facts) /\ shown >= shown
      /\ pause \in 0 .. MaxFacts /\ pause <= Len(facts)
      /\ 0 \in 0 .. MaxFacts /\ 0 <= Len(facts)
      /\ pc = "create" => shown = 0 /\ tries <= 2
  BY HookNumbers
<1>5. CASE CreateFails(c)
  <2>1. /\ pc = "create" /\ tries' = tries + 1 /\ shown' = shown /\ pause' = pause
        /\ \/ /\ tries < 2 /\ pc' = "create" /\ busy' = busy /\ wish' = wish /\ attempt' = attempt
              /\ calls' = (calls \ {c}) \union {Request("create", 0)}
           \/ /\ pc' = "error" /\ busy' = FALSE /\ attempt' = 0 /\ wish' = FALSE
              /\ calls' = calls \ {c}
    BY <1>5 DEF CreateFails, Settle
  <2>2. pc' \in Elsewhere /\ pc' # "calibrate" /\ pc' # "abandoned" /\ pc' # "reconcile"
    BY <2>1 DEF Elsewhere
  <2>3. PatienceFits'
    BY <1>2, <2>1, <2>2, PatienceLasts
  <2>4. \/ calls' = calls \ {c}
        \/ \E type \in Expects(pc'), arg \in 0 .. MaxFacts :
              /\ calls' = (calls \ {c}) \union {Request(type, arg)}
              /\ arg <= Len(facts)
              /\ pc' = "reconcile" => arg >= shown'
    <3>1. pc' = "create" => "create" \in Expects(pc')
      BY DEF Expects
    <3> QED BY <1>4, <2>1, <2>2, <3>1
  <2>5. /\ {busy', wish', paused'} \subseteq BOOLEAN /\ attempt' \in 0 .. MaxReconnect
        /\ shown' \in 0 .. MaxFacts /\ shown' <= Len(facts)
        /\ pause' \in 0 .. MaxFacts /\ pause' <= Len(facts)
    BY <1>1, <1>4, <2>1
  <2>6. tries' \in 0 .. 3 /\ (pc' = "create" => shown' = 0 /\ tries' <= 2)
    <3>1. tries + 1 \in 0 .. 3 /\ (tries < 2 => tries + 1 <= 2)
      BY <1>4, <2>1
    <3> QED BY <1>4, <2>1, <3>1
  <2>7. StreamInvariant'
    BY <1>1, <2>2, <2>3, <2>4, <2>5, <2>6, AnswerKeeps
  <2> QED BY <1>4, <2>1, <2>7
<1>6. CASE CommandFails(c)
  <2>1. /\ wish' = wish /\ tries' = tries /\ shown' = shown /\ pause' = pause
        /\ \/ /\ pc' = "recover" /\ busy' = busy /\ attempt' = attempt
              /\ calls' = (calls \ {c}) \union {Request("snapshot", 0)}
           \/ /\ pc' = "error" /\ busy' = FALSE /\ attempt' = 0
              /\ calls' = calls \ {c}
    BY <1>6 DEF CommandFails, Settle
  <2>2. /\ pc' \in Elsewhere /\ pc' # "create" /\ pc' # "calibrate" /\ pc' # "abandoned"
        /\ pc' # "reconcile"
    BY <2>1 DEF Elsewhere
  <2>3. PatienceFits'
    BY <1>2, <2>1, <2>2, PatienceLasts
  <2>4. \/ calls' = calls \ {c}
        \/ \E type \in Expects(pc'), arg \in 0 .. MaxFacts :
              /\ calls' = (calls \ {c}) \union {Request(type, arg)}
              /\ arg <= Len(facts)
              /\ pc' = "reconcile" => arg >= shown'
    <3>1. pc' = "recover" => "snapshot" \in Expects(pc')
      BY DEF Expects
    <3> QED BY <1>4, <2>1, <2>2, <3>1
  <2>5. /\ {busy', wish', paused'} \subseteq BOOLEAN /\ attempt' \in 0 .. MaxReconnect
        /\ tries' \in 0 .. 3
        /\ shown' \in 0 .. MaxFacts /\ shown' <= Len(facts)
        /\ pause' \in 0 .. MaxFacts /\ pause' <= Len(facts)
    BY <1>1, <1>4, <2>1
  <2>6. StreamInvariant'
    BY <1>1, <2>2, <2>3, <2>4, <2>5, AnswerKeeps
  <2> QED BY <1>4, <2>1, <2>6
<1>7. CASE SnapshotFails(c)
  <2>1. /\ c.type = "snapshot" /\ wish' = wish /\ tries' = tries /\ calls' = calls \ {c}
        /\ \/ /\ pc = "calibrate" /\ Reconnect /\ shown' = shown /\ pause' = pause
           \/ /\ pc' \in {"rest", "error"} /\ attempt' = 0 /\ busy' = FALSE
              /\ shown' = shown /\ pause' = pause
           \/ /\ pc = "reconcile" /\ pc' = "connect" /\ attempt' = 0 /\ busy' = busy
              /\ shown' = c.arg /\ pause' = 0
    BY <1>7 DEF SnapshotFails, Settle, Follow
  <2>2. /\ PatienceFits' /\ pc' \in {"rest", "error", "connect", "abandoned"}
        /\ attempt' \in 0 .. MaxReconnect /\ busy' \in BOOLEAN
    <3>1. CASE pc = "calibrate" /\ Reconnect
      <4>1. trouble' > trouble
        BY <2>1
      <4>2. UNCHANGED busy \/ busy' = FALSE
        BY <3>1 DEF Reconnect, Settle, Follow
      <4>3. /\ PatienceFits' /\ pc' \in {"connect", "abandoned"}
            /\ attempt' \in 0 .. MaxReconnect /\ busy' \in BOOLEAN
        BY <1>2, <3>1, <4>1, <4>2, ReconnectingIsPaidFor
      <4> QED BY <4>3
    <3>2. CASE attempt' = 0 /\ busy' \in {busy, FALSE} /\ pc' \in {"rest", "error", "connect"}
      <4>1. pc' # "calibrate" /\ pc' # "abandoned"
        BY <3>2
      <4>2. PatienceFits'
        BY <1>2, <3>2, <4>1, PatienceLasts
      <4> QED BY <1>4, <3>2, <4>2
    <3> QED BY <2>1, <3>1, <3>2
  <2>3. pc' \in Elsewhere /\ pc' # "create"
    BY <2>2 DEF Elsewhere
  <2>4. /\ {busy', wish', paused'} \subseteq BOOLEAN /\ tries' \in 0 .. 3
        /\ shown' \in 0 .. MaxFacts /\ shown' <= Len(facts)
        /\ pause' \in 0 .. MaxFacts /\ pause' <= Len(facts)
    BY <1>1, <1>3, <1>4, <2>1, <2>2
  <2>5. shown' >= shown
    BY <1>3, <1>4, <2>1
  <2>6. StreamInvariant'
    BY <1>1, <2>1, <2>2, <2>3, <2>4, AnswerKeeps
  <2> QED BY <2>5, <2>6
<1> QED BY <1>1, <1>5, <1>6, <1>7

LEMMA LoseCallKeeps ==
  ASSUME StreamInvariant, NEW c \in calls, LoseCall(c)
  PROVE  StreamInvariant' /\ shown' >= shown
<1>1. trouble < MaxTrouble /\ trouble' = trouble + 1 /\ Fails(c)
  BY DEF LoseCall
<1>2. trouble \in Nat /\ MaxTrouble \in Nat
  BY HookNumbers, NumbersOfTheStream
<1>3. trouble' \in 0 .. MaxTrouble /\ trouble' \in Nat /\ trouble' >= trouble /\ trouble' > trouble
  BY <1>1, <1>2
<1> QED BY <1>1, <1>3, FailureKeeps

LEMMA RefuseKeeps ==
  ASSUME StreamInvariant, NEW c \in calls, Refuse(c)
  PROVE  StreamInvariant' /\ shown' >= shown
<1>1. c.type # "snapshot" /\ Fails(c) /\ trouble' = trouble
  BY DEF Refuse
<1>2. trouble' \in 0 .. MaxTrouble /\ trouble' \in Nat /\ trouble' >= trouble
  BY <1>1, HookNumbers
<1> QED BY <1>1, <1>2, FailureKeeps

-----------------------------------------------------------------------------
(* What changes neither the history nor the stream.                        *)

LEMMA DropStaleKeeps ==
  ASSUME StreamInvariant, NEW c \in calls, DropStale(c)
  PROVE  StreamInvariant' /\ UNCHANGED shown
<1>1. /\ StreamTypeOK /\ HistoryFits /\ ReaderFits /\ WireFits /\ GotFits
      /\ CallsFit /\ PatienceFits /\ ViewFits
  BY DEF StreamInvariant
<1>2. calls' = calls \ {c} /\ UNCHANGED <<runVars, serverVars, hookVars, trouble>>
  BY DEF DropStale
<1>3. StreamTypeOK'
  BY <1>1, <1>2 DEF StreamTypeOK, runVars, serverVars, hookVars
<1>4. HistoryFits' /\ ReaderFits' /\ WireFits' /\ ViewFits'
  BY <1>1, <1>2, HistoryKeeps, ServerRests DEF runVars
<1>5. GotFits' /\ Interruptions' = Interruptions
  BY <1>1, <1>2, GotStays, InterruptionsStay DEF runVars, hookVars
<1>6. CallsFit'
  BY <1>1, <1>2 DEF CallsFit, Current, Expects, runVars, hookVars
<1>7. PatienceFits'
  BY <1>1, <1>2, <1>5 DEF PatienceFits, PatienceIsSpentOnTrouble, Current, Ended, runVars, hookVars
<1> QED BY <1>2, <1>3, <1>4, <1>5, <1>6, <1>7 DEF StreamInvariant, hookVars

LEMMA StopWhileCreatingKeeps ==
  ASSUME StreamInvariant, StopWhileCreating
  PROVE  StreamInvariant' /\ UNCHANGED shown
<1>1. /\ StreamTypeOK /\ HistoryFits /\ ReaderFits /\ WireFits /\ GotFits
      /\ CallsFit /\ PatienceFits /\ ViewFits
  BY DEF StreamInvariant
<1>2. /\ wish' = TRUE
      /\ UNCHANGED <<facts, live, lost, reader, wire, pc, generation, busy, tries, attempt, paused,
                     cursor, seen, got, shown, pause, calls, trouble>>
  BY DEF StopWhileCreating, runVars, serverVars
<1>3. StreamTypeOK'
  BY <1>1, <1>2 DEF StreamTypeOK
<1>4. HistoryFits' /\ ReaderFits' /\ WireFits' /\ ViewFits'
  BY <1>1, <1>2 DEF HistoryFits, Waiting, ReaderFits, Ended, WireFits, ViewFits
<1>5. GotFits' /\ Interruptions' = Interruptions
  BY <1>1, <1>2, GotStays, InterruptionsStay
<1>6. CallsFit'
  BY <1>1, <1>2 DEF CallsFit, Current, Expects
<1>7. PatienceFits'
  BY <1>1, <1>2, <1>5 DEF PatienceFits, PatienceIsSpentOnTrouble, Current, Ended
<1> QED BY <1>2, <1>3, <1>4, <1>5, <1>6, <1>7 DEF StreamInvariant

\* A command: nothing of an older generation is waited for any more.
LEMMA CommandKeeps ==
  ASSUME StreamInvariant, NEW type \in {"cancel", "resume"}, NEW arg \in 0 .. MaxFacts,
         arg <= Len(facts), Command(type, arg)
  PROVE  StreamInvariant' /\ UNCHANGED shown
<1> DEFINE new == [Request(type, arg) EXCEPT !.gen = generation + 1]
<1>1. StreamTypeOK /\ HistoryFits /\ GotFits /\ CallsFit /\ PatienceFits /\ ViewFits
  BY DEF StreamInvariant
<1>2. /\ busy' = TRUE /\ generation' = generation + 1 /\ generation < MaxCommands
      /\ pc' = type /\ reader' = Closed /\ wire' = <<>>
      /\ calls' = calls \union {new} /\ attempt' = 0 /\ paused' = FALSE
      /\ UNCHANGED <<facts, live, lost, wish, tries, cursor, seen, got, shown, pause, trouble>>
  BY DEF Command, Abort, runVars
<1>3. /\ generation \in Nat /\ generation + 1 \in 0 .. MaxCommands
      /\ Len(facts) \in Nat /\ 0 <= Len(facts) /\ 0 \in 0 .. MaxFacts /\ 0 \in 0 .. MaxReconnect
  <2>1. generation \in Nat /\ MaxCommands \in Nat /\ MaxReconnect \in Nat
    BY <1>1, GenerationNumber, NumbersOfTheStream
  <2> QED BY <1>1, <1>2, <2>1, GenerationNumber
<1>4. /\ new \in Call /\ new.gen = generation + 1 /\ new.at = 0 /\ new.arg = arg /\ new.type = type
  BY <1>3 DEF Request, Call
<1> HIDE DEF new
<1>5. \A c \in calls : c.gen \in Nat /\ c.gen <= generation /\ c.gen <= generation + 1 /\ c.gen # generation + 1
  <2>1. \A c \in calls : c.gen \in Nat /\ c.gen <= generation
    BY <1>1, CallNumbers DEF CallsFit
  <2> QED BY <1>3, <2>1
<1>6. calls' \subseteq Call
  BY <1>1, <1>2, <1>4 DEF StreamTypeOK
<1>7. reader' \in Reader /\ ReaderFits'
  BY <1>1, <1>2, ClosedFits
<1>8. StreamTypeOK'
  <2>1. wire' \in Seq(Frame)
    BY <1>2
  <2> QED BY <1>1, <1>2, <1>3, <1>6, <1>7, <2>1 DEF StreamTypeOK
<1>9. HistoryFits' /\ ViewFits'
  BY <1>1, <1>2 DEF HistoryFits, Waiting, ViewFits
<1>10. GotFits' /\ Interruptions' = Interruptions
  BY <1>1, <1>2, GotStays, InterruptionsStay
<1>11. WireFits'
  BY <1>2 DEF WireFits, Closed
<1>12. CallsFit'
  <2>1. generation + 1 <= generation + 1
    BY <1>3
  <2>2. \A c \in calls' : c.gen <= generation' /\ c.at <= Len(facts') /\ c.arg <= Len(facts')
    BY <1>1, <1>2, <1>3, <1>4, <1>5, <2>1 DEF CallsFit
  <2>3. \A c \in calls' : c.gen = generation' => c = new
    BY <1>2, <1>5
  <2>4. /\ new.type \in Expects(pc') /\ pc' # "reconcile"
        /\ ~(new.at > 0)
    BY <1>2, <1>4 DEF Expects
  <2> QED BY <2>2, <2>3, <2>4 DEF CallsFit, Current
<1>13. PatienceFits'
  <2>1. 0 <= Interruptions
    BY <1>1, InterruptionsAreCounted
  <2> QED BY <1>2, <1>10, <2>1 DEF PatienceFits, PatienceIsSpentOnTrouble
<1> QED BY <1>2, <1>7, <1>8, <1>9, <1>10, <1>11, <1>12, <1>13 DEF StreamInvariant

-----------------------------------------------------------------------------
(* The theorems.                                                           *)

LEMMA StreamInit_Invariant ==
  StreamInit => StreamInvariant
<1> SUFFICES ASSUME StreamInit PROVE StreamInvariant
  OBVIOUS
<1> DEFINE new == [gen |-> 0, type |-> "create", arg |-> 0, at |-> 0]
<1>1. /\ facts = <<>> /\ live = 0 /\ lost = 0 /\ reader = Closed /\ wire = <<>>
      /\ pc = "create" /\ generation = 0 /\ busy = FALSE /\ wish = FALSE /\ tries = 0
      /\ attempt = 0 /\ paused = FALSE /\ cursor = <<0, 0>> /\ seen = {} /\ got = <<>>
      /\ shown = 0 /\ pause = 0 /\ calls = {new} /\ trouble = 0
  BY DEF StreamInit
<1>2. /\ 0 \in 0 .. MaxFacts /\ 0 \in 0 .. MaxLive /\ 0 \in 0 .. MaxCommands
      /\ 0 \in 0 .. MaxReconnect /\ 0 \in 0 .. MaxTrouble /\ 0 \in 0 .. 3 /\ 0 \in 0 .. 0
      /\ 0 <= MaxFacts /\ 0 + 1 < MaxFacts + 1
  BY NumbersOfTheStream
<1>3. /\ <<>> \in Seq(Fact) /\ <<>> \in Seq(Frame) /\ <<>> \in Seq(1 .. MaxLive) /\ Len(<<>>) = 0
  OBVIOUS
<1>4. new \in Call /\ new.at = 0 /\ new.arg = 0 /\ new.gen = 0 /\ new.type = "create"
  BY <1>2 DEF Call
<1>5. Closed \in Reader
  BY <1>2, <1>3 DEF Closed, Reader
<1> HIDE DEF new
<1>6. StreamTypeOK
  <2>1. cursor \in Cursor
    BY <1>1, <1>2 DEF Cursor
  <2> QED BY <1>1, <1>2, <1>3, <1>4, <1>5, <2>1 DEF StreamTypeOK
<1>7. \A i \in 1 .. 0 : FALSE
  OBVIOUS
<1>8. HistoryFits
  BY <1>1, <1>3, <1>7 DEF HistoryFits, Waiting
<1>9. ReaderFits
  BY <1>1, <1>3, <1>7 DEF ReaderFits, Closed
<1>10. WireFits
  BY <1>1, <1>3, <1>7 DEF WireFits
<1>11. Cardinality({j \in 1 .. Len(got) : IsFact(got[j])}) = 0
  <2>1. {j \in 1 .. Len(got) : IsFact(got[j])} = {}
    BY <1>1, <1>3, <1>7
  <2> QED BY <2>1, FS_EmptySet
<1>12. GotFits
  <2>1. cursor[1] = 0 /\ cursor[1] <= Len(facts)
    BY <1>1, <1>3
  <2> QED BY <1>1, <1>3, <1>7, <1>11, <2>1 DEF GotFits
<1>13. CallsFit
  BY <1>1, <1>3, <1>4 DEF CallsFit, Current, Expects
<1>14. PatienceFits
  <2>1. 0 <= Interruptions
    BY <1>6, InterruptionsAreCounted
  <2> QED BY <1>1, <2>1 DEF PatienceFits, PatienceIsSpentOnTrouble
<1>15. ViewFits
  BY <1>1, <1>3 DEF ViewFits
<1> QED BY <1>6, <1>8, <1>9, <1>10, <1>12, <1>13, <1>14, <1>15 DEF StreamInvariant

\* Every step keeps the invariant, and what is shown moves forward.
LEMMA StreamNext_Invariant ==
  StreamInvariant /\ [StreamNext]_streamVars => StreamInvariant' /\ [shown' >= shown]_shown
<1> SUFFICES ASSUME StreamInvariant, [StreamNext]_streamVars
             PROVE  StreamInvariant' /\ (shown' >= shown \/ UNCHANGED shown)
  OBVIOUS
<1>1. CASE UNCHANGED streamVars
  <2>1. /\ UNCHANGED <<facts, serverVars, hookVars, calls, trouble>>
        /\ live' = live /\ lost' = lost
    BY <1>1 DEF streamVars, runVars
  <2>2. live \in 0 .. MaxLive /\ lost \in 0 .. live
    BY DEF StreamInvariant, StreamTypeOK
  <2> QED BY <2>1, <2>2, LiveKeeps DEF hookVars
<1>2. CASE CommitFact
  BY <1>2, CommitFactKeeps DEF CommitFact, hookVars
<1>3. CASE Publish \/ Trim
  BY <1>3, PublishAndTrimKeep DEF Publish, Trim, hookVars
<1>4. CASE ReaderStep
  <2>1. UNCHANGED shown
    BY <1>4 DEF ReaderStep, ListEvents, GetStatus, ListTail, ReadBus, SendEntry, EndRound, hookVars
  <2>2. StreamInvariant'
    BY <1>4, ListEventsKeeps, GetStatusKeeps, ListTailKeeps, ReadBusKeeps, SendEntryKeeps,
       EndRoundKeeps DEF ReaderStep
  <2> QED BY <2>1, <2>2
<1>5. CASE ServeStep
  <2>1. PICK c \in calls : Serve(c)
    BY <1>5 DEF ServeStep
  <2>2. UNCHANGED shown
    BY <2>1 DEF Serve, hookVars
  <2> QED BY <2>1, <2>2, ServeKeeps
<1>6. CASE HookStep
  <2>1. CASE Connect
    BY <2>1, ConnectKeeps DEF Connect
  <2>2. CASE Consume
    BY <2>2, ConsumeKeeps
  <2>3. CASE StreamEnds
    BY <2>3, StreamEndsKeeps DEF StreamEnds
  <2>4. CASE \E c \in calls : Reply(c) \/ Refuse(c) \/ DropStale(c)
    <3>1. PICK c \in calls : Reply(c) \/ Refuse(c) \/ DropStale(c)
      BY <2>4
    <3> QED BY <3>1, ReplyKeeps, RefuseKeeps, DropStaleKeeps
  <2> QED BY <1>6, <2>1, <2>2, <2>3, <2>4 DEF HookStep
<1>7. CASE Disconnect
  BY <1>7, DisconnectKeeps DEF Disconnect
<1>8. CASE \E c \in calls : LoseCall(c)
  BY <1>8, LoseCallKeeps
<1>9. CASE CancelRun
  <2>1. Command("cancel", 0) /\ 0 \in 0 .. MaxFacts /\ 0 <= Len(facts)
    BY <1>9, HookNumbers DEF CancelRun
  <2> QED BY <2>1, CommandKeeps
<1>10. CASE ResumeRun
  <2>1. Command("resume", pause) /\ pause \in 0 .. MaxFacts /\ pause <= Len(facts)
    BY <1>10, HookNumbers DEF ResumeRun
  <2> QED BY <2>1, CommandKeeps
<1>11. CASE StopWhileCreating
  BY <1>11, StopWhileCreatingKeeps
<1> QED
  BY <1>1, <1>2, <1>3, <1>4, <1>5, <1>6, <1>7, <1>8, <1>9, <1>10, <1>11 DEF StreamNext

\* Cursor, frames under way and reader stay in step, and the requests under way
\* with what the hook is doing.
THEOREM StreamsStayInvariant ==
  StreamSpec => []StreamInvariant
  BY StreamInit_Invariant, StreamNext_Invariant, PTL DEF StreamSpec

\* What a browser applies is the history of its Run: every fact once, in order
\* and without a gap, over any number of reconnections; the live entries in
\* order, none twice and none before the facts it builds on; a stream that the
\* server ends has carried every fact; and the hook abandons a stream only
\* after more interruptions than it may answer.
THEOREM StreamsAreFaithful ==
  StreamSpec => []StreamIsFaithful
<1>1. StreamInvariant => StreamIsFaithful
  <2> SUFFICES ASSUME StreamInvariant PROVE StreamIsFaithful
    OBVIOUS
  <2>1. StreamTypeOK /\ ReaderFits /\ GotFits /\ PatienceIsSpentOnTrouble
    BY DEF StreamInvariant, PatienceFits
  <2>2. ASSUME NEW j \in 1 .. Len(got), ~IsFact(got[j]), NEW n \in 1 .. Watermark[got[j].redis]
        PROVE  \E i \in 1 .. j : IsFact(got[i]) /\ got[i].durable = n
    <3>1. got[j].redis > 0 /\ Watermark[got[j].redis] <= got[j].durable /\ got[j].durable \in Nat
      BY <2>1, <2>2, GotNumbers DEF GotFits
    <3>2. Watermark[got[j].redis] \in Nat
      <4>1. got[j] \in Frame
        BY <2>1, GotNumbers
      <4>2. got[j].redis \in 1 .. Len(Watermark)
        BY <3>1, <4>1, FrameNumbers, NumbersOfTheStream DEF MaxLive
      <4>3. Watermark[got[j].redis] \in 0 .. MaxFacts
        BY <4>2, NumbersOfTheStream, ElementOfSeq
      <4> QED BY <4>3, NumbersOfTheStream
    <3>3. n \in 1 .. got[j].durable
      BY <3>1, <3>2
    <3> QED BY <2>1, <3>3 DEF GotFits
  <2> QED BY <2>1, <2>2 DEF StreamIsFaithful, ReaderFits, GotFits
<1> QED BY <1>1, StreamsStayInvariant, PTL

\* The status that is shown never goes back to an older one, whatever replies
\* to earlier requests are still under way.
THEOREM ViewsMoveForward ==
  StreamSpec => ViewMovesForward
<1>1. StreamInvariant /\ [StreamNext]_streamVars => [shown' >= shown]_shown
  BY StreamNext_Invariant
<1> QED BY <1>1, StreamsStayInvariant, PTL DEF StreamSpec, ViewMovesForward
-----------------------------------------------------------------------------
(* Why the end is seen.                                                    *)
(*                                                                         *)
(* EndIsSeen needs fairness; what does not is shown here.  As long as the  *)
(* hook is not at rest, it has something to consume, the generator or an   *)
(* endpoint has something to do, or a reply is under way; and once the Run *)
(* has ended, every step of theirs brings the hook nearer to its rest.     *)

Settled == {"rest", "abandoned", "error"}

\* The endpoint can answer: it may act, or find that it need not.
Answerable(c) ==
  LET n == Len(facts)
  IN  /\ c.at = 0 /\ (n > 0 \/ c.type = "create")
      /\ \/ c.type \in {"create", "snapshot"}
         \/ c.type = "cancel" /\ (~Waiting(n) \/ n < MaxFacts)
         \/ c.type = "resume" /\ Waiting(n) /\ c.arg = n

Refusable(c) == c.type = "resume" /\ c.at = 0 /\ c.arg # PauseAt(Len(facts)) /\ pc = "resume"

\* The hook, which waits for a reply, has one request under way, which was
\* answered, can be answered or is refused; the hook that follows has frames
\* to consume, or a stream that is over or goes on; and a hook at rest takes
\* commands.
NobodyWaitsInVain ==
  /\ Expects(pc) # {} =>
       \E c \in calls : /\ Current(c) /\ c.type \in Expects(pc)
                        /\ c.at > 0 \/ Answerable(c) \/ Refusable(c)
  /\ pc = "follow" => reader.pc # "closed"
  /\ pc \in Settled => ~busy

\* Why nobody does: every wait begins with a request, every stream with a
\* reader, every rest with the command given up; nothing but the creation and
\* its failure comes before the first fact; and what ended a stream is shown.
RequestsFit ==
  /\ Expects(pc) # {} => \E c \in calls : Current(c)
  /\ pc = "follow" => reader.pc # "closed"
  /\ pc \in Settled => busy = FALSE
  /\ pc \notin {"create", "error"} => Len(facts) > 0
  /\ pc \in {"follow", "calibrate"} => paused = FALSE \/ Ended(shown) \/ pause # 0
  /\ \A c \in calls : c.type = "resume" => c.arg # 0

ReaderOrder == [entries |-> 0, read |-> 0, list |-> 1, status |-> 2, tail |-> 3, done |-> 4]
Stage == [create |-> 0, cancel |-> 1, resume |-> 1, reconcile |-> 2, recover |-> 2,
          connect |-> 3, follow |-> 3, calibrate |-> 3, rest |-> 4, abandoned |-> 4, error |-> 4]
Walk == [connect |-> 0, follow |-> 1, calibrate |-> 2]

ReaderAdvances ==
  \/ ReaderOrder[reader'.pc] > ReaderOrder[reader.pc]
  \/ reader.pc = "entries" /\ reader'.pc = "entries" /\ Len(reader'.batch) < Len(reader.batch)

\* The hook goes on to its next stage, to its next stream, within its stream, or
\* to its next frame; or it drops a late reply.
HookAdvances ==
  \/ Stage[pc'] > Stage[pc]
  \/ Stage[pc] = 3 /\ Stage[pc'] = 3 /\ attempt' > attempt
  \/ Stage[pc] = 3 /\ Stage[pc'] = 3 /\ attempt' = attempt /\ Walk[pc'] > Walk[pc]
  \/ UNCHANGED <<pc, attempt, reader, calls>> /\ Len(wire') < Len(wire)
  \/ UNCHANGED <<pc, attempt, reader, wire>> /\ \E c \in calls : ~Current(c) /\ calls' = calls \ {c}

\* Of a Run that has ended the server only reads: each step of the generator,
\* the hook and the endpoints advances in these orders, and the user and the
\* network, who may interrupt, change nothing unless a command or a fault is spent.
EndComesNearer ==
  Ended(Len(facts)) =>
    /\ facts' = facts
    /\ ReaderStep => ReaderAdvances /\ UNCHANGED <<hookVars, calls>>
    /\ HookStep => HookAdvances
    /\ ServeStep => /\ UNCHANGED <<serverVars, hookVars>>
                    /\ \E c \in calls : c.at = 0 /\ calls' = (calls \ {c}) \union {[c EXCEPT !.at = Len(facts)]}
    /\ \/ ReaderStep \/ HookStep \/ ServeStep
       \/ UNCHANGED <<serverVars, pc, attempt, calls>>
       \/ generation' > generation \/ trouble' > trouble

\* After a cancellation, a calibration or a reconciliation the hook comes to rest
\* only on what the server told it: the Run has ended, or waits; and it does not
\* from a stream it follows.  (The rest that is left follows a failed command.)
RestIsEarned ==
  /\ pc \in {"cancel", "calibrate", "reconcile"} /\ pc' = "rest" => Ended(shown)' \/ pause' # 0
  /\ pc \in {"connect", "follow"} => pc' # "rest"

\* The hook does not move, and the request it waits for stays under way.
LEMMA HookStays ==
  ASSUME StreamInvariant, RequestsFit, Grows \/ UNCHANGED facts,
         UNCHANGED <<pc, generation, busy, paused, shown, pause>>,
         \A c \in calls : Current(c) => \E d \in calls' : d.gen = c.gen,
         \A d \in calls' : d.type = "resume" => d.arg # 0,
         pc = "follow" => reader'.pc # "closed"
  PROVE  RequestsFit'
<1>1. StreamTypeOK /\ shown \in Nat /\ shown <= Len(facts) /\ Len(facts) \in Nat
  BY TypesOfTheStream DEF StreamInvariant, ViewFits
<1>2. Len(facts) <= Len(facts') /\ Len(facts') \in Nat /\ \A n \in 1 .. Len(facts) : facts'[n] = facts[n]
  BY <1>1, GrownHistory, NumbersOfTheStream
<1>3. Ended(shown) => Ended(shown)'
  BY <1>1, <1>2 DEF Ended
<1>4. Expects(pc') # {} => \E d \in calls' : Current(d)'
  BY DEF RequestsFit, Current, Expects
<1>5. pc' \notin {"create", "error"} => Len(facts') > 0
  BY <1>1, <1>2 DEF RequestsFit
<1>6. pc' \in {"follow", "calibrate"} => paused' = FALSE \/ Ended(shown)' \/ pause' # 0
  BY <1>3 DEF RequestsFit
<1>7. pc' \in Settled => busy' = FALSE
  BY DEF RequestsFit
<1> QED BY <1>4, <1>5, <1>6, <1>7 DEF RequestsFit, Expects

\* The hook turns elsewhere: when it waits, with a request of its own.
LEMMA HookTurns ==
  ASSUME RequestsFit, UNCHANGED facts,
         pc' \in {"create", "error"} \/ Len(facts) > 0,
         pc' # "follow",
         Expects(pc') # {} => \E d \in calls' : d.gen = generation',
         pc' \in Settled => busy' = FALSE,
         pc' = "calibrate" => paused' = FALSE \/ Ended(shown') \/ pause' # 0,
         \A d \in calls' : d \in calls \/ d.type # "resume" \/ d.arg # 0
  PROVE  RequestsFit'
<1>1. Expects(pc)' # {} => \E d \in calls' : Current(d)'
  BY DEF Expects, Current
<1>2. \A d \in calls' : d.type = "resume" => d.arg # 0
  BY DEF RequestsFit
<1> QED BY <1>1, <1>2 DEF RequestsFit, Ended

LEMMA FactsGrow ==
  ASSUME StreamInvariant, CommitFact \/ \E c \in calls : Serve(c)
  PROVE  Grows \/ UNCHANGED facts
<1>1. Len(facts) \in Nat /\ MaxFacts \in Nat \ {0}
  BY TypesOfTheStream, NumbersOfTheStream DEF StreamInvariant
<1>2. CASE CommitFact
  BY <1>1, <1>2 DEF CommitFact, Grows, Fact, Active, Ended, Waiting
<1>3. ASSUME NEW c \in calls, Serve(c) PROVE Grows \/ UNCHANGED facts
  <2>1. Waiting(Len(facts)) => Len(facts) + 1 < MaxFacts /\ ~Ended(Len(facts))
    BY DEF StreamInvariant, HistoryFits, Waiting, Ended
  <2> QED BY <1>1, <1>3, <2>1 DEF Serve, Grows, Fact, Active, Ended
<1> QED BY <1>2, <1>3

\* Facts, entries and endpoints.
LEMMA ServersKeepRequests ==
  ASSUME StreamInvariant, RequestsFit, CommitFact \/ Publish \/ Trim \/ ServeStep
  PROVE  RequestsFit'
<1>1. StreamTypeOK /\ HistoryFits
  BY DEF StreamInvariant
<1>2. CASE CommitFact
  <2>1. UNCHANGED <<calls, reader, pc, generation, busy, paused, shown, pause>>
    BY <1>2 DEF CommitFact, hookVars, serverVars
  <2> QED BY <1>2, <2>1, FactsGrow, HookStays DEF RequestsFit
<1>3. CASE Publish \/ Trim
  <2>1. UNCHANGED <<facts, calls, reader, pc, generation, busy, paused, shown, pause>>
    BY <1>3 DEF Publish, Trim, hookVars, serverVars
  <2> QED BY <2>1, HookStays DEF RequestsFit
<1>4. CASE ServeStep
  <2>1. PICK c \in calls : Serve(c)
    BY <1>4 DEF ServeStep
  <2>2. /\ UNCHANGED <<reader, pc, generation, busy, paused, shown, pause>>
        /\ calls' = (calls \ {c}) \union {[c EXCEPT !.at = Len(facts')]}
    BY <2>1 DEF Serve, hookVars, serverVars
  <2>3. c \in Call
    BY <1>1 DEF StreamTypeOK
  <2> DEFINE e == [c EXCEPT !.at = Len(facts')]
  <2>4. e.gen = c.gen /\ e.type = c.type /\ e.arg = c.arg
    BY <2>3 DEF Call
  <2> HIDE DEF e
  <2>5. calls' = (calls \ {c}) \union {e}
    BY <2>2 DEF e
  <2>6. \A d \in calls : Current(d) => \E g \in calls' : g.gen = d.gen
    BY <2>4, <2>5
  <2>7. \A d \in calls' : d.type = "resume" => d.arg # 0
    BY <2>4, <2>5 DEF RequestsFit
  <2>8. Grows \/ UNCHANGED facts
    BY <2>1, FactsGrow
  <2> QED BY <2>2, <2>6, <2>7, <2>8, HookStays DEF RequestsFit
<1> QED BY <1>2, <1>3, <1>4

LEMMA ReaderKeepsRequests ==
  ASSUME StreamInvariant, RequestsFit, ReaderStep
  PROVE  RequestsFit'
<1>1. reader \in Reader
  BY DEF StreamInvariant, StreamTypeOK
<1>2. UNCHANGED <<facts, calls, pc, generation, busy, paused, shown, pause>>
  BY DEF ReaderStep, ListEvents, GetStatus, ListTail, ReadBus, SendEntry, EndRound, hookVars, runVars
<1>3. \A upto : Continue(upto).pc \in {"read", "entries", "list"}
  BY <1>1 DEF Continue, Reader
<1>4. reader'.pc # "closed"
  BY <1>1, <1>3 DEF ReaderStep, ListEvents, GetStatus, ListTail, ReadBus, SendEntry, EndRound, Reader
<1> QED BY <1>2, <1>4, HookStays DEF RequestsFit

\* Every request the hook makes is of the present generation.
LEMMA RequestOfNow ==
  ASSUME NEW type, NEW arg
  PROVE  Request(type, arg).gen = generation /\ Request(type, arg).type = type
         /\ Request(type, arg).arg = arg /\ Request(type, arg).at = 0
  BY DEF Request

LEMMA FramesKeepRequests ==
  ASSUME StreamInvariant, RequestsFit, Connect \/ Consume \/ StreamEnds \/ Disconnect
  PROVE  RequestsFit'
<1>1. /\ UNCHANGED <<facts, generation, busy>> /\ pc \in {"connect", "follow"} /\ Len(facts) > 0
  BY DEF Connect, Consume, StreamEnds, Disconnect, RequestsFit, runVars
<1>2. ASSUME Calibrate, paused' = FALSE \/ Ended(shown') \/ pause' # 0
      PROVE  RequestsFit'
  <2>1. pc' = "calibrate" /\ calls' = calls \union {Request("snapshot", 0)}
    BY <1>2 DEF Calibrate
  <2>2. Request("snapshot", 0).gen = generation' /\ Request("snapshot", 0).type = "snapshot"
    BY <1>1, RequestOfNow
  <2> QED BY <1>1, <1>2, <2>1, <2>2, HookTurns DEF Settled
<1>3. CASE Connect
  <2>1. /\ pc' = "follow" /\ paused' = FALSE /\ calls' = calls
        /\ reader' = [Closed EXCEPT !.pc = "list", !.durable = cursor[1], !.redis = cursor[2]]
    BY <1>3 DEF Connect
  <2>2. reader'.pc # "closed"
    BY <2>1 DEF Closed
  <2> QED BY <1>1, <2>1, <2>2 DEF RequestsFit, Expects, Settled
<1>4. CASE Consume
  <2> DEFINE frame == Head(wire)
             fact == IF frame.type = "fact" THEN facts[frame.durable] ELSE "progress"
  <2>1. /\ pc = "follow" /\ wire # <<>>
    BY <1>4 DEF Consume
  <2>2. /\ frame.durable \in Nat /\ Id(frame) \notin seen /\ Follows(cursor, frame)
    BY <2>1, NextFrame
  <2>3. /\ shown' = IF fact = "end" THEN frame.durable ELSE shown
        /\ pause' = CASE fact = "end" -> 0
                      [] fact = "paused" -> frame.durable
                      [] OTHER -> pause
        /\ paused' = (fact \in {"end", "paused"})
        /\ IF paused' THEN Calibrate
           ELSE wire' = Tail(wire) /\ UNCHANGED <<reader, pc, calls>>
    BY <1>4, <2>2 DEF Consume, Id
  <2>4. CASE paused'
    <3>0. fact \in {"end", "paused"}
      BY <2>3, <2>4
    <3>1. frame.type = "fact" /\ frame.durable > 0
      <4>1. frame.type = "fact"
        BY <3>0
      <4>2. cursor[1] \in Nat
        BY TypesOfTheStream DEF StreamInvariant
      <4> QED BY <2>2, <4>1, <4>2 DEF Follows
    <3>2. Ended(shown') \/ pause' # 0
      BY <2>2, <2>3, <3>0, <3>1 DEF Ended
    <3> QED BY <1>2, <2>3, <2>4, <3>2
  <2>5. CASE ~paused'
    <3> HIDE DEF fact
    <3>1. paused' \in BOOLEAN
      BY <2>3
    <3>2. UNCHANGED <<reader, pc, calls>>
      BY <2>3, <2>5
    <3>3. paused' = FALSE
      BY <2>5, <3>1
    <3> QED BY <1>1, <2>1, <3>2, <3>3 DEF RequestsFit, Expects, Settled, Current
  <2> QED BY <2>4, <2>5
<1>5. CASE StreamEnds
  <2>1. Calibrate /\ pc = "follow" /\ UNCHANGED <<paused, shown, pause>>
    BY <1>5 DEF StreamEnds
  <2>2. paused' = FALSE \/ Ended(shown') \/ pause' # 0
    BY <2>1 DEF RequestsFit
  <2> QED BY <1>2, <2>1, <2>2
<1>6. CASE Disconnect
  BY <1>2, <1>6 DEF Disconnect
<1> QED BY <1>3, <1>4, <1>5, <1>6

LEMMA ReplyKeepsRequests ==
  ASSUME StreamInvariant, RequestsFit, NEW c \in calls, Reply(c)
  PROVE  RequestsFit'
<1>1. /\ c.at > 0 /\ UNCHANGED <<facts, generation>> /\ paused' = FALSE
      /\ OnCreated(c) \/ OnCancelled(c) \/ OnResumed(c) \/ OnSnapshot(c)
  BY DEF Reply, runVars
<1>2. Len(facts) > 0
  BY <1>1, CallNumbers, TypesOfTheStream DEF StreamInvariant, CallsFit
<1>3. \/ pc' = "cancel" /\ calls' = (calls \ {c}) \union {Request("cancel", 0)}
      \/ pc' = "reconcile" /\ calls' = (calls \ {c}) \union {Request("snapshot", c.at)}
      \/ pc' = "connect" /\ calls' = calls \ {c}
      \/ pc' \in Settled /\ busy' = FALSE /\ calls' = calls \ {c}
  BY <1>1 DEF OnCreated, OnCancelled, OnResumed, OnSnapshot, Follow, Reconnect, Settle, Settled
<1>4. /\ Request("cancel", 0).gen = generation' /\ Request("cancel", 0).type = "cancel"
      /\ Request("snapshot", c.at).gen = generation' /\ Request("snapshot", c.at).type = "snapshot"
  BY <1>1, RequestOfNow
<1>5. pc' # "calibrate" /\ pc' # "follow"
  BY <1>3 DEF Settled
<1>6. Expects(pc') # {} => \E d \in calls' : d.gen = generation'
  BY <1>3, <1>4 DEF Expects, Settled
<1>7. \A d \in calls' : d \in calls \/ d.type # "resume" \/ d.arg # 0
  BY <1>3, <1>4
<1>8. pc' \in Settled => busy' = FALSE
  BY <1>3 DEF Settled
<1> QED BY <1>1, <1>2, <1>5, <1>6, <1>7, <1>8, HookTurns

LEMMA FailureKeepsRequests ==
  ASSUME StreamInvariant, RequestsFit, NEW c \in calls, Fails(c)
  PROVE  RequestsFit'
<1>1. /\ UNCHANGED <<facts, generation>> /\ paused' = FALSE
      /\ CreateFails(c) \/ CommandFails(c) \/ SnapshotFails(c)
  BY DEF Fails, runVars
<1>2. pc \notin {"create", "error"} => Len(facts) > 0
  BY DEF RequestsFit
<1>3. \/ pc = "create" /\ pc' = "create" /\ calls' = (calls \ {c}) \union {Request("create", 0)}
      \/ pc' = "recover" /\ pc # "create" /\ calls' = (calls \ {c}) \union {Request("snapshot", 0)}
      \/ pc' = "connect" /\ pc # "create" /\ calls' = calls \ {c}
      \/ pc' \in Settled /\ (pc # "create" \/ pc' = "error") /\ busy' = FALSE /\ calls' = calls \ {c}
  BY <1>1 DEF CreateFails, CommandFails, SnapshotFails, Follow, Reconnect, Settle, Settled
<1>4. /\ Request("create", 0).gen = generation' /\ Request("create", 0).type = "create"
      /\ Request("snapshot", 0).gen = generation' /\ Request("snapshot", 0).type = "snapshot"
  BY <1>1, RequestOfNow
<1>5. pc' # "calibrate" /\ pc' # "follow"
  BY <1>3 DEF Settled
<1>6. pc \notin {"error"}
  BY <1>1 DEF CreateFails, CommandFails, SnapshotFails
<1>7. pc' \in {"create", "error"} \/ Len(facts) > 0
  BY <1>2, <1>3, <1>6
<1>8. Expects(pc') # {} => \E d \in calls' : d.gen = generation'
  BY <1>3, <1>4 DEF Expects, Settled
<1>9. \A d \in calls' : d \in calls \/ d.type # "resume" \/ d.arg # 0
  BY <1>3, <1>4
<1>10. pc' \in Settled => busy' = FALSE
  BY <1>3 DEF Settled
<1> QED BY <1>1, <1>5, <1>7, <1>8, <1>9, <1>10, HookTurns

LEMMA CommandKeepsRequests ==
  ASSUME StreamInvariant, RequestsFit, CancelRun \/ ResumeRun
  PROVE  RequestsFit'
<1>1. PICK type \in {"cancel", "resume"}, arg \in {0, pause} :
        Command(type, arg) /\ (type = "resume" => arg # 0)
  BY DEF CancelRun, ResumeRun
<1>2. Len(facts) > 0
  <2>1. shown \in Nat /\ pause \in Nat /\ shown <= Len(facts) /\ pause <= Len(facts) /\ Len(facts) \in Nat
    BY TypesOfTheStream DEF StreamInvariant, ViewFits
  <2> QED BY <2>1 DEF CancelRun, ResumeRun
<1> DEFINE e == [Request(type, arg) EXCEPT !.gen = generation + 1]
<1>3. /\ pc' = type /\ generation' = generation + 1 /\ UNCHANGED facts
      /\ calls' = calls \union {e} /\ paused' = FALSE
  BY <1>1 DEF Command, runVars
<1>4. e.gen = generation + 1 /\ e.type = type /\ e.arg = arg
  BY DEF Request
<1> HIDE DEF e
<1>5. pc' # "follow" /\ pc' # "calibrate" /\ pc' \notin Settled
  BY <1>3 DEF Settled
<1>6. \A d \in calls' : d \in calls \/ d.type # "resume" \/ d.arg # 0
  BY <1>1, <1>3, <1>4
<1> QED BY <1>2, <1>3, <1>4, <1>5, <1>6, HookTurns

LEMMA RequestsFitInit ==
  ASSUME StreamInit
  PROVE  RequestsFit
<1>1. /\ pc = "create" /\ generation = 0
      /\ calls = {[gen |-> 0, type |-> "create", arg |-> 0, at |-> 0]}
  BY DEF StreamInit
<1> QED BY <1>1 DEF RequestsFit, Expects, Settled, Current

LEMMA RequestsFitStep ==
  ASSUME StreamInvariant, RequestsFit, [StreamNext]_streamVars
  PROVE  RequestsFit'
<1>1. CASE UNCHANGED streamVars
  <2>1. UNCHANGED <<facts, calls, reader, pc, generation, busy, paused, shown, pause>>
    BY <1>1 DEF streamVars, runVars, serverVars, hookVars
  <2> QED BY <2>1, HookStays DEF RequestsFit
<1>2. ASSUME NEW c \in calls, DropStale(c) PROVE RequestsFit'
  <2>1. UNCHANGED <<facts, reader, pc, generation, busy, paused, shown, pause>>
        /\ calls' = calls \ {c} /\ ~Current(c)
    BY <1>2 DEF DropStale, runVars, serverVars, hookVars
  <2>2. \A d \in calls : Current(d) => \E e \in calls' : e.gen = d.gen
    BY <2>1
  <2> QED BY <2>1, <2>2, HookStays DEF RequestsFit
<1>3. CASE StopWhileCreating
  <2>1. UNCHANGED <<facts, calls, reader, pc, generation, busy, paused, shown, pause>>
    BY <1>3 DEF StopWhileCreating, runVars, serverVars
  <2> QED BY <2>1, HookStays DEF RequestsFit
<1>4. ASSUME NEW c \in calls, LoseCall(c) \/ Refuse(c) PROVE RequestsFit'
  BY <1>4, FailureKeepsRequests DEF LoseCall, Refuse
<1>5. CASE HookStep
  BY <1>2, <1>4, <1>5, FramesKeepRequests, ReplyKeepsRequests DEF HookStep
<1> QED BY <1>1, <1>3, <1>4, <1>5, ServersKeepRequests, ReaderKeepsRequests, FramesKeepRequests,
           CommandKeepsRequests DEF StreamNext

LEMMA StreamKeepsRequests == StreamSpec => [](StreamInvariant /\ RequestsFit)
<1>1. StreamInit => StreamInvariant /\ RequestsFit
  BY StreamInit_Invariant, RequestsFitInit
<1>2. StreamInvariant /\ RequestsFit /\ [StreamNext]_streamVars => (StreamInvariant /\ RequestsFit)'
  BY StreamNext_Invariant, RequestsFitStep
<1> QED BY <1>1, <1>2, PTL DEF StreamSpec

\* The hook never waits for a reply to a request it has not made, that was
\* dropped as one of an older generation, or that the endpoint can neither carry
\* out nor refuse; it never follows a stream without a generator; and when it has
\* come to rest it takes commands, whatever was lost on the way.
THEOREM BrowsersAreAnswered == StreamSpec => []NobodyWaitsInVain
<1>1. ASSUME StreamInvariant, RequestsFit, NEW c \in calls, Current(c)
      PROVE  c.type \in Expects(pc) /\ (c.at > 0 \/ Answerable(c) \/ Refusable(c))
  <2> DEFINE n == Len(facts)
  <2>1. /\ c.type \in Expects(pc) /\ c.at \in Nat /\ n \in Nat /\ MaxFacts \in Nat
        /\ c.type = "resume" => c.arg # 0
        /\ n = 0 => pc \in {"create", "error"}
    <3>1. c.type \in Expects(pc) /\ c.at \in Nat
      BY <1>1, WaitedFor
    <3>2. n \in Nat /\ MaxFacts \in Nat
      BY <1>1, TypesOfTheStream, NumbersOfTheStream DEF StreamInvariant
    <3>3. (c.type = "resume" => c.arg # 0) /\ (n = 0 => pc \in {"create", "error"})
      BY <1>1, <3>2 DEF RequestsFit
    <3> QED BY <3>1, <3>2, <3>3
  <2>2. Waiting(n) => n < MaxFacts
    BY <1>1, <2>1 DEF StreamInvariant, HistoryFits
  <2> SUFFICES ASSUME c.at = 0 PROVE Answerable(c) \/ Refusable(c)
    BY <2>1
  <2>3. c.type = "create" \/ n > 0
    BY <2>1 DEF Expects
  <2>4. c.type \in {"create", "cancel", "resume", "snapshot"}
    BY <2>1 DEF Expects
  <2>5. CASE c.type \in {"create", "snapshot"}
    BY <2>3, <2>5 DEF Answerable
  <2>6. CASE c.type = "cancel"
    BY <2>2, <2>3, <2>6 DEF Answerable
  <2>7. CASE c.type = "resume"
    <3>1. pc = "resume"
      BY <2>1, <2>7 DEF Expects
    <3>2. CASE c.arg = PauseAt(n)
      <4>1. Waiting(n) /\ c.arg = n
        BY <2>1, <2>7, <3>2 DEF PauseAt
      <4> QED BY <2>3, <2>7, <4>1 DEF Answerable
    <3>3. CASE c.arg # PauseAt(n)
      BY <2>7, <3>1, <3>3 DEF Refusable
    <3> QED BY <3>2, <3>3
  <2> QED BY <2>4, <2>5, <2>6, <2>7
<1>2. StreamInvariant /\ RequestsFit => NobodyWaitsInVain
  <2> SUFFICES ASSUME StreamInvariant, RequestsFit PROVE NobodyWaitsInVain
    OBVIOUS
  <2>1. ASSUME Expects(pc) # {}
        PROVE  \E c \in calls : /\ Current(c) /\ c.type \in Expects(pc)
                                /\ c.at > 0 \/ Answerable(c) \/ Refusable(c)
    BY <1>1, <2>1 DEF RequestsFit
  <2>2. pc = "follow" => reader.pc # "closed"
    BY DEF RequestsFit
  <2>3. pc \in Settled => ~busy
    BY DEF RequestsFit
  <2> QED BY <2>1, <2>2, <2>3 DEF NobodyWaitsInVain
<1> QED BY <1>2, StreamKeepsRequests, PTL

-----------------------------------------------------------------------------
LEMMA EndedStays ==
  ASSUME StreamInvariant, Ended(Len(facts)), StreamNext
  PROVE  facts' = facts /\ ~CommitFact
<1>1. ~CommitFact
  BY DEF CommitFact
<1>2. ASSUME NEW c \in calls, Serve(c) PROVE facts' = facts
  <2>1. Len(facts) > 0 /\ ~Waiting(Len(facts))
    BY DEF Ended, Waiting
  <2> QED BY <1>2, <2>1 DEF Serve, Active
<1>3. CASE ServeStep
  BY <1>1, <1>2, <1>3 DEF ServeStep
<1>4. CASE ReaderStep
  BY <1>1, <1>4 DEF ReaderStep, ListEvents, GetStatus, ListTail, ReadBus, SendEntry, EndRound, runVars
<1>5. CASE HookStep \/ Disconnect \/ \E c \in calls : LoseCall(c)
  BY <1>1, <1>5 DEF HookStep, Connect, Consume, StreamEnds, Reply, Refuse, DropStale, Disconnect, LoseCall, Fails,
              runVars
<1>6. CASE Publish \/ Trim \/ CancelRun \/ ResumeRun \/ StopWhileCreating
  BY <1>1, <1>6 DEF Publish, Trim, CancelRun, ResumeRun, Command, StopWhileCreating, runVars
<1> QED BY <1>1, <1>3, <1>4, <1>5, <1>6 DEF StreamNext

LEMMA ReadersAdvance ==
  ASSUME StreamInvariant, Ended(Len(facts)), ReaderStep
  PROVE  ReaderAdvances /\ UNCHANGED <<hookVars, calls>>
<1>1. /\ reader \in Reader /\ reader.batch \in Seq(1 .. MaxLive)
  BY ReaderNumbers DEF StreamInvariant
<1>2. UNCHANGED <<hookVars, calls>>
  BY DEF ReaderStep, ListEvents, GetStatus, ListTail, ReadBus, SendEntry, EndRound
<1>3. /\ ReaderOrder["entries"] = 0 /\ ReaderOrder["read"] = 0 /\ ReaderOrder["list"] = 1
      /\ ReaderOrder["status"] = 2 /\ ReaderOrder["tail"] = 3 /\ ReaderOrder["done"] = 4
  BY DEF ReaderOrder
<1>4. \/ reader.pc = "list" /\ reader'.pc = "status"
      \/ reader.pc = "status" /\ reader'.pc = "tail"
      \/ reader.pc = "tail" /\ reader'.pc = "done"
      \/ reader.pc = "read" /\ reader'.pc = "list"
      \/ reader.pc = "entries" /\ reader'.pc = "list"
      \/ reader.pc = "entries" /\ reader'.pc = "entries" /\ Len(reader'.batch) < Len(reader.batch)
  <2>1. CASE ListEvents \/ GetStatus \/ ListTail
    BY <1>1, <2>1 DEF ListEvents, GetStatus, ListTail, Reader
  <2>2. CASE ReadBus \/ EndRound
    BY <1>1, <2>2 DEF ReadBus, EndRound, Reader
  <2>3. CASE SendEntry
    <3>1. reader.pc = "entries" /\ reader.batch # <<>>
      BY <2>3 DEF SendEntry
    <3>2. Len(Tail(reader.batch)) < Len(reader.batch)
      BY <1>1, <3>1, HeadAndRest
    <3>3. \/ reader' = [reader EXCEPT !.pc = "list", !.for = "entry"]
          \/ reader' = [reader EXCEPT !.redis = Head(reader.batch), !.batch = Tail(reader.batch)]
      BY <2>3 DEF SendEntry
    <3> QED BY <1>1, <3>1, <3>2, <3>3 DEF Reader
  <2> QED BY <2>1, <2>2, <2>3 DEF ReaderStep
<1> QED BY <1>2, <1>3, <1>4 DEF ReaderAdvances

LEMMA HooksAdvance ==
  ASSUME StreamInvariant, HookStep
  PROVE  HookAdvances
<1>1. /\ StreamTypeOK /\ attempt \in Nat
  BY TypesOfTheStream DEF StreamInvariant
<1>2. /\ Stage["create"] = 0 /\ Stage["cancel"] = 1 /\ Stage["resume"] = 1
      /\ Stage["reconcile"] = 2 /\ Stage["recover"] = 2
      /\ Stage["connect"] = 3 /\ Stage["follow"] = 3 /\ Stage["calibrate"] = 3
      /\ Stage["rest"] = 4 /\ Stage["abandoned"] = 4 /\ Stage["error"] = 4
      /\ Walk["connect"] = 0 /\ Walk["follow"] = 1 /\ Walk["calibrate"] = 2
  BY DEF Stage, Walk
<1>3. CASE Connect \/ StreamEnds
  <2>1. /\ attempt' = attempt
        /\ \/ pc = "connect" /\ pc' = "follow"
           \/ pc = "follow" /\ pc' = "calibrate"
    BY <1>3 DEF Connect, StreamEnds, Calibrate
  <2> QED BY <1>2, <2>1 DEF HookAdvances
<1>4. CASE Consume
  <2>1. /\ pc = "follow" /\ wire # <<>> /\ attempt' = attempt
        /\ \/ wire' = Tail(wire) /\ UNCHANGED <<reader, pc, calls>>
           \/ pc' = "calibrate"
    BY <1>4 DEF Consume, Calibrate
  <2>2. Len(Tail(wire)) < Len(wire)
    BY <1>1, <2>1, HeadAndRest DEF StreamTypeOK
  <2> QED BY <1>2, <2>1, <2>2 DEF HookAdvances
<1>5. ASSUME NEW c \in calls, Reply(c) PROVE HookAdvances
  <2>1. OnCreated(c) \/ OnCancelled(c) \/ OnResumed(c) \/ OnSnapshot(c)
    BY <1>5 DEF Reply
  <2>2. \/ pc = "create" /\ pc' \in {"cancel", "connect"}
        \/ pc = "cancel" /\ pc' \in {"rest", "connect"}
        \/ pc = "resume" /\ pc' = "reconcile"
        \/ pc = "calibrate" /\ pc' \in {"rest", "abandoned"}
        \/ pc = "calibrate" /\ pc' = "connect" /\ attempt' = attempt + 1
        \/ pc \in {"reconcile", "recover"} /\ pc' \in {"rest", "connect"}
    BY <2>1 DEF OnCreated, OnCancelled, OnResumed, OnSnapshot, Follow, Reconnect, Settle
  <2> QED BY <1>1, <1>2, <2>2 DEF HookAdvances
<1>6. ASSUME NEW c \in calls, Refuse(c) PROVE HookAdvances
  <2>1. pc = "resume" /\ pc' \in {"recover", "error"}
    BY <1>6 DEF Refuse, Fails, CreateFails, CommandFails, SnapshotFails, Settle
  <2> QED BY <1>2, <2>1 DEF HookAdvances
<1>7. ASSUME NEW c \in calls, DropStale(c) PROVE HookAdvances
  BY <1>7 DEF DropStale, HookAdvances, hookVars, serverVars
<1> QED BY <1>3, <1>4, <1>5, <1>6, <1>7 DEF HookStep

\* Once the Run has ended, its history stays as it is, and every step of the
\* generator (_event_stream) brings the stream nearer to its end, every step of
\* the hook (useRunSSE) the hook nearer to its rest, every step of an endpoint a
\* reply under way; no other step sets them back, but a command of the user or
\* a fault.
THEOREM EndsComeNearer == StreamSpec => [][EndComesNearer]_streamVars
<1>1. ASSUME StreamInvariant, StreamNext, Ended(Len(facts)) PROVE EndComesNearer
  <2>1. facts' = facts /\ ~CommitFact
    BY <1>1, EndedStays
  <2>2. ReaderStep => ReaderAdvances /\ UNCHANGED <<hookVars, calls>>
    BY <1>1, ReadersAdvance
  <2>3. HookStep => HookAdvances
    BY <1>1, HooksAdvance
  <2>4. ASSUME ServeStep
        PROVE  /\ UNCHANGED <<serverVars, hookVars>>
               /\ \E c \in calls : c.at = 0 /\ calls' = (calls \ {c}) \union {[c EXCEPT !.at = Len(facts)]}
    BY <2>1, <2>4 DEF ServeStep, Serve
  <2>5. \/ ReaderStep \/ HookStep \/ ServeStep
        \/ UNCHANGED <<serverVars, pc, attempt, calls>>
        \/ generation' > generation \/ trouble' > trouble
    <3>1. generation \in Nat /\ trouble \in Nat
      BY <1>1, GenerationNumber, TypesOfTheStream DEF StreamInvariant
    <3>2. CASE Publish \/ Trim \/ StopWhileCreating
      BY <3>2 DEF Publish, Trim, StopWhileCreating, hookVars
    <3>3. CASE Disconnect \/ \E c \in calls : LoseCall(c)
      BY <3>1, <3>3 DEF Disconnect, LoseCall
    <3>4. CASE CancelRun \/ ResumeRun
      BY <3>1, <3>4 DEF CancelRun, ResumeRun, Command
    <3> QED BY <1>1, <2>1, <3>2, <3>3, <3>4 DEF StreamNext
  <2> QED BY <2>1, <2>2, <2>3, <2>4, <2>5 DEF EndComesNearer
<1>2. StreamInvariant /\ [StreamNext]_streamVars => [EndComesNearer]_streamVars
  BY <1>1 DEF EndComesNearer
<1> QED BY <1>2, StreamsStayInvariant, PTL DEF StreamSpec

\* The hook comes to rest with the end or a pause on display: no reply, loss or
\* reconnection makes it stop following for another reason, unless a command of
\* the user has failed.
THEOREM RestsAreEarned == StreamSpec => [][RestIsEarned]_streamVars
<1>1. ASSUME StreamInvariant, RequestsFit, StreamNext, pc \in {"cancel", "calibrate", "reconcile"}, pc' = "rest"
      PROVE  Ended(shown)' \/ pause' # 0
  <2>1. ASSUME NEW c \in calls, Reply(c) PROVE Ended(shown)' \/ pause' # 0
    <3>1. facts' = facts /\ c.at > 0
      BY <2>1 DEF Reply, runVars
    <3>2. CASE OnCancelled(c)
      BY <1>1, <3>1, <3>2 DEF OnCancelled, Follow, Ended
    <3>3. CASE OnSnapshot(c)
      <4>1. shown' = c.at /\ pause' = PauseAt(c.at) /\ ~Active(c.at)
        BY <1>1, <3>3 DEF OnSnapshot, Display, Reconnect, Follow, Settle, Active
      <4>2. Ended(c.at) \/ Waiting(c.at)
        BY <4>1 DEF Active
      <4>3. CASE Ended(c.at)
        BY <3>1, <4>1, <4>3 DEF Ended
      <4>4. CASE Waiting(c.at)
        <5>1. c.at \in Nat
          BY <1>1, CallNumbers DEF StreamInvariant
        <5> QED BY <3>1, <4>1, <4>4, <5>1 DEF PauseAt
      <4> QED BY <4>2, <4>3, <4>4
    <3>4. ~OnCreated(c) /\ ~OnResumed(c)
      BY <1>1 DEF OnCreated, OnResumed
    <3> QED BY <2>1, <3>2, <3>3, <3>4 DEF Reply
  <2>2. ASSUME NEW c \in calls, Fails(c) PROVE Ended(shown)' \/ pause' # 0
    <3>1. facts' = facts
      BY <2>2 DEF Fails, runVars
    <3>2. pc = "calibrate" /\ paused /\ UNCHANGED <<shown, pause>>
      BY <1>1, <2>2 DEF Fails, CreateFails, CommandFails, SnapshotFails, Reconnect, Follow, Settle
    <3>3. Ended(shown) \/ pause # 0
      BY <1>1, <3>2 DEF RequestsFit
    <3> QED BY <3>1, <3>2, <3>3 DEF Ended
  <2>3. ASSUME UNCHANGED pc PROVE FALSE
    BY <1>1, <2>3
  <2>4. CASE CommitFact \/ Publish \/ Trim \/ ReaderStep \/ ServeStep \/ StopWhileCreating
    BY <2>3, <2>4 DEF CommitFact, Publish, Trim, ReaderStep, ListEvents, GetStatus, ListTail, ReadBus,
       SendEntry, EndRound, ServeStep, Serve, StopWhileCreating, hookVars
  <2>5. CASE Connect \/ Consume \/ StreamEnds \/ Disconnect \/ CancelRun \/ ResumeRun
    BY <1>1, <2>5 DEF Connect, Consume, StreamEnds, Disconnect, CancelRun, ResumeRun, Command, Calibrate
  <2>6. ASSUME NEW c \in calls, LoseCall(c) \/ Refuse(c) \/ DropStale(c) PROVE Ended(shown)' \/ pause' # 0
    BY <2>2, <2>3, <2>6 DEF LoseCall, Refuse, DropStale, hookVars
  <2> QED BY <1>1, <2>1, <2>4, <2>5, <2>6 DEF StreamNext, HookStep
<1>2. ASSUME StreamNext, pc \in {"connect", "follow"}, pc' = "rest" PROVE FALSE
  <2>1. CASE CommitFact \/ Publish \/ Trim \/ ReaderStep \/ ServeStep \/ StopWhileCreating
    BY <1>2, <2>1 DEF CommitFact, Publish, Trim, ReaderStep, ListEvents, GetStatus, ListTail, ReadBus,
       SendEntry, EndRound, ServeStep, Serve, StopWhileCreating, hookVars
  <2>2. CASE Connect \/ Consume \/ StreamEnds \/ Disconnect \/ CancelRun \/ ResumeRun
    BY <1>2, <2>2 DEF Connect, Consume, StreamEnds, Disconnect, CancelRun, ResumeRun, Command, Calibrate
  <2>3. ASSUME NEW c \in calls, Reply(c) \/ LoseCall(c) \/ Refuse(c) \/ DropStale(c) PROVE FALSE
    BY <1>2, <2>3 DEF Reply, OnCreated, OnCancelled, OnResumed, OnSnapshot, LoseCall, Refuse, DropStale,
       Fails, CreateFails, CommandFails, SnapshotFails, hookVars
  <2> QED BY <1>2, <2>1, <2>2, <2>3 DEF StreamNext, HookStep
<1>3. StreamInvariant /\ RequestsFit /\ [StreamNext]_streamVars => [RestIsEarned]_streamVars
  BY <1>1, <1>2 DEF RestIsEarned
<1> QED BY <1>3, StreamKeepsRequests, PTL DEF StreamSpec
=============================================================================
