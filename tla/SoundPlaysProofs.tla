--------------------------- MODULE SoundPlaysProofs ---------------------------
(***************************************************************************)
(* Proofs about SampleQueue and SoundPlays, for any size of the queue, any *)
(* length of the sound and any number of calls.                            *)
(***************************************************************************)
EXTENDS SoundPlays, FiniteSetTheorems, TLAPS

(***************************************************************************)
(* The inductive invariant.                                                *)
(***************************************************************************)
Device == consumer["device"]
One(b) == IF b THEN 1 ELSE 0

\* Slots from the head on that are taken, and those of them that are filled.
Taken  == usedBuffers + One(Device.pc = "move") + One(producer.pc # "idle")
Filled == usedBuffers + One(Device.pc = "move") + One(producer.pc \in {"flag", "signal"})
Place(k) == IF bufferHead + k < size THEN bufferHead + k ELSE bufferHead + k - size

\* The places of the three threads fit each other: who holds the mutex, who
\* may be in the queue, and how long the pointers to the decoder are set.
PlacesFit ==
    /\ producer.pc # "idle" <=> job = "decode"
    /\ ~ConsumerAt("job", "idle") => job \in {"skip", "discard"}
    /\ ~ConsumerAt("script", "idle") => Skipping
    /\ ~ConsumerAt("device", "idle") => audioStream
    /\ decoder => job \notin {"none", "pooled", "open", "ended", "next", "fence"}
    /\ job \notin {"none", "pooled", "open", "remove", "ended", "next", "fence"} => decoder
    /\ audioDecoder \/ audioStream => decoder /\ job \notin {"skip", "invalid"}
    /\ Skipping => audioDecoder /\ stopped
    /\ mutex = "script" <=> Skipping
    /\ job = "discard" => audioDecoder /\ stopped
    /\ mutex = "job" <=> job = "discard"
    /\ job \notin {"none", "pooled", "fence"} => loopstogo >= 1
    /\ OneJob

\* With the device as only consumer the taken slots follow the head, and the
\* filled ones hold consecutive frames that end with the last one decoded.
RingOrder ==
    /\ bufferTail = Place(Taken)
    /\ producer.pc # "idle" => producer.slot = Place(Taken - 1)
    /\ Device.pc = "move" => Device.head = bufferHead
    /\ Taken = 0 => empty \/ (Device.pc = "mark" /\ Device.last)
    /\ \A k \in 0..(Filled - 1) : queue[Place(k)].frame = decoded - Filled + 1 + k
    /\ played <= decoded
    /\ \A i \in Slots : queue[i].frame <= decoded
    /\ Filled > 0 => /\ played <= decoded - Filled + 1
                     /\ queue[bufferHead].len # 0 => played <= decoded - Filled

\* The sound is playing and nobody skips its frames.
DeviceOnly == ~stopped /\ decoder /\ job # "skip"

\* The variables that are not the queue's have their types.
JobPlaces ==
    {"none", "pooled", "open", "invalid", "loop", "acquire", "decode", "publish",
     "attach", "again", "error", "discard", "flush", "test", "wait", "finish",
     "remove", "skip", "ended", "next", "fence"}

ChannelOK ==
    /\ stopped \in BOOLEAN /\ terminated \in BOOLEAN /\ stopping \in BOOLEAN
    /\ finished \in BOOLEAN /\ restartafterabort \in BOOLEAN /\ posted \in BOOLEAN
    /\ decoder \in BOOLEAN /\ audioDecoder \in BOOLEAN /\ audioStream \in BOOLEAN
    /\ threadAborting \in BOOLEAN /\ shuttingdown \in BOOLEAN
    /\ jobs \in Nat /\ calls \in 0..MaxCalls /\ loopstogo \in Nat
    /\ job \in JobPlaces
    /\ mutex \in {"free", "script", "job"} /\ pool \in {"running", "stopped"}
    /\ script \in {"idle", "await", "replay", "abort", "skip", "ends", "join"}

QueueOK == QueueTypeOK /\ SlotsAccounted

SoundInv == QueueOK /\ ChannelOK /\ PlacesFit /\ (DeviceOnly => RingOrder)

(***************************************************************************)
(* The places of the ring.                                                 *)
(***************************************************************************)
\* The next slot, without the remainder.
LEMMA NextSlot ==
  ASSUME NEW i \in Slots
  PROVE  Next1(i) = (IF i + 1 = size THEN 0 ELSE i + 1) /\ Next1(i) \in Slots
<1>1. i \in Int /\ 0 <= i /\ i + 1 <= size /\ size \in Nat \ {0}
  BY QueueAssumption DEF Slots
<1>2. CASE i + 1 = size
  <2>1. (i + 1) % size = 0
    BY <1>1, <1>2, SMT
  <2> QED
    BY <2>1, <1>1, <1>2 DEF Next1, Slots
<1>3. CASE i + 1 < size
  <2>1. (i + 1) % size = i + 1
    BY <1>1, <1>3, SMT
  <2> QED
    BY <2>1, <1>1, <1>3 DEF Next1, Slots
<1> QED
  BY <1>1, <1>2, <1>3

\* What is counted of the slots.
LEMMA CountFacts ==
  ASSUME QueueTypeOK
  PROVE  /\ Taken \in Nat /\ Filled \in Nat
         /\ Filled = Taken - One(producer.pc = "fill")
         /\ size \in Nat \ {0} /\ bufferHead \in 0..(size - 1)
         /\ Consumers = {"device", "script", "job"}
<1>1. usedBuffers \in Nat /\ bufferHead \in 0..(size - 1)
      /\ producer.pc \in {"idle", "fill", "flag", "signal"}
  BY DEF QueueTypeOK, Slots
<1> QED
  BY <1>1, QueueAssumption, SoundAssumption DEF Taken, Filled, One

(***************************************************************************)
(* Who is in the middle of a pop.                                          *)
(***************************************************************************)
LEMMA PoppingFinite ==
  IsFiniteSet(Popping) /\ Cardinality(Popping) \in Nat
<1>1. IsFiniteSet({"device", "script", "job"})
  <2>1. IsFiniteSet({} \union {"device"})
    BY FS_EmptySet, FS_AddElement
  <2>2. IsFiniteSet(({} \union {"device"}) \union {"script"})
    BY <2>1, FS_AddElement
  <2>3. IsFiniteSet((({} \union {"device"}) \union {"script"}) \union {"job"})
    BY <2>2, FS_AddElement
  <2> QED
    BY <2>3
<1>2. Popping \in SUBSET {"device", "script", "job"}
  BY SoundAssumption DEF Popping
<1> QED
  BY <1>1, <1>2, FS_Subset, FS_CardinalityType

Middle == {"move", "mark", "free"}
ConsumerStates == [pc : {"idle", "pop", "move", "mark", "free", "check"}, head : Slots, last : BOOLEAN]

\* One consumer goes on: the set changes by that consumer.
LEMMA PoppingStep ==
  ASSUME QueueTypeOK, NEW c \in Consumers, NEW r,
         consumer' = [consumer EXCEPT ![c] = r]
  PROVE  /\ r.pc \in Middle => Popping' = Popping \union {c}
         /\ r.pc \notin Middle => Popping' = Popping \ {c}
         /\ Cardinality(Popping') = Cardinality(Popping) + One(r.pc \in Middle)
                                    - One(consumer[c].pc \in Middle)
<1>1. \A d \in Consumers : consumer'[d] = IF d = c THEN r ELSE consumer[d]
  BY DEF QueueTypeOK
<1>2. c \in Popping <=> consumer[c].pc \in Middle
  BY DEF Popping, Middle
<1>3. CASE r.pc \in Middle
  <2>1. Popping' = Popping \union {c}
    BY <1>1, <1>3 DEF Popping, Middle
  <2>2. Cardinality(Popping') = IF c \in Popping THEN Cardinality(Popping) ELSE Cardinality(Popping) + 1
    BY <2>1, PoppingFinite, FS_AddElement
  <2> QED
    BY <2>1, <2>2, <1>2, <1>3, PoppingFinite DEF One
<1>4. CASE r.pc \notin Middle
  <2>1. Popping' = Popping \ {c}
    BY <1>1, <1>4 DEF Popping, Middle
  <2>2. Cardinality(Popping') = IF c \in Popping THEN Cardinality(Popping) - 1 ELSE Cardinality(Popping)
    BY <2>1, PoppingFinite, FS_RemoveElement
  <2> QED
    BY <2>1, <2>2, <1>2, <1>4, PoppingFinite DEF One
<1> QED
  BY <1>3, <1>4

LEMMA PoppingSame ==
  ASSUME QueueTypeOK, NEW c \in Consumers, NEW r,
         consumer' = [consumer EXCEPT ![c] = r],
         r.pc \in Middle <=> consumer[c].pc \in Middle
  PROVE  Cardinality(Popping') = Cardinality(Popping)
<1>1. Cardinality(Popping') = Cardinality(Popping) + One(r.pc \in Middle)
                              - One(consumer[c].pc \in Middle)
  BY PoppingStep, Zenon
<1>2. One(r.pc \in Middle) = One(consumer[c].pc \in Middle) /\ One(r.pc \in Middle) \in {0, 1}
  BY DEF One
<1> QED
  BY <1>1, <1>2, PoppingFinite

\* A consumer enters the middle of a pop, or leaves it.
LEMMA PoppingMore ==
  ASSUME QueueTypeOK, NEW c \in Consumers, NEW r,
         consumer' = [consumer EXCEPT ![c] = r], r.pc \in Middle, consumer[c].pc \notin Middle
  PROVE  Cardinality(Popping') = Cardinality(Popping) + 1
<1>1. Cardinality(Popping') = Cardinality(Popping) + One(r.pc \in Middle)
                              - One(consumer[c].pc \in Middle)
  BY PoppingStep, Zenon
<1>2. One(r.pc \in Middle) = 1 /\ One(consumer[c].pc \in Middle) = 0
  BY DEF One
<1> QED
  BY <1>1, <1>2, PoppingFinite

LEMMA PoppingLess ==
  ASSUME QueueTypeOK, NEW c \in Consumers, NEW r,
         consumer' = [consumer EXCEPT ![c] = r], r.pc \notin Middle, consumer[c].pc \in Middle
  PROVE  Cardinality(Popping') = Cardinality(Popping) - 1
<1>1. Cardinality(Popping') = Cardinality(Popping) + One(r.pc \in Middle)
                              - One(consumer[c].pc \in Middle)
  BY PoppingStep, Zenon
<1>2. One(r.pc \in Middle) = 0 /\ One(consumer[c].pc \in Middle) = 1
  BY DEF One
<1> QED
  BY <1>1, <1>2, PoppingFinite

(***************************************************************************)
(* The steps of the queue keep its types and the account of the slots.     *)
(***************************************************************************)
LEMMA AcquireOK ==
  ASSUME QueueOK, acquireLast
  PROVE  QueueOK'
<1>1. QueueTypeOK'
  BY NextSlot DEF QueueOK, acquireLast, QueueTypeOK, flushVars
<1>2. Popping' = Popping
  BY DEF acquireLast, Popping
<1>3. SlotsAccounted'
  BY <1>2, PoppingFinite DEF QueueOK, acquireLast, QueueTypeOK, SlotsAccounted
<1> QED
  BY <1>1, <1>3 DEF QueueOK

LEMMA ProduceOK ==
  ASSUME QueueOK, Produce
  PROVE  QueueOK'
<1>1. CASE Fill
  <2>1. QueueTypeOK'
    BY <1>1, QueueAssumption DEF QueueOK, Fill, QueueTypeOK, flushVars
  <2>2. Popping' = Popping
    BY <1>1 DEF Fill, Popping
  <2>3. SlotsAccounted'
    BY <1>1, <2>2, PoppingFinite DEF QueueOK, Fill, QueueTypeOK, SlotsAccounted
  <2> QED
    BY <2>1, <2>3 DEF QueueOK
<1>2. CASE CommitFlag
  <2>1. QueueTypeOK'
    BY <1>2, QueueAssumption DEF QueueOK, CommitFlag, QueueTypeOK, flushVars
  <2>2. Popping' = Popping
    BY <1>2 DEF CommitFlag, Popping
  <2>3. SlotsAccounted'
    BY <1>2, <2>2, PoppingFinite DEF QueueOK, CommitFlag, QueueTypeOK, SlotsAccounted
  <2> QED
    BY <2>1, <2>3 DEF QueueOK
<1>3. CASE CommitSignal
  <2>1. QueueTypeOK'
    BY <1>3, QueueAssumption DEF QueueOK, CommitSignal, QueueTypeOK, flushVars,
         NotProducing, Slots
  <2>2. Popping' = Popping
    BY <1>3 DEF CommitSignal, Popping
  <2>3. SlotsAccounted'
    BY <1>3, <2>2, PoppingFinite DEF QueueOK, CommitSignal, QueueTypeOK, SlotsAccounted,
         NotProducing
  <2> QED
    BY <2>1, <2>3 DEF QueueOK
<1> QED
  BY <1>1, <1>2, <1>3 DEF Produce

\* The ways of a pop.
LEMMA PopOK ==
  ASSUME QueueOK, NEW c \in Consumers, PopGoesOn(c)
  PROVE  QueueOK'
<1> USE DEF QueueOK
<1>1. CASE TryWait(c)
  <2>1. CASE usedBuffers = 0
    <3> DEFINE r == [consumer[c] EXCEPT !.pc = "check"]
    <3>1. consumer' = [consumer EXCEPT ![c] = r] /\ UNCHANGED <<freeBuffers, usedBuffers, producer>>
      BY <1>1, <2>1 DEF TryWait, QueueTypeOK
    <3>2. r.pc = "check" /\ consumer[c].pc = "pop"
      BY <1>1 DEF TryWait, ConsumerAt, QueueTypeOK
    <3>3. Cardinality(Popping') = Cardinality(Popping)
      <4> HIDE DEF r
      <4> QED
        BY <3>1, <3>2, PoppingSame DEF Middle
    <3>4. QueueTypeOK'
      BY <1>1, <2>1, <3>1 DEF TryWait, QueueTypeOK, flushVars
    <3> QED
      BY <3>1, <3>3, <3>4 DEF SlotsAccounted
  <2>2. CASE usedBuffers # 0
    <3> DEFINE r == [consumer[c] EXCEPT !.pc = "move", !.head = bufferHead]
    <3>1. consumer' = [consumer EXCEPT ![c] = r] /\ UNCHANGED <<freeBuffers, producer>>
          /\ usedBuffers' = usedBuffers - 1
      BY <1>1, <2>2 DEF TryWait, QueueTypeOK
    <3>2. r.pc = "move" /\ consumer[c].pc = "pop"
      BY <1>1 DEF TryWait, ConsumerAt, QueueTypeOK
    <3>3. Cardinality(Popping') = Cardinality(Popping) + 1
      <4> HIDE DEF r
      <4> QED
        BY <3>1, <3>2, PoppingMore DEF Middle
    <3>4. QueueTypeOK'
      <4>1. usedBuffers' \in Nat
        <5>1. usedBuffers \in Nat /\ usedBuffers' = usedBuffers - 1
          BY <3>1 DEF QueueTypeOK
        <5> QED
          BY <5>1, <2>2
      <4>2. consumer' \in [Consumers -> ConsumerStates]
        BY <3>1 DEF QueueTypeOK, ConsumerStates
      <4> QED
        BY <1>1, <2>2, <4>1, <4>2 DEF TryWait, QueueTypeOK, flushVars, ConsumerStates
    <3> QED
      <4> HIDE DEF r
      <4>1. freeBuffers \in Nat /\ usedBuffers \in Nat
        BY DEF QueueTypeOK
      <4>2. freeBuffers' = freeBuffers /\ usedBuffers' = usedBuffers - 1 /\ producer' = producer
        BY <3>1
      <4> QED
        BY <4>1, <4>2, <3>3, <3>4, PoppingFinite DEF SlotsAccounted
  <2> QED
    BY <2>1, <2>2
<1>2. CASE MoveHead(c)
  <2> DEFINE r == [consumer[c] EXCEPT !.pc = "mark", !.last = (bufferHead' = bufferTail)]
  <2>1. consumer' = [consumer EXCEPT ![c] = r] /\ UNCHANGED <<freeBuffers, usedBuffers, producer>>
    BY <1>2 DEF MoveHead, IsLast
  <2>2. r.pc = "mark" /\ consumer[c].pc = "move" /\ consumer[c].head \in Slots
    BY <1>2 DEF MoveHead, ConsumerAt, QueueTypeOK
  <2>3. Cardinality(Popping') = Cardinality(Popping)
    <3> HIDE DEF r
    <3> QED
      BY <2>1, <2>2, PoppingSame DEF Middle
  <2>4. bufferHead' \in Slots
    BY <1>2, <2>2, NextSlot DEF MoveHead
  <2>5. QueueTypeOK'
    <3>1. consumer' \in [Consumers -> ConsumerStates]
      <4>1. consumer \in [Consumers -> ConsumerStates]
        BY DEF QueueTypeOK, ConsumerStates
      <4>2. r \in ConsumerStates
        BY <4>1 DEF ConsumerStates
      <4> HIDE DEF r
      <4> QED
        BY <2>1, <4>1, <4>2
    <3> QED
      BY <1>2, <2>4, <3>1 DEF MoveHead, QueueTypeOK, flushVars, ConsumerStates
  <2> QED
    BY <2>1, <2>3, <2>5 DEF SlotsAccounted
<1>3. CASE MarkEmpty(c)
  <2> DEFINE r == [consumer[c] EXCEPT !.pc = "free"]
  <2>1. consumer' = [consumer EXCEPT ![c] = r] /\ UNCHANGED <<freeBuffers, usedBuffers, producer>>
    BY <1>3 DEF MarkEmpty, QueueTypeOK
  <2>2. r.pc = "free" /\ consumer[c].pc = "mark"
    BY <1>3 DEF MarkEmpty, ConsumerAt, QueueTypeOK
  <2>3. Cardinality(Popping') = Cardinality(Popping)
    <3> HIDE DEF r
    <3> QED
      BY <2>1, <2>2, PoppingSame DEF Middle
  <2>5. QueueTypeOK'
    <3>1. r \in ConsumerStates /\ consumer \in [Consumers -> ConsumerStates]
      BY DEF QueueTypeOK, ConsumerStates
    <3>2. consumer' \in [Consumers -> ConsumerStates]
      <4> HIDE DEF r
      <4> QED
        BY <2>1, <3>1
    <3>3. empty' \in BOOLEAN
      BY <1>3 DEF MarkEmpty
    <3> QED
      BY <1>3, <3>2, <3>3 DEF MarkEmpty, QueueTypeOK, flushVars, ConsumerStates
  <2> QED
    BY <2>1, <2>3, <2>5 DEF SlotsAccounted
<1>4. CASE SignalFree(c)
  <2> DEFINE r == [consumer[c] EXCEPT !.pc = "check"]
  <2>1. consumer' = [consumer EXCEPT ![c] = r] /\ UNCHANGED <<usedBuffers, producer>>
        /\ freeBuffers' = freeBuffers + 1
    BY <1>4 DEF SignalFree, QueueTypeOK
  <2>2. r.pc = "check" /\ consumer[c].pc = "free"
    BY <1>4 DEF SignalFree, ConsumerAt, QueueTypeOK
  <2>3. Cardinality(Popping') = Cardinality(Popping) - 1
    <3> HIDE DEF r
    <3> QED
      BY <2>1, <2>2, PoppingLess DEF Middle
  <2>5. QueueTypeOK'
    <3>1. r \in ConsumerStates /\ consumer \in [Consumers -> ConsumerStates]
      BY DEF QueueTypeOK, ConsumerStates
    <3>2. consumer' \in [Consumers -> ConsumerStates]
      <4> HIDE DEF r
      <4> QED
        BY <2>1, <3>1
    <3>3. freeBuffers' \in Nat
      BY <2>1 DEF QueueTypeOK
    <3> QED
      BY <1>4, <3>2, <3>3 DEF SignalFree, QueueTypeOK, flushVars, ConsumerStates
  <2> QED
    BY <1>4, <2>3, <2>5, PoppingFinite DEF SignalFree, SlotsAccounted, QueueTypeOK
<1>5. CASE CheckFlushed(c)
  <2>1. consumer' = [consumer EXCEPT ![c] = NotPopping] /\ UNCHANGED <<freeBuffers, usedBuffers, producer>>
    BY <1>5 DEF CheckFlushed, ringVars
  <2>2. NotPopping.pc = "idle" /\ consumer[c].pc = "check"
    BY <1>5 DEF CheckFlushed, ConsumerAt, NotPopping
  <2>3. Cardinality(Popping') = Cardinality(Popping)
    BY <2>1, <2>2, PoppingSame DEF Middle
  <2>4. status' \in {"INIT", "VALID", "FLUSHED"} /\ flushed' \in 0..MaxFlushed
    BY <1>5, QueueAssumption DEF CheckFlushed, FlushIf, SignalFlushed, QueueTypeOK
  <2>5. QueueTypeOK'
    BY <1>5, <2>1, <2>4, QueueAssumption DEF CheckFlushed, QueueTypeOK, ringVars,
         NotPopping, Slots
  <2> QED
    BY <2>1, <2>3, <2>5 DEF SlotsAccounted
<1> QED
  BY <1>1, <1>2, <1>3, <1>4, <1>5 DEF PopGoesOn

\* The begin of a pop, with and without a copy.
LEMMA DiscardOK ==
  ASSUME QueueOK, NEW c \in Consumers, Discard(c)
  PROVE  QueueOK'
<1> DEFINE r == [consumer[c] EXCEPT !.pc = "pop"]
<1>1. consumer' = [consumer EXCEPT ![c] = r] /\ UNCHANGED <<freeBuffers, usedBuffers, producer>>
  BY DEF Discard, QueueTypeOK, ringVars
<1>2. r.pc = "pop" /\ consumer[c].pc = "idle"
  BY DEF Discard, ConsumerAt, QueueTypeOK, QueueOK
<1>3. Cardinality(Popping') = Cardinality(Popping)
  <2> HIDE DEF r
  <2> QED
    BY <1>1, <1>2, PoppingSame DEF QueueOK, Middle
<1>4. QueueTypeOK'
  BY <1>1 DEF Discard, QueueTypeOK, ringVars, flushVars, QueueOK
<1> QED
  BY <1>1, <1>3, <1>4 DEF SlotsAccounted, QueueOK

LEMMA CopyFrameOK ==
  ASSUME QueueOK, NEW c \in Consumers, CopyFrame(c)
  PROVE  QueueOK'
<1> DEFINE r == [consumer[c] EXCEPT !.pc = "pop"]
<1>1. consumer' = [consumer EXCEPT ![c] = r] /\ UNCHANGED <<freeBuffers, usedBuffers, producer>>
  BY DEF CopyFrame, QueueTypeOK
<1>2. r.pc = "pop" /\ consumer[c].pc = "idle"
  BY DEF CopyFrame, ConsumerAt, QueueTypeOK, QueueOK
<1>3. Cardinality(Popping') = Cardinality(Popping)
  <2> HIDE DEF r
  <2> QED
    BY <1>1, <1>2, PoppingSame DEF QueueOK, Middle
<1>4. QueueTypeOK'
  BY <1>1 DEF CopyFrame, QueueTypeOK, flushVars, QueueOK
<1> QED
  BY <1>1, <1>3, <1>4 DEF SlotsAccounted, QueueOK

\* The steps that only set what the end of the sound is told by.
LEMMA FlushOK ==
  ASSUME QueueOK, UNCHANGED <<ringVars, producer, consumer, decoded, played>>,
         flushing' \in BOOLEAN, flushed' \in 0..MaxFlushed,
         status' \in {"INIT", "VALID", "FLUSHED"}
  PROVE  QueueOK'
<1>1. Popping' = Popping
  BY DEF Popping
<1>2. QueueTypeOK'
  BY DEF QueueOK, QueueTypeOK, ringVars
<1> QED
  BY <1>1, <1>2 DEF QueueOK, SlotsAccounted, ringVars

LEMMA NewQueueOK ==
  ASSUME QueueOK, NewQueue, producer.pc = "idle", \A c \in Consumers : ConsumerAt(c, "idle")
  PROVE  QueueOK'
<1>1. Popping' = {} /\ Popping = {}
  BY DEF Popping, NewQueue, ConsumerAt
<1>2. QueueTypeOK'
  <2>1. 0 \in Slots
    BY QueueAssumption DEF Slots
  <2> QED
    <3>1. size \in Nat /\ 0 \in 0..MaxFlushed
      BY QueueAssumption
    <3> QED
      BY <2>1, <3>1 DEF QueueOK, QueueTypeOK, NewQueue
<1> QED
  BY <1>1, <1>2, FS_EmptySet, QueueAssumption DEF QueueOK, SlotsAccounted, NewQueue

(***************************************************************************)
(* The order of the frames in the ring, with the device as only consumer.  *)
(***************************************************************************)
OthersIdle == ConsumerAt("job", "idle") /\ ConsumerAt("script", "idle")

LEMMA TakenBound ==
  ASSUME QueueOK
  PROVE  Taken + freeBuffers <= size /\ freeBuffers \in Nat
<1>0. /\ freeBuffers \in Nat /\ usedBuffers \in Nat /\ size \in Nat
      /\ freeBuffers + usedBuffers + Cardinality(Popping) + One(producer.pc # "idle") = size
      /\ Taken = usedBuffers + One(Device.pc = "move") + One(producer.pc # "idle")
      /\ One(producer.pc # "idle") \in {0, 1}
  BY QueueAssumption DEF QueueOK, QueueTypeOK, SlotsAccounted, Taken, One
<1>1. CASE Device.pc = "move"
  <2>1. "device" \in Popping
    BY <1>1, SoundAssumption DEF Popping, Device
  <2>2. Cardinality(Popping) # 0
    BY <2>1, PoppingFinite, FS_EmptySet
  <2> QED
    BY <1>0, <1>1, <2>2, PoppingFinite DEF One
<1>2. CASE Device.pc # "move"
  BY <1>0, <1>2, PoppingFinite DEF One
<1> QED
  BY <1>1, <1>2

\* The decoding thread takes the slot at the tail.
LEMMA AcquireOrder ==
  ASSUME QueueOK, RingOrder, acquireLast
  PROVE  RingOrder'
<1>1. Taken' = Taken + 1 /\ Filled' = Filled
  <2>1. producer.pc = "idle" /\ producer'.pc = "fill" /\ usedBuffers' = usedBuffers /\ Device' = Device
        /\ usedBuffers \in Nat
    BY DEF QueueOK, QueueTypeOK, acquireLast, Device
  <2> QED
    BY <2>1 DEF Taken, Filled, One
<1>2. Taken < size /\ Taken \in Nat /\ size \in Nat /\ bufferHead \in 0..(size - 1)
  BY TakenBound, CountFacts DEF QueueOK, acquireLast
<1>3. \A k : Place(k)' = Place(k)
  BY DEF acquireLast, Place
<1>4. bufferTail' = Place(Taken')
  <2>1. Next1(bufferTail) = IF bufferTail + 1 = size THEN 0 ELSE bufferTail + 1
    BY NextSlot DEF QueueOK, QueueTypeOK
  <2> QED
    BY <1>1, <1>2, <2>1 DEF RingOrder, acquireLast, Place
<1>5. producer'.slot = Place(Taken' - 1)
  BY <1>1, <1>2 DEF RingOrder, acquireLast
<1>6. UNCHANGED <<queue, decoded, played, bufferHead, empty, Device>> /\ Taken' # 0
  BY <1>1, <1>2 DEF acquireLast, Device
<1> QED
  BY <1>1, <1>3, <1>4, <1>5, <1>6 DEF RingOrder

\* The frame that is filled follows the filled ones.
LEMMA FillOrder ==
  ASSUME QueueOK, RingOrder, Fill
  PROVE  RingOrder'
<1>1. Taken' = Taken /\ Filled' = Filled + 1 /\ Taken = Filled + 1
  BY CountFacts DEF QueueOK, Fill, Taken, Filled, One, Device, QueueTypeOK
<1>2. Taken <= size /\ Filled \in Nat /\ size \in Nat \ {0} /\ bufferHead \in 0..(size - 1)
  BY TakenBound, CountFacts DEF QueueOK
<1>3. \A k : Place(k)' = Place(k)
  BY DEF Fill, Place
<1>4. producer.slot = Place(Filled) /\ Place(Filled) \in Slots
  BY <1>1, <1>2 DEF RingOrder, Fill, Place, Slots
<1>5. \A k \in 0..(Filled - 1) : Place(k) # Place(Filled) /\ Place(k) \in Slots
  BY <1>1, <1>2 DEF Place, Slots
<1>6. decoded \in Nat /\ played \in Nat /\ decoded' = decoded + 1 /\ played' = played
  BY DEF QueueOK, QueueTypeOK, Fill
<1>7. \A i \in Slots : queue'[i] = IF i = Place(Filled) THEN [frame |-> decoded + 1, len |-> 1] ELSE queue[i]
  BY <1>4 DEF QueueOK, QueueTypeOK, Fill
<1>8. \A i \in Slots : queue[i].frame \in Nat
  BY DEF QueueOK, QueueTypeOK
<1>9. \A k \in 0..(Filled' - 1) : queue'[Place(k)].frame = decoded' - Filled' + 1 + k
  <2> SUFFICES ASSUME NEW k \in 0..(Filled' - 1)
               PROVE  queue'[Place(k)].frame = decoded' - Filled' + 1 + k
    OBVIOUS
  <2>1. CASE k = Filled
    BY <1>1, <1>2, <1>4, <1>6, <1>7, <2>1
  <2>2. CASE k # Filled
    <3>1. k \in 0..(Filled - 1)
      BY <1>1, <1>2, <2>2
    <3>2. queue'[Place(k)] = queue[Place(k)]
      BY <3>1, <1>5, <1>7
    <3> QED
      BY <3>1, <3>2, <1>1, <1>2, <1>6 DEF RingOrder
  <2> QED
    BY <2>1, <2>2
<1>10. \A i \in Slots : queue'[i].frame <= decoded'
  BY <1>6, <1>7, <1>8 DEF RingOrder
<1>11. played' <= decoded' - Filled' + 1
  BY <1>1, <1>2, <1>6 DEF RingOrder
<1>12. queue'[bufferHead].len # 0 => played' <= decoded' - Filled'
  <2>1. CASE Filled = 0
    BY <2>1, <1>1, <1>6 DEF RingOrder
  <2>2. CASE Filled # 0
    <3>1. Place(0) = bufferHead
      BY <1>2 DEF Place
    <3>2. queue'[bufferHead] = queue[bufferHead]
      BY <2>2, <3>1, <1>2, <1>5, <1>7
    <3> QED
      BY <2>2, <3>2, <1>1, <1>2, <1>6 DEF RingOrder
  <2> QED
    BY <2>1, <2>2
<1>13. played' <= decoded'
  BY <1>6 DEF RingOrder
<1>14. UNCHANGED <<bufferHead, bufferTail, empty, Device>> /\ producer'.slot = producer.slot /\ Taken' # 0
  BY <1>1, <1>2 DEF Fill, Device, QueueOK, QueueTypeOK
<1> QED
  BY <1>1, <1>2, <1>3, <1>4, <1>9, <1>10, <1>11, <1>12, <1>13, <1>14 DEF RingOrder

LEMMA CommitOrder ==
  ASSUME QueueOK, RingOrder, CommitFlag \/ CommitSignal
  PROVE  RingOrder'
<1>1. Taken' = Taken /\ Filled' = Filled /\ Taken # 0
  BY CountFacts DEF QueueOK, CommitFlag, CommitSignal, Taken, Filled, One, Device,
       QueueTypeOK, NotProducing
<1>2. \A k : Place(k)' = Place(k)
  BY DEF CommitFlag, CommitSignal, Place
<1>3. UNCHANGED <<queue, decoded, played, bufferHead, bufferTail, Device>>
      /\ (producer'.pc # "idle" => producer.pc # "idle" /\ producer'.slot = producer.slot)
  BY DEF CommitFlag, CommitSignal, Device, QueueOK, QueueTypeOK, NotProducing
<1> QED
  BY <1>1, <1>2, <1>3 DEF RingOrder

\* Steps that touch neither the ring nor those at work in it.
LEMMA SameOrder ==
  ASSUME RingOrder,
         UNCHANGED <<queue, usedBuffers, bufferHead, bufferTail, empty, producer, consumer, decoded, played>>
  PROVE  RingOrder'
<1>1. Taken' = Taken /\ Filled' = Filled /\ Device' = Device
  BY DEF Taken, Filled, Device
<1>2. \A k : Place(k)' = Place(k)
  BY DEF Place
<1> QED
  BY <1>1, <1>2 DEF RingOrder

\* What the device copies is the next frame, or the slot in the making.
LEMMA CopyOrder ==
  ASSUME QueueOK, RingOrder, CopyFrame("device")
  PROVE  /\ RingOrder'
         /\ played' # played => played' > played \/ FrontUnfilled
<1>1. /\ ~empty /\ Device.pc = "idle" /\ Device'.pc = "pop"
      /\ UNCHANGED <<usedBuffers, bufferHead, bufferTail, empty, producer, decoded>>
  BY SoundAssumption DEF CopyFrame, ConsumerAt, Device, QueueOK, QueueTypeOK
<1>2. Taken' = Taken /\ Filled' = Filled
  BY <1>1 DEF Taken, Filled, One
<1>3. Taken \in Nat /\ Filled \in Nat /\ Taken # 0 /\ size \in Nat \ {0}
      /\ bufferHead \in 0..(size - 1) /\ bufferHead \in Slots
  BY <1>1, CountFacts DEF RingOrder, QueueOK, QueueTypeOK
<1>4. \A k : Place(k)' = Place(k)
  BY <1>1 DEF Place
<1>5. \A i \in Slots : /\ queue'[i].frame = queue[i].frame
                       /\ queue'[i].len = IF i = bufferHead THEN 0 ELSE queue[i].len
                       /\ queue[i].frame \in Nat
  <2>1. queue \in [Slots -> [frame : Nat, len : {0, 1}]] /\ bufferHead \in Slots
    BY DEF QueueOK, QueueTypeOK
  <2> DEFINE r == [queue[bufferHead] EXCEPT !.len = 0]
  <2>2. r.frame = queue[bufferHead].frame /\ r.len = 0
    BY <2>1
  <2>3. queue' = [queue EXCEPT ![bufferHead] = r]
    BY DEF CopyFrame
  <2> HIDE DEF r
  <2>4. \A i \in Slots : queue'[i] = IF i = bufferHead THEN r ELSE queue[i]
    BY <2>1, <2>3
  <2>5. \A i \in Slots : queue[i].frame \in Nat
    BY <2>1
  <2> QED
    BY <2>1, <2>2, <2>4, <2>5
<1>6. played' = IF queue[bufferHead].len = 0 THEN played ELSE queue[bufferHead].frame
  BY DEF CopyFrame
<1>7. decoded \in Nat /\ played \in Nat
  BY DEF QueueOK, QueueTypeOK
<1>8. Place(0) = bufferHead
  BY <1>3 DEF Place
<1>9. Filled > 0 => queue[bufferHead].frame = decoded - Filled + 1
  BY <1>3, <1>7, <1>8 DEF RingOrder
<1>10. \A k \in 0..(Filled - 1) : Place(k) \in Slots
  <2>1. Filled <= size
    BY TakenBound, CountFacts DEF QueueOK, One
  <2> QED
    BY <1>3, <2>1 DEF Place, Slots
<1>11. played' \in Nat /\ played' <= decoded /\ (Filled > 0 => played' <= decoded - Filled + 1)
  <2>1. queue[bufferHead].frame \in Nat
    BY <1>3, <1>5
  <2>2. queue[bufferHead].frame <= decoded
    BY <1>3 DEF RingOrder
  <2>3. played <= decoded /\ (Filled > 0 => played <= decoded - Filled + 1)
    BY DEF RingOrder
  <2> QED
    BY <2>1, <2>2, <2>3, <1>3, <1>6, <1>7, <1>9
<1>12. RingOrder'
  <2>1. \A k \in 0..(Filled' - 1) : queue'[Place(k)].frame = decoded' - Filled' + 1 + k
    BY <1>1, <1>2, <1>5, <1>10 DEF RingOrder
  <2>2. \A i \in Slots : queue'[i].frame <= decoded'
    BY <1>1, <1>5 DEF RingOrder
  <2>3. queue'[bufferHead'].len = 0
    BY <1>1, <1>3, <1>5
  <2>4. bufferTail' = Place(Taken) /\ (producer'.pc # "idle" => producer'.slot = Place(Taken - 1))
    BY <1>1 DEF RingOrder
  <2> QED
    BY <1>1, <1>2, <1>3, <1>4, <1>11, <2>1, <2>2, <2>3, <2>4 DEF RingOrder
<1>13. ASSUME played' # played
       PROVE  played' > played \/ FrontUnfilled
  <2>1. CASE Filled > 0
    BY <2>1, <1>3, <1>6, <1>7, <1>9, <1>13 DEF RingOrder
  <2>2. CASE Filled = 0
    <3>1. producer.pc = "fill" /\ Taken = 1
      BY <2>2, <1>3, CountFacts DEF QueueOK, One
    <3> QED
      BY <3>1, <1>8 DEF FrontUnfilled, RingOrder
  <2> QED
    BY <2>1, <2>2, <1>3
<1> QED
  BY <1>12, <1>13

\* The device moves the head past a filled slot.
LEMMA MoveOrder ==
  ASSUME QueueOK, RingOrder, MoveHead("device")
  PROVE  RingOrder'
<1>1. /\ Device.pc = "move" /\ Device'.pc = "mark" /\ Device'.last = (bufferHead' = bufferTail)
      /\ bufferHead' = Next1(bufferHead)
      /\ UNCHANGED <<queue, usedBuffers, bufferTail, empty, producer, decoded, played>>
  BY SoundAssumption DEF MoveHead, ConsumerAt, Device, QueueOK, QueueTypeOK, RingOrder, IsLast
<1>2. Taken \in Nat /\ Filled \in Nat /\ size \in Nat \ {0} /\ bufferHead \in 0..(size - 1)
      /\ Taken <= size /\ Filled <= Taken /\ bufferHead \in Slots
  BY TakenBound, CountFacts DEF QueueOK, QueueTypeOK, One
<1>3. Taken' = Taken - 1 /\ Filled' = Filled - 1 /\ Filled > 0
  <2>1. usedBuffers \in Nat
    BY DEF QueueOK, QueueTypeOK
  <2> QED
    BY <1>1, <2>1 DEF Taken, Filled, One
<1>4. bufferHead' = IF bufferHead + 1 = size THEN 0 ELSE bufferHead + 1
  BY <1>1, <1>2, NextSlot
<1>5. \A k \in 0..(size - 1) : Place(k)' = Place(k + 1)
  BY <1>2, <1>4 DEF Place
<1>6. decoded \in Nat /\ played \in Nat
  BY DEF QueueOK, QueueTypeOK
<1>7. bufferTail' = Place(Taken)' /\ (producer'.pc # "idle" => producer'.slot = Place(Taken - 1)')
  <2>1. bufferTail = Place(Taken) /\ (producer.pc # "idle" => producer.slot = Place(Taken - 1))
    BY DEF RingOrder
  <2>2. \A k \in 0..(size - 1) : Place(k + 1) = IF bufferHead' + k < size THEN bufferHead' + k ELSE bufferHead' + k - size
    BY <1>2, <1>4 DEF Place
  <2>3. Place(Taken)' = Place(Taken' + 1)
    BY <1>2, <1>3, <2>2 DEF Place
  <2>4. producer.pc # "idle" => Taken > 1
    <3>1. usedBuffers \in Nat
      BY DEF QueueOK, QueueTypeOK
    <3> QED
      BY <3>1, <1>1 DEF Taken, One
  <2>5. ASSUME producer.pc # "idle"
        PROVE  Place(Taken - 1)' = Place(Taken' - 1 + 1)
    BY <1>2, <1>3, <2>2, <2>4, <2>5 DEF Place
  <2>6. Taken' + 1 = Taken /\ Taken' - 1 + 1 = Taken - 1
    BY <1>2, <1>3
  <2> QED
    BY <1>1, <2>1, <2>3, <2>5, <2>6
<1>8. Taken' = 0 => Device'.last
  <2>1. ASSUME Taken' = 0
        PROVE  bufferHead' = bufferTail
    BY <2>1, <1>2, <1>3, <1>4 DEF RingOrder, Place
  <2> QED
    BY <1>1, <2>1
<1>9. ASSUME NEW k \in 0..(Filled' - 1)
      PROVE  queue'[Place(k)'].frame = decoded' - Filled' + 1 + k
  <2>1. k + 1 \in 0..(Filled - 1) /\ k \in 0..(size - 1)
    BY <1>2, <1>3
  <2>2. queue[Place(k + 1)].frame = decoded - Filled + 1 + (k + 1)
    BY <2>1 DEF RingOrder
  <2> QED
    BY <1>1, <1>2, <1>3, <1>5, <1>6, <2>1, <2>2
<1>10. played' <= decoded' /\ (Filled' > 0 => played' <= decoded' - Filled')
  BY <1>1, <1>2, <1>3, <1>6 DEF RingOrder
<1> QED
  BY <1>1, <1>2, <1>3, <1>6, <1>7, <1>8, <1>9, <1>10 DEF RingOrder

\* The rest of a pop.
LEMMA PopOrder ==
  ASSUME QueueOK, RingOrder, PopGoesOn("device")
  PROVE  RingOrder'
<1>0. consumer \in [Consumers -> ConsumerStates] /\ "device" \in Consumers /\ usedBuffers \in Nat
  BY SoundAssumption DEF QueueOK, QueueTypeOK, ConsumerStates
<1>1. CASE TryWait("device")
  <2>1. UNCHANGED <<queue, bufferHead, bufferTail, empty, producer, decoded, played>>
        /\ Device.pc = "pop" /\ Device'.pc \in {"check", "move"}
        /\ (Device'.pc = "move" => Device'.head = bufferHead)
    BY <1>0, <1>1 DEF TryWait, ConsumerAt, Device, ConsumerStates
  <2>2. usedBuffers' + One(Device'.pc = "move") = usedBuffers
    <3>1. CASE usedBuffers = 0
      <4>1. Device'.pc = "check" /\ usedBuffers' = usedBuffers
        BY <1>0, <1>1, <3>1 DEF TryWait, Device, ConsumerStates
      <4> QED
        BY <4>1, <1>0 DEF One
    <3>2. CASE usedBuffers # 0
      <4> DEFINE r == [consumer["device"] EXCEPT !.pc = "move", !.head = bufferHead]
      <4>0. r.pc = "move" /\ consumer' = [consumer EXCEPT !["device"] = r] /\ usedBuffers' = usedBuffers - 1
        BY <1>0, <1>1, <3>2 DEF TryWait, ConsumerStates
      <4> HIDE DEF r
      <4>1. Device'.pc = "move" /\ usedBuffers' = usedBuffers - 1
        BY <1>0, <4>0 DEF Device
      <4> QED
        BY <4>1, <1>0 DEF One
    <3> QED
      BY <3>1, <3>2
  <2>3. Taken' = Taken /\ Filled' = Filled
    BY <1>0, <2>1, <2>2 DEF Taken, Filled, One
  <2>4. \A k : Place(k)' = Place(k)
    BY <2>1 DEF Place
  <2> QED
    BY <2>1, <2>3, <2>4 DEF RingOrder
<1>2. CASE MoveHead("device")
  BY <1>2, MoveOrder
<1>3. CASE MarkEmpty("device") \/ SignalFree("device") \/ CheckFlushed("device")
  <2>1. /\ UNCHANGED <<queue, usedBuffers, bufferHead, bufferTail, producer, decoded, played>>
        /\ Device.pc # "move" /\ Device'.pc # "move"
        /\ (empty \/ (Device.pc = "mark" /\ Device.last) => empty')
    <3>1. CASE MarkEmpty("device")
      BY <1>0, <3>1 DEF MarkEmpty, ConsumerAt, Device, ConsumerStates
    <3>2. CASE SignalFree("device")
      BY <1>0, <3>2 DEF SignalFree, ConsumerAt, Device, ConsumerStates
    <3>3. CASE CheckFlushed("device")
      BY <1>0, <3>3 DEF CheckFlushed, ringVars, ConsumerAt, Device, ConsumerStates, NotPopping
    <3> QED
      BY <1>3, <3>1, <3>2, <3>3
  <2>2. Taken' = Taken /\ Filled' = Filled
    BY <2>1 DEF Taken, Filled
  <2>3. \A k : Place(k)' = Place(k)
    BY <2>1 DEF Place
  <2> QED
    BY <2>1, <2>2, <2>3 DEF RingOrder
<1> QED
  BY <1>1, <1>2, <1>3 DEF PopGoesOn

\* A new queue holds nothing.
LEMMA NewOrder ==
  ASSUME QueueOK, NewQueue, producer.pc = "idle", ConsumerAt("device", "idle")
  PROVE  RingOrder'
<1>1. Taken' = 0 /\ Filled' = 0
  BY DEF NewQueue, Taken, Filled, One, ConsumerAt, Device
<1>2. bufferHead' = 0 /\ bufferTail' = 0 /\ empty' /\ decoded' = 0 /\ played' = 0
      /\ producer'.pc = "idle" /\ Device'.pc = "idle"
      /\ queue' = [i \in Slots |-> [frame |-> 0, len |-> 0]]
  BY DEF NewQueue, ConsumerAt, Device
<1>3. Place(0)' = 0
  BY <1>2, QueueAssumption DEF Place
<1> QED
  BY <1>1, <1>2, <1>3 DEF RingOrder

(***************************************************************************)
(* The channel.                                                            *)
(***************************************************************************)
\* A pop leaves the other consumers where they are.
LEMMA PopFrame ==
  ASSUME QueueOK, NEW c \in Consumers, SkipStep(c) \/ CopyFrame(c)
  PROVE  /\ \A d \in Consumers : d # c => consumer'[d] = consumer[d]
         /\ UNCHANGED producer
         /\ UNCHANGED <<decoded, flushing>>
BY DEF SkipStep, CopyFrame, Discard, PopGoesOn, TryWait, MoveHead, MarkEmpty, SignalFree,
     CheckFlushed,
       ringVars, flushVars, QueueOK, QueueTypeOK

\* While the sound plays only the device takes frames.
LEMMA OthersAway ==
  ASSUME PlacesFit, DeviceOnly
  PROVE  OthersIdle
BY DEF PlacesFit, Skipping, DeviceOnly, OthersIdle

LEMMA CallbackStep ==
  ASSUME SoundInv, Callback
  PROVE  SoundInv' /\ (~stopped /\ played' # played => played' > played \/ FrontUnfilled)
<1>0. QueueOK /\ ChannelOK /\ PlacesFit /\ (DeviceOnly => RingOrder) /\ "device" \in Consumers
  BY SoundAssumption DEF SoundInv
<1>1. UNCHANGED <<channelVars, jobVars, ownVars, scriptVars, endVars, posted>>
  BY DEF Callback
<1>2. ChannelOK' /\ (DeviceOnly' <=> DeviceOnly)
  BY <1>0, <1>1 DEF ChannelOK, DeviceOnly, channelVars, jobVars, ownVars, scriptVars, endVars
<1>3. CASE audioStream /\ CopyNothing("device")
  <2>1. /\ UNCHANGED <<ringVars, producer, consumer, decoded, played, flushing>>
        /\ flushed' \in 0..MaxFlushed /\ status' \in {"INIT", "VALID", "FLUSHED"}
    BY <1>0, <1>3, QueueAssumption DEF CopyNothing, FlushIf, SignalFlushed, QueueOK, QueueTypeOK
  <2>2. QueueOK'
    BY <1>0, <2>1, FlushOK DEF QueueOK, QueueTypeOK
  <2>3. PlacesFit'
    BY <1>0, <1>1, <2>1 DEF PlacesFit, Skipping, ConsumerAt, OneJob, channelVars, jobVars,
         ownVars, scriptVars
  <2>4. DeviceOnly' => RingOrder'
    BY <1>0, <1>2, <2>1, SameOrder DEF ringVars
  <2> QED
    BY <1>2, <2>1, <2>2, <2>3, <2>4 DEF SoundInv
<1>4. CASE audioStream /\ CopyFrame("device")
  <2>1. QueueOK'
    BY <1>0, <1>4, CopyFrameOK
  <2>2. /\ \A d \in Consumers : d # "device" => consumer'[d] = consumer[d]
        /\ UNCHANGED producer
    BY <1>0, <1>4, PopFrame
  <2>3. PlacesFit'
    BY <1>0, <1>1, <1>4, <2>2, SoundAssumption
       DEF PlacesFit, Skipping, ConsumerAt, OneJob, channelVars, jobVars, ownVars, scriptVars
  <2>4. ~stopped <=> DeviceOnly
    BY <1>0, <1>4 DEF PlacesFit, DeviceOnly
  <2> QED
    BY <1>0, <1>2, <1>4, <2>1, <2>3, <2>4, CopyOrder DEF SoundInv
<1>5. CASE PopGoesOn("device")
  <2>1. QueueOK'
    BY <1>0, <1>5, PopOK
  <2>2. /\ \A d \in Consumers : d # "device" => consumer'[d] = consumer[d]
        /\ UNCHANGED producer
    BY <1>0, <1>5, PopFrame DEF SkipStep
  <2>3. PlacesFit'
    <3>1. ~ConsumerAt("device", "idle")
      BY <1>5 DEF PopGoesOn, TryWait, MoveHead, MarkEmpty, SignalFree, CheckFlushed, ConsumerAt
    <3> QED
      BY <1>0, <1>1, <2>2, <3>1, SoundAssumption
         DEF PlacesFit, Skipping, ConsumerAt, OneJob, channelVars, jobVars, ownVars, scriptVars
  <2>4. played' = played
    BY <1>5 DEF PopGoesOn, TryWait, MoveHead, MarkEmpty, SignalFree, CheckFlushed
  <2>5. DeviceOnly' => RingOrder'
    BY <1>0, <1>2, <1>5, PopOrder
  <2> QED
    BY <1>2, <2>1, <2>3, <2>4, <2>5 DEF SoundInv
<1> QED
  BY <1>3, <1>4, <1>5 DEF Callback

\* Steps that leave the queue alone.
LEMMA QueueSame ==
  ASSUME QueueOK, UNCHANGED queueVars
  PROVE  QueueOK' /\ (RingOrder => RingOrder')
<1>1. UNCHANGED <<ringVars, producer, consumer, decoded, played>> /\ flushing' \in BOOLEAN
      /\ flushed' \in 0..MaxFlushed /\ status' \in {"INIT", "VALID", "FLUSHED"}
  BY DEF queueVars, flushVars, QueueOK, QueueTypeOK
<1>2. QueueOK'
  BY <1>1, FlushOK
<1>3. RingOrder => RingOrder'
  BY <1>1, SameOrder DEF ringVars
<1> QED
  BY <1>2, <1>3

\* The steps of the job up to the last frame, the queue aside.
LEMMA FirstJobStep ==
  ASSUME SoundInv,
         Begin \/ OpenAborted \/ Decode \/ Leave \/ Fail \/ DiscardedAll \/ Publish \/ Attach \/ Again
  PROVE  SoundInv' /\ played' = played
<1>0. QueueOK /\ ChannelOK /\ PlacesFit /\ (DeviceOnly => RingOrder)
  BY DEF SoundInv
<1>q. UNCHANGED queueVars
  BY DEF Begin, OpenAborted, Decode, Leave, Fail, DiscardedAll, Publish, Attach, Again
<1>p. UNCHANGED <<producer, consumer, played>>
  BY <1>q DEF queueVars
<1>c. (ConsumerAt("job", "idle")' <=> ConsumerAt("job", "idle"))
      /\ (ConsumerAt("script", "idle")' <=> ConsumerAt("script", "idle"))
      /\ (ConsumerAt("device", "idle")' <=> ConsumerAt("device", "idle"))
  BY <1>p DEF ConsumerAt
<1>1. CASE Begin
  <2>1. ChannelOK'
    BY <1>0, <1>1, SoundAssumption DEF Begin, DeviceIdle, JobAt, JobGoes, ChannelOK,
         JobPlaces, jobVars, channelVars, ownVars, scriptVars, endVars
  <2>2. PlacesFit'
    BY <1>0, <1>1, <1>p, <1>c DEF Begin, DeviceIdle, JobAt, JobGoes, PlacesFit, ChannelOK,
         Skipping, OneJob, jobVars, channelVars, ownVars, scriptVars, endVars
  <2>3. DeviceOnly' => DeviceOnly
    BY <1>0, <1>1 DEF Begin, DeviceIdle, JobAt, JobGoes, PlacesFit, OneJob, DeviceOnly,
         jobVars, channelVars, ownVars, scriptVars, endVars
  <2> QED
    BY <1>0, <1>q, <1>p, <2>1, <2>2, <2>3, QueueSame DEF SoundInv
<1>2. CASE OpenAborted
  <2>1. ChannelOK'
    BY <1>0, <1>2, SoundAssumption DEF OpenAborted, JobAt, JobGoes, ChannelOK, JobPlaces,
         jobVars, channelVars, ownVars, scriptVars, endVars
  <2>2. PlacesFit'
    BY <1>0, <1>2, <1>p, <1>c DEF OpenAborted, JobAt, JobGoes, PlacesFit, ChannelOK,
         Skipping, OneJob, jobVars, channelVars, ownVars, scriptVars, endVars
  <2>3. DeviceOnly' => DeviceOnly
    BY <1>0, <1>2 DEF OpenAborted, JobAt, JobGoes, PlacesFit, OneJob, DeviceOnly, jobVars,
         channelVars, ownVars, scriptVars, endVars
  <2> QED
    BY <1>0, <1>q, <1>p, <2>1, <2>2, <2>3, QueueSame DEF SoundInv
<1>3. CASE Decode
  <2>1. ChannelOK'
    BY <1>0, <1>3, SoundAssumption DEF Decode, JobAt, JobGoes, ChannelOK, JobPlaces,
         jobVars, channelVars, ownVars, scriptVars, endVars
  <2>2. PlacesFit'
    BY <1>0, <1>3, <1>p, <1>c DEF Decode, JobAt, JobGoes, PlacesFit, ChannelOK,
         Skipping, OneJob, jobVars, channelVars, ownVars, scriptVars, endVars
  <2>3. DeviceOnly' => DeviceOnly
    BY <1>0, <1>3 DEF Decode, JobAt, JobGoes, PlacesFit, OneJob, DeviceOnly, jobVars,
         channelVars, ownVars, scriptVars, endVars
  <2> QED
    BY <1>0, <1>q, <1>p, <2>1, <2>2, <2>3, QueueSame DEF SoundInv
<1>4. CASE Leave
  <2>1. ChannelOK'
    BY <1>0, <1>4, SoundAssumption DEF Leave, JobAt, JobGoes, ChannelOK, JobPlaces,
         jobVars, channelVars, ownVars, scriptVars, endVars
  <2>2. PlacesFit'
    BY <1>0, <1>4, <1>p, <1>c DEF Leave, JobAt, JobGoes, PlacesFit, ChannelOK,
         Skipping, OneJob, jobVars, channelVars, ownVars, scriptVars, endVars
  <2>3. DeviceOnly' => DeviceOnly
    BY <1>0, <1>4 DEF Leave, JobAt, JobGoes, PlacesFit, OneJob, DeviceOnly, jobVars,
         channelVars, ownVars, scriptVars, endVars
  <2> QED
    BY <1>0, <1>q, <1>p, <2>1, <2>2, <2>3, QueueSame DEF SoundInv
<1>5. CASE Fail
  <2>1. ChannelOK'
    BY <1>0, <1>5, SoundAssumption DEF Fail, JobAt, JobGoes, ChannelOK, JobPlaces,
         jobVars, channelVars, ownVars, scriptVars, endVars
  <2>2. PlacesFit'
    BY <1>0, <1>5, <1>p, <1>c DEF Fail, JobAt, JobGoes, PlacesFit, ChannelOK,
         Skipping, OneJob, jobVars, channelVars, ownVars, scriptVars, endVars
  <2>3. DeviceOnly' => DeviceOnly
    BY <1>0, <1>5 DEF Fail, JobAt, JobGoes, PlacesFit, OneJob, DeviceOnly, jobVars,
         channelVars, ownVars, scriptVars, endVars
  <2> QED
    BY <1>0, <1>q, <1>p, <2>1, <2>2, <2>3, QueueSame DEF SoundInv
<1>6. CASE DiscardedAll
  <2>1. ChannelOK'
    <3>1. UNCHANGED <<stopped, terminated, stopping, finished, restartafterabort,
                    posted, decoder, audioStream, threadAborting,
                    shuttingdown, jobs, calls, loopstogo, pool, script>>
      BY <1>6 DEF DiscardedAll, JobGoes, ScriptGoes, jobVars, channelVars, ownVars,
           scriptVars, endVars
    <3>2. audioDecoder' \in BOOLEAN /\ mutex' = "free" /\ job' = "remove"
      BY <1>0, <1>6 DEF DiscardedAll, JobAt, JobGoes, ScriptGoes, ChannelOK, JobPlaces,
           PlacesFit
    <3>3. job' \in JobPlaces
      BY <1>0, <3>1, <3>2 DEF ChannelOK, JobPlaces
    <3> QED
      BY <1>0, <3>1, <3>2, <3>3 DEF ChannelOK
  <2>2. PlacesFit'
    BY <1>0, <1>6, <1>p, <1>c DEF DiscardedAll, Skipped, JobAt, JobGoes, PlacesFit, ChannelOK,
         Skipping, OneJob, jobVars, channelVars, ownVars, scriptVars, endVars
  <2>3. DeviceOnly' => DeviceOnly
    BY <1>0, <1>6 DEF DiscardedAll, Skipped, JobAt, JobGoes, PlacesFit, OneJob,
         DeviceOnly, jobVars, channelVars, ownVars, scriptVars, endVars
  <2> QED
    BY <1>0, <1>q, <1>p, <2>1, <2>2, <2>3, QueueSame DEF SoundInv
<1>7. CASE Publish
  <2>1. ChannelOK'
    BY <1>0, <1>7, SoundAssumption DEF Publish, JobAt, JobGoes, ChannelOK, JobPlaces,
         jobVars, channelVars, ownVars, scriptVars, endVars
  <2>2. PlacesFit'
    BY <1>0, <1>7, <1>p, <1>c DEF Publish, JobAt, JobGoes, PlacesFit, ChannelOK,
         Skipping, OneJob, jobVars, channelVars, ownVars, scriptVars, endVars
  <2>3. DeviceOnly' => DeviceOnly
    BY <1>0, <1>7 DEF Publish, JobAt, JobGoes, PlacesFit, OneJob, DeviceOnly, jobVars,
         channelVars, ownVars, scriptVars, endVars
  <2> QED
    BY <1>0, <1>q, <1>p, <2>1, <2>2, <2>3, QueueSame DEF SoundInv
<1>8. CASE Attach
  <2>1. ChannelOK'
    BY <1>0, <1>8, SoundAssumption DEF Attach, JobAt, JobGoes, ChannelOK, JobPlaces,
         jobVars, channelVars, ownVars, scriptVars, endVars
  <2>2. PlacesFit'
    BY <1>0, <1>8, <1>p, <1>c DEF Attach, JobAt, JobGoes, PlacesFit, ChannelOK,
         Skipping, OneJob, jobVars, channelVars, ownVars, scriptVars, endVars
  <2>3. DeviceOnly' => DeviceOnly
    BY <1>0, <1>8 DEF Attach, JobAt, JobGoes, PlacesFit, OneJob, DeviceOnly, jobVars,
         channelVars, ownVars, scriptVars, endVars
  <2> QED
    BY <1>0, <1>q, <1>p, <2>1, <2>2, <2>3, QueueSame DEF SoundInv
<1>9. CASE Again
  <2>1. ChannelOK'
    BY <1>0, <1>9, SoundAssumption DEF Again, JobAt, JobGoes, ChannelOK, JobPlaces,
         jobVars, channelVars, ownVars, scriptVars, endVars
  <2>2. PlacesFit'
    BY <1>0, <1>9, <1>p, <1>c DEF Again, JobAt, JobGoes, PlacesFit, ChannelOK,
         Skipping, OneJob, jobVars, channelVars, ownVars, scriptVars, endVars
  <2>3. DeviceOnly' => DeviceOnly
    BY <1>0, <1>9 DEF Again, JobAt, JobGoes, PlacesFit, OneJob, DeviceOnly, jobVars,
         channelVars, ownVars, scriptVars, endVars
  <2> QED
    BY <1>0, <1>q, <1>p, <2>1, <2>2, <2>3, QueueSame DEF SoundInv
<1> QED
  BY <1>p, <1>1, <1>2, <1>3, <1>4, <1>5, <1>6, <1>7, <1>8, <1>9

\* The steps of the job after its last frame.
LEMMA LastJobStep ==
  ASSUME SoundInv,
         TestFlushed \/ Finish \/ RemoveStream \/ EndPlay \/ EndRound \/ jobFence
  PROVE  SoundInv' /\ played' = played
<1>0. QueueOK /\ ChannelOK /\ PlacesFit /\ (DeviceOnly => RingOrder)
  BY DEF SoundInv
<1>q. UNCHANGED queueVars
  BY DEF TestFlushed, Finish, RemoveStream, EndPlay, EndRound, jobFence
<1>p. UNCHANGED <<producer, consumer, played>>
  BY <1>q DEF queueVars
<1>c. (ConsumerAt("job", "idle")' <=> ConsumerAt("job", "idle"))
      /\ (ConsumerAt("script", "idle")' <=> ConsumerAt("script", "idle"))
      /\ (ConsumerAt("device", "idle")' <=> ConsumerAt("device", "idle"))
  BY <1>p DEF ConsumerAt
<1>1. CASE TestFlushed
  <2>1. ChannelOK'
    BY <1>0, <1>1, SoundAssumption DEF TestFlushed, JobAt, JobGoes, ChannelOK, JobPlaces,
         jobVars, channelVars, ownVars, scriptVars, endVars
  <2>2. PlacesFit'
    BY <1>0, <1>1, <1>p, <1>c DEF TestFlushed, JobAt, JobGoes, PlacesFit, ChannelOK,
         Skipping, OneJob, jobVars, channelVars, ownVars, scriptVars, endVars
  <2>3. DeviceOnly' => DeviceOnly
    BY <1>0, <1>1 DEF TestFlushed, JobAt, JobGoes, PlacesFit, OneJob, DeviceOnly, jobVars,
         channelVars, ownVars, scriptVars, endVars
  <2> QED
    BY <1>0, <1>q, <1>p, <2>1, <2>2, <2>3, QueueSame DEF SoundInv
<1>2. CASE Finish
  <2>1. ChannelOK'
    <3>1. UNCHANGED <<stopped, terminated, restartafterabort, posted, decoder,
                    audioDecoder, audioStream, threadAborting, shuttingdown,
                    jobs, calls, loopstogo, mutex, pool, script>>
      BY <1>2 DEF Finish, JobGoes, ScriptGoes, jobVars, channelVars, ownVars,
           scriptVars, endVars
    <3>2. stopping' \in BOOLEAN /\ finished' \in BOOLEAN /\ job' = "remove"
      BY <1>0, <1>2 DEF Finish, JobAt, JobGoes, ScriptGoes, ChannelOK, JobPlaces, PlacesFit
    <3>3. job' \in JobPlaces
      BY <1>0, <3>1, <3>2 DEF ChannelOK, JobPlaces
    <3> QED
      BY <1>0, <3>1, <3>2, <3>3 DEF ChannelOK
  <2>2. PlacesFit'
    BY <1>0, <1>2, <1>p, <1>c DEF Finish, JobAt, JobGoes, PlacesFit, ChannelOK,
         Skipping, OneJob, jobVars, channelVars, ownVars, scriptVars, endVars
  <2>3. DeviceOnly' => DeviceOnly
    BY <1>0, <1>2 DEF Finish, JobAt, JobGoes, PlacesFit, OneJob, DeviceOnly, jobVars,
         channelVars, ownVars, scriptVars, endVars
  <2> QED
    BY <1>0, <1>q, <1>p, <2>1, <2>2, <2>3, QueueSame DEF SoundInv
<1>3. CASE RemoveStream
  <2>1. ChannelOK'
    <3>1. UNCHANGED <<stopped, terminated, stopping, finished, restartafterabort,
                    posted, decoder, threadAborting, shuttingdown, jobs,
                    calls, loopstogo, mutex, pool, script>>
      BY <1>3 DEF RemoveStream, AfterRemove, JobGoes, ScriptGoes, jobVars, channelVars,
           ownVars, scriptVars, endVars
    <3>2. audioDecoder' \in BOOLEAN /\ audioStream' \in BOOLEAN /\ job' \in {"skip", "ended"}
      BY <1>0, <1>3 DEF RemoveStream, AfterRemove, JobAt, JobGoes, ScriptGoes,
           ChannelOK, JobPlaces, PlacesFit
    <3>3. job' \in JobPlaces
      BY <1>0, <3>1, <3>2 DEF ChannelOK, JobPlaces
    <3> QED
      BY <1>0, <3>1, <3>2, <3>3 DEF ChannelOK
  <2>2. PlacesFit'
    <3>1. CASE decoder
      BY <1>0, <1>3, <1>p, <1>c, <3>1 DEF RemoveStream, AfterRemove, DeviceIdle,
           ConsumerAt, JobAt, JobGoes,
         PlacesFit, Skipping, OneJob, channelVars, scriptVars
    <3>2. CASE ~decoder
      BY <1>0, <1>3, <1>p, <1>c, <3>2 DEF RemoveStream, AfterRemove, DeviceIdle,
           ConsumerAt, JobAt, JobGoes,
         PlacesFit, ChannelOK, Skipping, OneJob, channelVars, scriptVars
    <3> QED
      BY <3>1, <3>2
  <2>3. DeviceOnly' => DeviceOnly
    BY <1>0, <1>3 DEF RemoveStream, AfterRemove, DeviceIdle, JobAt, JobGoes, PlacesFit,
         OneJob, DeviceOnly, jobVars, channelVars, ownVars, scriptVars, endVars
  <2> QED
    BY <1>0, <1>q, <1>p, <2>1, <2>2, <2>3, QueueSame DEF SoundInv
<1>4. CASE EndPlay
  <2>1. ChannelOK'
    <3>1. UNCHANGED <<stopped, terminated, stopping, finished, restartafterabort,
                    posted, audioDecoder, audioStream, threadAborting,
                    shuttingdown, jobs, calls, loopstogo, mutex, pool,
                    script>>
      BY <1>4 DEF EndPlay, JobGoes, ScriptGoes, jobVars, channelVars, ownVars,
           scriptVars, endVars
    <3>2. decoder' \in BOOLEAN /\ job' = "ended"
      BY <1>0, <1>4 DEF EndPlay, JobAt, JobGoes, ScriptGoes, ChannelOK, JobPlaces, PlacesFit
    <3>3. job' \in JobPlaces
      BY <1>0, <3>1, <3>2 DEF ChannelOK, JobPlaces
    <3> QED
      BY <1>0, <3>1, <3>2, <3>3 DEF ChannelOK
  <2>2. PlacesFit'
    BY <1>0, <1>4, <1>p, <1>c DEF EndPlay, Skipped, JobAt, JobGoes, PlacesFit, ChannelOK,
         Skipping, OneJob, jobVars, channelVars, ownVars, scriptVars, endVars
  <2>3. DeviceOnly' => DeviceOnly
    BY <1>0, <1>4 DEF EndPlay, Skipped, JobAt, JobGoes, PlacesFit, OneJob, DeviceOnly,
         jobVars, channelVars, ownVars, scriptVars, endVars
  <2> QED
    BY <1>0, <1>q, <1>p, <2>1, <2>2, <2>3, QueueSame DEF SoundInv
<1>5. CASE EndRound
  <2>1. ChannelOK'
    <3>1. UNCHANGED <<stopped, terminated, stopping, finished, restartafterabort,
                    decoder, audioDecoder, audioStream, threadAborting,
                    shuttingdown, jobs, calls, mutex, pool, script>>
      BY <1>5 DEF EndRound, JobGoes, ScriptGoes, jobVars, channelVars, ownVars,
           scriptVars, endVars
    <3>2. loopstogo' \in Nat /\ posted' \in BOOLEAN /\ job' \in {"fence", "next"}
      BY <1>0, <1>5 DEF EndRound, JobAt, JobGoes, ScriptGoes, ChannelOK, JobPlaces, PlacesFit
    <3>3. job' \in JobPlaces
      BY <1>0, <3>1, <3>2 DEF ChannelOK, JobPlaces
    <3> QED
      BY <1>0, <3>1, <3>2, <3>3 DEF ChannelOK
  <2>2. PlacesFit'
    BY <1>0, <1>5, <1>p, <1>c DEF EndRound, JobAt, JobGoes, PlacesFit, ChannelOK,
         Skipping, OneJob, jobVars, channelVars, ownVars, scriptVars, endVars
  <2>3. DeviceOnly' => DeviceOnly
    BY <1>0, <1>5 DEF EndRound, JobAt, JobGoes, PlacesFit, OneJob, DeviceOnly, jobVars,
         channelVars, ownVars, scriptVars, endVars
  <2> QED
    BY <1>0, <1>q, <1>p, <2>1, <2>2, <2>3, QueueSame DEF SoundInv
<1>6. CASE jobFence
  <2>1. ChannelOK'
    <3>1. UNCHANGED <<stopping, finished, posted, decoder, audioDecoder, audioStream,
                    threadAborting, shuttingdown, calls, loopstogo, mutex,
                    pool, script>>
      BY <1>6 DEF jobFence, OneJob, JobGoes, ScriptGoes, jobVars, channelVars, ownVars,
           scriptVars, endVars
    <3>0. jobs' \in Nat /\ job' \in {"pooled", "none"}
      <4>0. jobs = 1
        BY <1>0, <1>6 DEF jobFence, JobAt, PlacesFit, OneJob
      <4>1. jobs' \in {jobs, jobs - 1} /\ job' \in {"pooled", "none"}
        BY <1>6 DEF jobFence
      <4> QED
        BY <4>0, <4>1
    <3>2. restartafterabort' \in BOOLEAN /\ stopped' \in BOOLEAN /\ terminated' \in BOOLEAN
          /\ job' \in {"pooled", "none"} /\ jobs' \in Nat
      BY <1>0, <1>6, <3>0 DEF jobFence, ChannelOK
    <3>3. job' \in JobPlaces
      BY <1>0, <3>1, <3>2 DEF ChannelOK, JobPlaces
    <3> QED
      BY <1>0, <3>1, <3>2, <3>3 DEF ChannelOK
  <2>2. PlacesFit'
    BY <1>0, <1>6, <1>p, <1>c DEF jobFence, Restarts, JobAt, JobGoes, PlacesFit, ChannelOK,
         Skipping, OneJob, jobVars, channelVars, ownVars, scriptVars, endVars
  <2>3. DeviceOnly' => DeviceOnly
    BY <1>0, <1>6 DEF jobFence, Restarts, JobAt, JobGoes, PlacesFit, OneJob, DeviceOnly,
         jobVars, channelVars, ownVars, scriptVars, endVars
  <2> QED
    BY <1>0, <1>q, <1>p, <2>1, <2>2, <2>3, QueueSame DEF SoundInv
<1> QED
  BY <1>p, <1>1, <1>2, <1>3, <1>4, <1>5, <1>6

\* The calls of the script, and the end of the player, that leave the queue alone.
LEMMA QuietScriptStep ==
  ASSUME SoundInv,
         StartAgain \/ stop \/ SkippedAll \/ StopReturns \/ ShutDown \/ forceStop \/ Join
  PROVE  SoundInv' /\ played' = played
<1>0. QueueOK /\ ChannelOK /\ PlacesFit /\ (DeviceOnly => RingOrder)
  BY DEF SoundInv
<1>q. UNCHANGED queueVars
  BY DEF StartAgain, stop, SkippedAll, StopReturns, ShutDown, forceStop, Join
<1>p. UNCHANGED <<producer, consumer, played>>
  BY <1>q DEF queueVars
<1>c. (ConsumerAt("job", "idle")' <=> ConsumerAt("job", "idle"))
      /\ (ConsumerAt("script", "idle")' <=> ConsumerAt("script", "idle"))
      /\ (ConsumerAt("device", "idle")' <=> ConsumerAt("device", "idle"))
  BY <1>p DEF ConsumerAt
<1>1. CASE StartAgain
  <2>1. ChannelOK'
    <3>1. UNCHANGED <<stopping, finished, posted, decoder, audioDecoder, audioStream,
                    threadAborting, shuttingdown, calls, loopstogo, mutex,
                    pool>>
      BY <1>1 DEF StartAgain, JobGoes, ScriptGoes, jobVars, channelVars, ownVars,
           scriptVars, endVars
    <3>2. restartafterabort' \in BOOLEAN /\ stopped' \in BOOLEAN /\ terminated' \in BOOLEAN
          /\ job' \in JobPlaces /\ jobs' \in Nat /\ script' = "idle"
      <4>1. CASE stopped
        <5>1. jobs' = jobs + 1 /\ jobs \in Nat /\ job' = "pooled"
          BY <1>0, <1>1, <4>1 DEF StartAgain, ChannelOK
        <5>2. restartafterabort' \in BOOLEAN /\ stopped' \in BOOLEAN /\ terminated' \in BOOLEAN
              /\ script' = "idle"
          BY <1>1, <4>1 DEF StartAgain, ScriptGoes
        <5>3. job' \in JobPlaces /\ jobs' \in Nat
          BY <5>1 DEF JobPlaces
        <5> QED
          BY <5>2, <5>3
      <4>2. CASE ~stopped
        BY <1>0, <1>1, <4>2 DEF StartAgain, ScriptGoes, ChannelOK
      <4> QED
        BY <4>1, <4>2
    <3>3. job' \in JobPlaces
      BY <1>0, <3>1, <3>2 DEF ChannelOK, JobPlaces
    <3> QED
      BY <1>0, <3>1, <3>2, <3>3 DEF ChannelOK
  <2>2. PlacesFit'
    <3>1. CASE stopped
      BY <1>0, <1>1, <1>p, <1>c, <3>1 DEF StartAgain, AwaitTerminated, ScriptGoes,
           PlacesFit, Skipping, OneJob, ownVars
    <3>2. CASE ~stopped
      BY <1>0, <1>1, <1>p, <1>c, <3>2 DEF StartAgain, ScriptGoes, PlacesFit, Skipping,
           OneJob, ownVars
    <3> QED
      BY <3>1, <3>2
  <2>3. DeviceOnly' => DeviceOnly
    BY <1>0, <1>1 DEF StartAgain, AwaitTerminated, ScriptGoes, JobAt, JobGoes, PlacesFit,
         OneJob, DeviceOnly, jobVars, channelVars, ownVars, scriptVars, endVars
  <2> QED
    BY <1>0, <1>q, <1>p, <2>1, <2>2, <2>3, QueueSame DEF SoundInv
<1>2. CASE stop
  <2>1. ChannelOK'
    BY <1>0, <1>2, SoundAssumption DEF stop, MayCall, JobAt, JobGoes, ChannelOK,
         JobPlaces, jobVars, channelVars, ownVars, scriptVars, endVars
  <2>2. PlacesFit'
    BY <1>0, <1>2, <1>p, <1>c DEF stop, MayCall, JobAt, JobGoes, PlacesFit, ChannelOK,
         Skipping, OneJob, jobVars, channelVars, ownVars, scriptVars, endVars
  <2>3. DeviceOnly' => DeviceOnly
    BY <1>0, <1>2 DEF stop, MayCall, JobAt, JobGoes, PlacesFit, OneJob, DeviceOnly,
         jobVars, channelVars, ownVars, scriptVars, endVars
  <2> QED
    BY <1>0, <1>q, <1>p, <2>1, <2>2, <2>3, QueueSame DEF SoundInv
<1>3. CASE SkippedAll
  <2>1. ChannelOK'
    <3>1. UNCHANGED <<stopped, terminated, stopping, finished, restartafterabort,
                    posted, decoder, audioStream, threadAborting,
                    shuttingdown, jobs, calls, loopstogo, job, pool>>
      BY <1>3 DEF SkippedAll, AfterAbort, JobGoes, ScriptGoes, jobVars, channelVars,
           ownVars, scriptVars, endVars
    <3>2. audioDecoder' \in BOOLEAN /\ mutex' = "free" /\ script' \in {"idle", "join", "ends"}
      BY <1>0, <1>3 DEF SkippedAll, AfterAbort, JobAt, JobGoes, ScriptGoes, ChannelOK,
           JobPlaces, PlacesFit
    <3>3. job' \in JobPlaces
      BY <1>0, <3>1, <3>2 DEF ChannelOK, JobPlaces
    <3> QED
      BY <1>0, <3>1, <3>2, <3>3 DEF ChannelOK
  <2>2. PlacesFit'
    BY <1>0, <1>3, <1>p, <1>c DEF SkippedAll, Skipped, AfterAbort, ScriptGoes, JobAt,
         JobGoes, PlacesFit, ChannelOK,
         Skipping, OneJob, jobVars, channelVars, ownVars, scriptVars, endVars
  <2>3. DeviceOnly' => DeviceOnly
    BY <1>0, <1>3 DEF SkippedAll, Skipped, AfterAbort, ScriptGoes, JobAt, JobGoes,
         PlacesFit, OneJob, DeviceOnly, jobVars, channelVars, ownVars, scriptVars, endVars
  <2> QED
    BY <1>0, <1>q, <1>p, <2>1, <2>2, <2>3, QueueSame DEF SoundInv
<1>4. CASE StopReturns
  <2>1. ChannelOK'
    BY <1>0, <1>4, SoundAssumption DEF StopReturns, ScriptGoes, JobAt, JobGoes, ChannelOK,
         JobPlaces, jobVars, channelVars, ownVars, scriptVars, endVars
  <2>2. PlacesFit'
    BY <1>0, <1>4, <1>p, <1>c DEF StopReturns, ScriptGoes, JobAt, JobGoes, PlacesFit, ChannelOK,
         Skipping, OneJob, jobVars, channelVars, ownVars, scriptVars, endVars
  <2>3. DeviceOnly' => DeviceOnly
    BY <1>0, <1>4 DEF StopReturns, ScriptGoes, JobAt, JobGoes, PlacesFit, OneJob,
         DeviceOnly, jobVars, channelVars, ownVars, scriptVars, endVars
  <2> QED
    BY <1>0, <1>q, <1>p, <2>1, <2>2, <2>3, QueueSame DEF SoundInv
<1>5. CASE ShutDown
  <2>1. ChannelOK'
    BY <1>0, <1>5, SoundAssumption DEF ShutDown, JobAt, JobGoes, ChannelOK, JobPlaces,
         jobVars, channelVars, ownVars, scriptVars, endVars
  <2>2. PlacesFit'
    BY <1>0, <1>5, <1>p, <1>c DEF ShutDown, JobAt, JobGoes, PlacesFit, ChannelOK,
         Skipping, OneJob, jobVars, channelVars, ownVars, scriptVars, endVars
  <2>3. DeviceOnly' => DeviceOnly
    BY <1>0, <1>5 DEF ShutDown, JobAt, JobGoes, PlacesFit, OneJob, DeviceOnly, jobVars,
         channelVars, ownVars, scriptVars, endVars
  <2> QED
    BY <1>0, <1>q, <1>p, <2>1, <2>2, <2>3, QueueSame DEF SoundInv
<1>6. CASE forceStop
  <2>1. ChannelOK'
    <3>1. UNCHANGED <<stopped, terminated, stopping, finished, restartafterabort,
                    posted, decoder, audioDecoder, audioStream, shuttingdown,
                    jobs, calls, loopstogo, mutex>>
      BY <1>6 DEF forceStop, JobGoes, ScriptGoes, jobVars, channelVars, ownVars,
           scriptVars, endVars
    <3>2. pool' = "stopped" /\ job' \in JobPlaces /\ script' \in {"join", "abort"}
          /\ threadAborting' \in BOOLEAN
      BY <1>0, <1>6 DEF forceStop, JobAt, JobGoes, ScriptGoes, ChannelOK, JobPlaces, PlacesFit
    <3>3. job' \in JobPlaces
      BY <1>0, <3>1, <3>2 DEF ChannelOK, JobPlaces
    <3> QED
      BY <1>0, <3>1, <3>2, <3>3 DEF ChannelOK
  <2>2. PlacesFit'
    BY <1>0, <1>6, <1>p, <1>c DEF forceStop, JobAt, JobGoes, PlacesFit, ChannelOK,
         Skipping, OneJob, jobVars, channelVars, ownVars, scriptVars, endVars
  <2>3. DeviceOnly' => DeviceOnly
    BY <1>0, <1>6 DEF forceStop, JobAt, JobGoes, PlacesFit, OneJob, DeviceOnly, jobVars,
         channelVars, ownVars, scriptVars, endVars
  <2> QED
    BY <1>0, <1>q, <1>p, <2>1, <2>2, <2>3, QueueSame DEF SoundInv
<1>7. CASE Join
  <2>1. ChannelOK'
    BY <1>0, <1>7, SoundAssumption DEF Join, ScriptGoes, JobAt, JobGoes, ChannelOK,
         JobPlaces, jobVars, channelVars, ownVars, scriptVars, endVars
  <2>2. PlacesFit'
    BY <1>0, <1>7, <1>p, <1>c DEF Join, ScriptGoes, JobAt, JobGoes, PlacesFit, ChannelOK,
         Skipping, OneJob, jobVars, channelVars, ownVars, scriptVars, endVars
  <2>3. DeviceOnly' => DeviceOnly
    BY <1>0, <1>7 DEF Join, ScriptGoes, JobAt, JobGoes, PlacesFit, OneJob, DeviceOnly,
         jobVars, channelVars, ownVars, scriptVars, endVars
  <2> QED
    BY <1>0, <1>q, <1>p, <2>1, <2>2, <2>3, QueueSame DEF SoundInv
<1> QED
  BY <1>p, <1>1, <1>2, <1>3, <1>4, <1>5, <1>6, <1>7

LEMMA FlushIfTypes ==
  ASSUME flushed \in 0..MaxFlushed, status \in {"INIT", "VALID", "FLUSHED"}, NEW b, FlushIf(b)
  PROVE  flushed' \in 0..MaxFlushed /\ status' \in {"INIT", "VALID", "FLUSHED"}
<1>1. CASE b
  BY <1>1, QueueAssumption DEF FlushIf, SignalFlushed
<1>2. CASE ~b
  BY <1>2 DEF FlushIf
<1> QED
  BY <1>1, <1>2

\* The steps that stop the sound, or wait for its end, set of the queue only
\* what the end of the sound is told by.
LEMMA FlushStep ==
  ASSUME SoundInv,
         Flush \/ WaitFlushed \/ Invalid \/ AbortItself \/ play \/ threadAbort
  PROVE  SoundInv' /\ played' = played
<1>0. QueueOK /\ ChannelOK /\ PlacesFit /\ (DeviceOnly => RingOrder)
  BY DEF SoundInv
<1>f. /\ UNCHANGED <<ringVars, producer, consumer, decoded, played>>
      /\ flushing' \in BOOLEAN /\ flushed' \in 0..MaxFlushed
      /\ status' \in {"INIT", "VALID", "FLUSHED"}
  <2>0. /\ flushing \in BOOLEAN /\ flushed \in 0..MaxFlushed /\ MaxFlushed \in Nat
        /\ status \in {"INIT", "VALID", "FLUSHED"}
    BY <1>0, QueueAssumption DEF QueueOK, QueueTypeOK
  <2>1. CASE Flush
    BY <2>0, <2>1, FlushIfTypes DEF Flush, SetFlushing, flushVars
  <2>2. CASE WaitFlushed
    BY <2>0, <2>2, FlushIfTypes DEF WaitFlushed, flushVars
  <2>3. CASE Invalid
    BY <2>0, <2>3, FlushIfTypes DEF Invalid, AbortChannel, StopPlaying, SetFlushing, flushVars
  <2>4. CASE AbortItself
    BY <2>0, <2>4, FlushIfTypes DEF AbortItself, AbortChannel, StopPlaying, SetFlushing,
         flushVars
  <2>5. CASE play
    BY <2>0, <2>5, FlushIfTypes DEF play, MayCall, StopPlaying, SetFlushing, flushVars
  <2>6. CASE threadAbort
    BY <2>0, <2>6, FlushIfTypes DEF threadAbort, AbortChannel, StopPlaying, SetFlushing,
         AfterAbort, flushVars
  <2> QED
    BY <2>1, <2>2, <2>3, <2>4, <2>5, <2>6
<1>p. UNCHANGED <<producer, consumer, played>>
  BY <1>f
<1>c. (ConsumerAt("job", "idle")' <=> ConsumerAt("job", "idle"))
      /\ (ConsumerAt("script", "idle")' <=> ConsumerAt("script", "idle"))
      /\ (ConsumerAt("device", "idle")' <=> ConsumerAt("device", "idle"))
  BY <1>p DEF ConsumerAt
<1>r. QueueOK' /\ (RingOrder => RingOrder')
  BY <1>0, <1>f, FlushOK, SameOrder DEF ringVars
<1>1. CASE Flush
  <2>1. ChannelOK'
    BY <1>0, <1>1, SoundAssumption DEF Flush, JobAt, JobGoes, ChannelOK, JobPlaces,
         jobVars, channelVars, ownVars, scriptVars, endVars
  <2>2. PlacesFit'
    BY <1>0, <1>1, <1>p, <1>c DEF Flush, JobAt, JobGoes, PlacesFit, ChannelOK,
         Skipping, OneJob, jobVars, channelVars, ownVars, scriptVars, endVars
  <2>3. DeviceOnly' => DeviceOnly
    BY <1>0, <1>1 DEF Flush, JobAt, JobGoes, PlacesFit, OneJob, DeviceOnly, jobVars,
         channelVars, ownVars, scriptVars, endVars
  <2> QED
    BY <1>0, <1>p, <1>r, <2>1, <2>2, <2>3 DEF SoundInv
<1>2. CASE WaitFlushed
  <2>1. ChannelOK'
    BY <1>0, <1>2, SoundAssumption DEF WaitFlushed, JobAt, JobGoes, ChannelOK, JobPlaces,
         jobVars, channelVars, ownVars, scriptVars, endVars
  <2>2. PlacesFit'
    BY <1>0, <1>2, <1>p, <1>c DEF WaitFlushed, JobAt, JobGoes, PlacesFit, ChannelOK,
         Skipping, OneJob, jobVars, channelVars, ownVars, scriptVars, endVars
  <2>3. DeviceOnly' => DeviceOnly
    BY <1>0, <1>2 DEF WaitFlushed, JobAt, JobGoes, PlacesFit, OneJob, DeviceOnly, jobVars,
         channelVars, ownVars, scriptVars, endVars
  <2> QED
    BY <1>0, <1>p, <1>r, <2>1, <2>2, <2>3 DEF SoundInv
<1>3. CASE Invalid
  <2>1. ChannelOK'
    <3>1. UNCHANGED <<terminated, stopping, finished, posted, decoder, audioDecoder,
                    audioStream, threadAborting, shuttingdown, jobs, calls,
                    loopstogo, pool, script>>
      BY <1>3 DEF Invalid, AbortChannel, StopPlaying, JobGoes, ScriptGoes, jobVars,
           channelVars, ownVars, scriptVars, endVars
    <3>2. stopped' \in BOOLEAN /\ restartafterabort' \in BOOLEAN /\ mutex' \in {"free", "script", "job"}
          /\ job' = "flush"
      BY <1>0, <1>3 DEF Invalid, AbortChannel, StopPlaying, JobAt, JobGoes, ScriptGoes,
           ChannelOK, JobPlaces, PlacesFit
    <3>3. job' \in JobPlaces
      BY <1>0, <3>1, <3>2 DEF ChannelOK, JobPlaces
    <3> QED
      BY <1>0, <3>1, <3>2, <3>3 DEF ChannelOK
  <2>2. PlacesFit'
    BY <1>0, <1>3, <1>p, <1>c DEF Invalid, AbortChannel, StopPlaying, JobAt, JobGoes,
         PlacesFit, ChannelOK,
         Skipping, OneJob, jobVars, channelVars, ownVars, scriptVars, endVars
  <2>3. DeviceOnly' => DeviceOnly
    BY <1>0, <1>3 DEF Invalid, AbortChannel, StopPlaying, JobAt, JobGoes, PlacesFit,
         OneJob, DeviceOnly, jobVars, channelVars, ownVars, scriptVars, endVars
  <2> QED
    BY <1>0, <1>p, <1>r, <2>1, <2>2, <2>3 DEF SoundInv
<1>4. CASE AbortItself
  <2>1. ChannelOK'
    <3>1. UNCHANGED <<terminated, stopping, finished, restartafterabort, posted,
                    decoder, audioDecoder, audioStream, threadAborting,
                    shuttingdown, jobs, calls, loopstogo, pool, script>>
      BY <1>4 DEF AbortItself, AbortChannel, StopPlaying, JobGoes, ScriptGoes, jobVars,
           channelVars, ownVars, scriptVars, endVars
    <3>2. stopped' \in BOOLEAN /\ mutex' \in {"free", "script", "job"} /\ job' \in {"discard", "remove"}
      BY <1>0, <1>4 DEF AbortItself, AbortChannel, StopPlaying, JobAt, JobGoes,
           ScriptGoes, ChannelOK, JobPlaces, PlacesFit
    <3>3. job' \in JobPlaces
      BY <1>0, <3>1, <3>2 DEF ChannelOK, JobPlaces
    <3> QED
      BY <1>0, <3>1, <3>2, <3>3 DEF ChannelOK
  <2>2. PlacesFit'
    BY <1>0, <1>4, <1>p, <1>c DEF AbortItself, AbortChannel, StopPlaying, JobAt, JobGoes,
         PlacesFit, ChannelOK,
         Skipping, OneJob, jobVars, channelVars, ownVars, scriptVars, endVars
  <2>3. DeviceOnly' => DeviceOnly
    BY <1>0, <1>4 DEF AbortItself, AbortChannel, StopPlaying, JobAt, JobGoes, PlacesFit,
         OneJob, DeviceOnly, jobVars, channelVars, ownVars, scriptVars, endVars
  <2> QED
    BY <1>0, <1>p, <1>r, <2>1, <2>2, <2>3 DEF SoundInv
<1>5. CASE play
  <2>1. ChannelOK'
    <3>1. UNCHANGED <<terminated, stopping, finished, posted, decoder, audioDecoder,
                    audioStream, threadAborting, shuttingdown, jobs,
                    loopstogo, job, pool>>
      BY <1>5 DEF play, StopPlaying, MayCall, JobGoes, ScriptGoes, jobVars, channelVars,
           ownVars, scriptVars, endVars
    <3>2. stopped' \in BOOLEAN /\ restartafterabort' \in BOOLEAN /\ mutex' \in {"free", "script", "job"}
          /\ calls' \in 0..MaxCalls /\ script' \in {"idle", "await", "replay"}
      <4>1. calls' \in 0..MaxCalls
        BY <1>0, <1>5, SoundAssumption DEF play, MayCall, ChannelOK
      <4>2. CASE stopped
        BY <1>0, <1>5, <4>1, <4>2 DEF play, ChannelOK
      <4>3. CASE ~stopped
        BY <1>0, <1>5, <4>1, <4>3 DEF play, StopPlaying, ChannelOK
      <4> QED
        BY <4>2, <4>3
    <3>3. job' \in JobPlaces
      BY <1>0, <3>1, <3>2 DEF ChannelOK, JobPlaces
    <3> QED
      BY <1>0, <3>1, <3>2, <3>3 DEF ChannelOK
  <2>2. PlacesFit'
    BY <1>0, <1>5, <1>p, <1>c DEF play, MayCall, StopPlaying, JobAt, JobGoes, PlacesFit,
         ChannelOK,
         Skipping, OneJob, jobVars, channelVars, ownVars, scriptVars, endVars
  <2>3. DeviceOnly' => DeviceOnly
    BY <1>0, <1>5 DEF play, MayCall, StopPlaying, JobAt, JobGoes, PlacesFit, OneJob,
         DeviceOnly, jobVars, channelVars, ownVars, scriptVars, endVars
  <2> QED
    BY <1>0, <1>p, <1>r, <2>1, <2>2, <2>3 DEF SoundInv
<1>6. CASE threadAbort
  <2>1. ChannelOK'
    <3>1. UNCHANGED <<terminated, stopping, finished, restartafterabort, posted,
                    decoder, audioDecoder, audioStream, threadAborting,
                    shuttingdown, jobs, calls, loopstogo, job, pool>>
      BY <1>6 DEF threadAbort, AbortChannel, StopPlaying, AfterAbort, JobGoes,
           ScriptGoes, jobVars, channelVars, ownVars, scriptVars, endVars
    <3>2. stopped' \in BOOLEAN /\ mutex' \in {"free", "script", "job"}
          /\ script' \in {"skip", "join", "ends"}
      BY <1>0, <1>6 DEF threadAbort, AbortChannel, StopPlaying, AfterAbort, JobAt,
           JobGoes, ScriptGoes, ChannelOK, JobPlaces, PlacesFit
    <3>3. job' \in JobPlaces
      BY <1>0, <3>1, <3>2 DEF ChannelOK, JobPlaces
    <3> QED
      BY <1>0, <3>1, <3>2, <3>3 DEF ChannelOK
  <2>2. PlacesFit'
    BY <1>0, <1>6, <1>p, <1>c DEF threadAbort, AbortChannel, StopPlaying, AfterAbort,
         JobAt, JobGoes, PlacesFit, ChannelOK,
         Skipping, OneJob, jobVars, channelVars, ownVars, scriptVars, endVars
  <2>3. DeviceOnly' => DeviceOnly
    BY <1>0, <1>6 DEF threadAbort, AbortChannel, StopPlaying, AfterAbort, JobAt, JobGoes,
         PlacesFit, OneJob, DeviceOnly, jobVars, channelVars, ownVars, scriptVars, endVars
  <2> QED
    BY <1>0, <1>p, <1>r, <2>1, <2>2, <2>3 DEF SoundInv
<1> QED
  BY <1>1, <1>2, <1>3, <1>4, <1>5, <1>6

\* A decoder is made: its queue is new.
LEMMA OpenStep ==
  ASSUME SoundInv, Open
  PROVE  SoundInv' /\ played' = 0
<1>0. QueueOK /\ ChannelOK /\ PlacesFit
  BY DEF SoundInv
<1>1. producer.pc = "idle" /\ \A c \in Consumers : ConsumerAt(c, "idle")
  BY <1>0, SoundAssumption DEF Open, JobAt, PlacesFit, Skipping
<1>2. QueueOK'
  BY <1>0, <1>1, NewQueueOK DEF Open
<1>3. RingOrder'
  BY <1>0, <1>1, NewOrder, SoundAssumption DEF Open
<1>4. ChannelOK'
  BY <1>0 DEF Open, ChannelOK, JobPlaces, channelVars, ownVars, scriptVars, endVars
<1>5. PlacesFit'
  BY <1>0 DEF Open, NewQueue, JobAt, PlacesFit, Skipping, ConsumerAt, OneJob, channelVars,
       ownVars, scriptVars, endVars
<1> QED
  BY <1>2, <1>3, <1>4, <1>5 DEF SoundInv, Open, NewQueue

LEMMA DecodeStep ==
  ASSUME SoundInv, Acquire \/ DecodeMore
  PROVE  SoundInv' /\ played' = played
<1>0. QueueOK /\ ChannelOK /\ PlacesFit /\ (DeviceOnly => RingOrder)
  BY DEF SoundInv
<1>1. CASE Acquire
  <2>1. QueueOK' /\ (RingOrder => RingOrder')
    BY <1>0, <1>1, AcquireOK, AcquireOrder DEF Acquire
  <2>2. ChannelOK' /\ (DeviceOnly' => DeviceOnly)
    BY <1>0, <1>1 DEF Acquire, JobAt, JobGoes, ChannelOK, JobPlaces, DeviceOnly,
         channelVars, ownVars, scriptVars, endVars
  <2>3. PlacesFit' /\ played' = played
    BY <1>0, <1>1 DEF Acquire, acquireLast, JobAt, JobGoes, PlacesFit, Skipping,
         ConsumerAt, OneJob,
         channelVars, ownVars, scriptVars, endVars
  <2> QED
    BY <1>0, <2>1, <2>2, <2>3 DEF SoundInv
<1>2. CASE DecodeMore
  <2>1. QueueOK' /\ (RingOrder => RingOrder')
    BY <1>0, <1>2, ProduceOK, FillOrder, CommitOrder DEF DecodeMore, Produce
  <2>2. ChannelOK' /\ (DeviceOnly' => DeviceOnly)
    BY <1>0, <1>2 DEF DecodeMore, JobAt, JobGoes, ChannelOK, JobPlaces, DeviceOnly,
         channelVars, ownVars, scriptVars, endVars
  <2>3. UNCHANGED <<consumer, played>>
    BY <1>2 DEF DecodeMore, Produce, Fill, CommitFlag, CommitSignal
  <2>4. PlacesFit'
    BY <1>0, <1>2, <2>3 DEF DecodeMore, JobAt, JobGoes, PlacesFit, Skipping, ConsumerAt, OneJob,
         channelVars, ownVars, scriptVars, endVars
  <2> QED
    BY <1>0, <2>1, <2>2, <2>3, <2>4 DEF SoundInv
<1> QED
  BY <1>1, <1>2

\* The job, or the script, skips a frame: then the order is given up.
LEMMA SkipStepKeeps ==
  ASSUME SoundInv, SkipRest \/ DiscardAll \/ SkipAll
  PROVE  SoundInv' /\ played' = played
<1>0. QueueOK /\ ChannelOK /\ PlacesFit
  BY DEF SoundInv
<1>1. ChannelOK' /\ UNCHANGED <<channelVars, jobVars, ownVars, scriptVars, endVars, posted>>
  BY <1>0 DEF SkipRest, DiscardAll, SkipAll, ChannelOK, jobVars, channelVars, ownVars,
       scriptVars, endVars
<1>2. ~DeviceOnly'
  BY <1>0, <1>1 DEF SkipRest, DiscardAll, SkipAll, JobAt, PlacesFit, DeviceOnly,
       channelVars, jobVars, scriptVars
<1>3. PICK c \in Consumers : SkipStep(c) /\ c = IF SkipRest \/ DiscardAll THEN "job" ELSE "script"
  BY SoundAssumption DEF SkipRest, DiscardAll, SkipAll
<1>4. QueueOK'
  BY <1>0, <1>3, DiscardOK, PopOK DEF SkipStep
<1>5. (\A d \in Consumers : d # c => consumer'[d] = consumer[d]) /\ UNCHANGED producer
  BY <1>0, <1>3, PopFrame
<1>6. PlacesFit'
  <2>1. IF SkipRest \/ DiscardAll THEN job \in {"skip", "discard"} ELSE Skipping
    BY DEF SkipRest, DiscardAll, SkipAll, JobAt
  <2> QED
    BY <1>0, <1>1, <1>3, <1>5, <2>1, SoundAssumption
       DEF PlacesFit, Skipping, ConsumerAt, OneJob, channelVars, jobVars, ownVars, scriptVars
<1>7. played' = played
  BY <1>3 DEF SkipStep, Discard, PopGoesOn, TryWait, MoveHead, MarkEmpty, SignalFree,
       CheckFlushed
<1> QED
  BY <1>1, <1>2, <1>4, <1>6, <1>7 DEF SoundInv

LEMMA SoundInit ==
  ASSUME Init
  PROVE  SoundInv
<1>1. QueueTypeOK
  <2>1. 0 \in Slots /\ size \in Nat /\ 0 \in 0..MaxFlushed
    BY QueueAssumption DEF Slots
  <2> QED
    BY <2>1 DEF Init, QueueInit, QueueTypeOK, NotProducing, NotPopping
<1>2. Popping = {} /\ producer.pc = "idle" /\ \A c \in Consumers : ConsumerAt(c, "idle")
  BY DEF Init, QueueInit, NotPopping, NotProducing, Popping, ConsumerAt
<1>3. SlotsAccounted
  BY <1>2, FS_EmptySet, QueueAssumption DEF Init, QueueInit, SlotsAccounted
<1>4. ChannelOK
  <2>1. 0 \in 0..MaxCalls
    BY SoundAssumption
  <2> QED
    BY <2>1, SoundAssumption DEF Init, ChannelOK, JobPlaces
<1>5. PlacesFit /\ ~DeviceOnly
  BY <1>2, SoundAssumption DEF Init, PlacesFit, Skipping, OneJob, DeviceOnly
<1> QED
  BY <1>1, <1>3, <1>4, <1>5 DEF SoundInv, QueueOK

LEMMA SoundStep ==
  ASSUME SoundInv, [Next]_vars
  PROVE  SoundInv'
<1>1. CASE Callback
  BY <1>1, CallbackStep
<1>2. CASE JobStep
  BY <1>2, OpenStep, DecodeStep, FirstJobStep, LastJobStep, FlushStep, SkipStepKeeps DEF JobStep
<1>3. CASE play \/ stop \/ ScriptGoesOn \/ ShutDown \/ forceStop
  BY <1>3, QuietScriptStep, FlushStep, SkipStepKeeps DEF ScriptGoesOn
<1>4. CASE UNCHANGED vars
  <2>1. QueueOK' /\ (RingOrder => RingOrder')
    BY <1>4, QueueSame DEF vars, SoundInv
  <2>2. ChannelOK' /\ (DeviceOnly' <=> DeviceOnly)
    BY <1>4 DEF vars, channelVars, jobVars, ownVars, scriptVars, endVars, SoundInv,
         ChannelOK, DeviceOnly
  <2>3. PlacesFit'
    BY <1>4 DEF vars, queueVars, channelVars, jobVars, ownVars, scriptVars, SoundInv,
         PlacesFit, Skipping, OneJob, ConsumerAt
  <2> QED
    BY <2>1, <2>2, <2>3 DEF SoundInv
<1> QED
  BY <1>1, <1>2, <1>3, <1>4 DEF Next

LEMMA SoundInvHolds == Spec => []SoundInv
<1>1. Init => SoundInv
  BY SoundInit
<1>2. SoundInv /\ [Next]_vars => SoundInv'
  BY SoundStep
<1> QED
  BY <1>1, <1>2, PTL DEF Spec

(***************************************************************************)
(* The results.                                                            *)
(***************************************************************************)
\* The variables keep their types: the semaphores never go below zero, and
\* the head and the tail stay in the ring.
THEOREM SoundTypes == Spec => []TypeOK
<1>1. SoundInv => TypeOK
  BY DEF SoundInv, QueueOK, ChannelOK, JobPlaces, TypeOK
<1> QED
  BY <1>1, SoundInvHolds, PTL

\* The two semaphores of the queue account for every slot, for a queue of any
\* size and however the device, the script and the job pop at the same time.
THEOREM SlotsAreAccounted == Spec => []SlotsAccounted
<1>1. SoundInv => SlotsAccounted
  BY DEF SoundInv, QueueOK
<1> QED
  BY <1>1, SoundInvHolds, PTL

\* playStream deletes the decoder when neither the callback of the device nor
\* the script can reach it or is in it.
THEOREM DecoderStaysAlive == Spec => []DecoderAlive
<1>1. SoundInv => DecoderAlive
  BY SoundAssumption DEF SoundInv, PlacesFit, ChannelOK, DecoderAlive
<1> QED
  BY <1>1, SoundInvHolds, PTL

\* The channel is in the thread pool once, and not after jobFence has said
\* that it has terminated: play() never adds a job that is still there.
THEOREM ChannelHasOneJob == Spec => []OneJob
<1>1. SoundInv => OneJob
  BY DEF SoundInv, PlacesFit
<1> QED
  BY <1>1, SoundInvHolds, PTL

\* Frames are played in the order of their decoding as long as nobody stops
\* the sound, except that the device may read the slot that is being filled.
THEOREM FramesPlayedInOrder == Spec => PlayedInOrder
<1> DEFINE Ordered == ~stopped /\ played' # played => played' > played \/ played' = 0 \/ FrontUnfilled
<1>1. SoundInv /\ [Next]_vars => [Ordered]_vars
  <2> SUFFICES ASSUME SoundInv, Next
               PROVE  Ordered
    BY DEF Ordered
  <2>1. CASE Callback
    BY <2>1, CallbackStep
  <2>2. CASE Open
    BY <2>2, OpenStep
  <2>3. CASE JobStep /\ ~Open
    BY <2>3, DecodeStep, FirstJobStep, LastJobStep, FlushStep, SkipStepKeeps DEF JobStep
  <2>4. CASE play \/ stop \/ ScriptGoesOn \/ ShutDown \/ forceStop
    BY <2>4, QuietScriptStep, FlushStep, SkipStepKeeps DEF ScriptGoesOn
  <2> QED
    BY <2>1, <2>2, <2>3, <2>4 DEF Next
<1> QED
  BY <1>1, SoundInvHolds, PTL DEF Spec, PlayedInOrder
=============================================================================
