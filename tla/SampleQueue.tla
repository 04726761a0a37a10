----------------------------- MODULE SampleQueue -----------------------------
(***************************************************************************)
(* The decoded frames of a sound: BlockingCircularQueue (threading.h) in   *)
(* an AudioDecoder (decoder.h, decoder.cpp).  One thread decodes.  The     *)
(* queue is made for one consumer, the callback of the audio device, but a *)
(* thread that stops the sound skips frames at the same time: no lock      *)
(* protects the head, and the flag "empty" is written by both sides.       *)
(***************************************************************************)
EXTENDS Integers, FiniteSets

CONSTANTS
    size,        \* of the queue
    Consumers,   \* the threads that take frames
    MaxFlushed   \* bound: where flushed saturates

ASSUME QueueAssumption == size \in Nat \ {0} /\ MaxFlushed \in Nat \ {0}

VARIABLES
    queue,                    \* a frame's number and whether its samples are there
    freeBuffers, usedBuffers, \* semaphores
    bufferHead, bufferTail, empty,
    status, flushing, flushed, \* of Decoder
    producer,                 \* where the decoding thread is, and its slot
    consumer,                 \* where a consumer is in a pop, and what it has read
    decoded, played           \* the last frame decoded, and played by the device

ringVars  == <<queue, freeBuffers, usedBuffers, bufferHead, bufferTail, empty>>
flushVars == <<status, flushing, flushed>>
queueVars == <<ringVars, flushVars, producer, consumer, decoded, played>>

Slots   == 0..(size - 1)

Next1(i) == (i + 1) % size
NotProducing == [pc |-> "idle", slot |-> 0]
NotPopping   == [pc |-> "idle", head |-> 0, last |-> FALSE]

NewQueue ==
    /\ queue' = [i \in Slots |-> [frame |-> 0, len |-> 0]]
    /\ freeBuffers' = size /\ usedBuffers' = 0
    /\ bufferHead' = 0 /\ bufferTail' = 0 /\ empty' = TRUE
    /\ status' = "INIT" /\ flushing' = FALSE /\ flushed' = 0
    /\ decoded' = 0 /\ played' = 0
    /\ UNCHANGED <<producer, consumer>>

QueueInit ==
    /\ queue = [i \in Slots |-> [frame |-> 0, len |-> 0]]
    /\ freeBuffers = size /\ usedBuffers = 0
    /\ bufferHead = 0 /\ bufferTail = 0 /\ empty = TRUE
    /\ status = "INIT" /\ flushing = FALSE /\ flushed = 0
    /\ producer = NotProducing
    /\ consumer = [c \in Consumers |-> NotPopping]
    /\ decoded = 0 /\ played = 0

(***************************************************************************)
(* The producer.                                                           *)
(***************************************************************************)
\* Mutant: a slot is taken even if none is free.
AcquireAnyway ==
    /\ producer.pc = "idle"
    /\ freeBuffers' = IF freeBuffers > 0 THEN freeBuffers - 1 ELSE 0
    /\ bufferTail' = Next1(bufferTail)
    /\ producer' = [pc |-> "fill", slot |-> bufferTail]
    /\ UNCHANGED <<queue, usedBuffers, bufferHead, empty, flushVars, consumer, decoded, played>>

acquireLast ==
    /\ producer.pc = "idle" /\ freeBuffers > 0
    /\ freeBuffers' = freeBuffers - 1
    /\ bufferTail' = Next1(bufferTail)
    /\ producer' = [pc |-> "fill", slot |-> bufferTail]
    /\ UNCHANGED <<queue, usedBuffers, bufferHead, empty, flushVars, consumer, decoded, played>>

Fill ==
    /\ producer.pc = "fill"
    /\ queue' = [queue EXCEPT ![producer.slot] = [frame |-> decoded + 1, len |-> 1]]
    /\ decoded' = decoded + 1
    /\ producer' = [producer EXCEPT !.pc = "flag"]
    /\ UNCHANGED <<freeBuffers, usedBuffers, bufferHead, bufferTail, empty, flushVars, consumer, played>>

\* commitLast: the flag and the signal.
CommitFlag ==
    /\ producer.pc = "flag"
    /\ empty' = FALSE
    /\ producer' = [producer EXCEPT !.pc = "signal"]
    /\ UNCHANGED <<queue, freeBuffers, usedBuffers, bufferHead, bufferTail, flushVars, consumer, decoded, played>>

\* The decoder becomes valid with its first frame.
CommitSignal ==
    /\ producer.pc = "signal"
    /\ usedBuffers' = usedBuffers + 1
    /\ status' = IF status = "INIT" THEN "VALID" ELSE status
    /\ producer' = NotProducing
    /\ UNCHANGED <<queue, freeBuffers, bufferHead, bufferTail, empty, flushing, flushed, consumer, decoded, played>>

Produce == Fill \/ CommitFlag \/ CommitSignal

(***************************************************************************)
(* The consumers.                                                          *)
(***************************************************************************)
ConsumerAt(c, l) == consumer[c].pc = l
SignalFlushed ==
    /\ status' = "FLUSHED"
    /\ flushed' = IF flushed < MaxFlushed THEN flushed + 1 ELSE flushed

FlushIf(b) == IF b THEN SignalFlushed ELSE UNCHANGED <<status, flushed>>

\* setFlushing(), by the decoding thread or the one that stops the sound.
SetFlushing == flushing' = TRUE /\ FlushIf(empty)

\* copyFrame() on an empty queue.
CopyNothing(c) ==
    /\ ConsumerAt(c, "idle") /\ empty
    /\ FlushIf(flushing)
    /\ UNCHANGED <<ringVars, flushing, producer, consumer, decoded, played>>

\* copyFrame(): the front is copied to the device, whole frames at a time.
CopyFrame(c) ==
    /\ ConsumerAt(c, "idle") /\ ~empty
    /\ LET front == queue[bufferHead]
       IN played' = IF front.len = 0 THEN played ELSE front.frame
    /\ queue' = [queue EXCEPT ![bufferHead].len = 0]
    /\ consumer' = [consumer EXCEPT ![c].pc = "pop"]
    /\ UNCHANGED <<freeBuffers, usedBuffers, bufferHead, bufferTail, empty, flushVars, producer, decoded>>

\* Mutant: the permit is looked at and not taken.
PermitKept(c) ==
    /\ ConsumerAt(c, "pop")
    /\ consumer' = [consumer EXCEPT ![c] =
                      IF usedBuffers = 0 THEN [@ EXCEPT !.pc = "check"]
                      ELSE [@ EXCEPT !.pc = "move", !.head = bufferHead]]
    /\ UNCHANGED <<ringVars, flushVars, producer, decoded, played>>

\* nonBlockingPopFront: the permit, the head, the flag, the free slot.
TryWait(c) ==
    /\ ConsumerAt(c, "pop")
    /\ IF usedBuffers = 0
         THEN consumer' = [consumer EXCEPT ![c].pc = "check"] /\ UNCHANGED usedBuffers
         ELSE /\ usedBuffers' = usedBuffers - 1
              /\ consumer' = [consumer EXCEPT ![c] = [@ EXCEPT !.pc = "move", !.head = bufferHead]]
    /\ UNCHANGED <<queue, freeBuffers, bufferHead, bufferTail, empty, flushVars, producer, decoded, played>>

IsLast(head) == head = bufferTail
MoveHead(c) ==
    /\ ConsumerAt(c, "move")
    /\ bufferHead' = Next1(consumer[c].head)
    /\ consumer' = [consumer EXCEPT ![c] = [@ EXCEPT !.pc = "mark", !.last = IsLast(bufferHead')]]
    /\ UNCHANGED <<queue, freeBuffers, usedBuffers, bufferTail, empty, flushVars, producer, decoded, played>>

MarkEmpty(c) ==
    /\ ConsumerAt(c, "mark")
    /\ empty' = (empty \/ consumer[c].last)
    /\ consumer' = [consumer EXCEPT ![c].pc = "free"]
    /\ UNCHANGED <<queue, freeBuffers, usedBuffers, bufferHead, bufferTail, flushVars, producer, decoded, played>>

SignalFree(c) ==
    /\ ConsumerAt(c, "free")
    /\ freeBuffers' = freeBuffers + 1
    /\ consumer' = [consumer EXCEPT ![c].pc = "check"]
    /\ UNCHANGED <<queue, usedBuffers, bufferHead, bufferTail, empty, flushVars, producer, decoded, played>>

\* After a pop: the end of the work, if flushing.
CheckFlushed(c) ==
    /\ ConsumerAt(c, "check")
    /\ FlushIf(flushing /\ empty)
    /\ consumer' = [consumer EXCEPT ![c] = NotPopping]
    /\ UNCHANGED <<ringVars, flushing, producer, decoded, played>>

PopGoesOn(c) == TryWait(c) \/ MoveHead(c) \/ MarkEmpty(c) \/ SignalFree(c) \/ CheckFlushed(c)

\* The loop of skipAll().
Discard(c) ==
    /\ ConsumerAt(c, "idle") /\ ~empty
    /\ consumer' = [consumer EXCEPT ![c].pc = "pop"]
    /\ UNCHANGED <<ringVars, flushVars, producer, decoded, played>>
Skipped(c) == ConsumerAt(c, "idle") /\ empty
SkipStep(c) == Discard(c) \/ PopGoesOn(c)

(***************************************************************************)
(* Properties.                                                             *)
(***************************************************************************)
QueueTypeOK ==
    /\ queue \in [Slots -> [frame : Nat, len : {0, 1}]]
    /\ freeBuffers \in Nat /\ usedBuffers \in Nat
    /\ bufferHead \in Slots /\ bufferTail \in Slots
    /\ {empty, flushing} \subseteq BOOLEAN
    /\ status \in {"INIT", "VALID", "FLUSHED"} /\ flushed \in 0..MaxFlushed
    /\ producer \in [pc : {"idle", "fill", "flag", "signal"}, slot : Slots]
    /\ consumer \in [Consumers -> [pc : {"idle", "pop", "move", "mark", "free", "check"},
                                   head : Slots, last : BOOLEAN]]
    /\ decoded \in Nat /\ played \in Nat

Popping == {c \in Consumers : consumer[c].pc \in {"move", "mark", "free"}}

\* The two semaphores account for every slot, however the threads
\* interleave: a slot is free, used, being filled, or being given back.
SlotsAccounted ==
    freeBuffers + usedBuffers + Cardinality(Popping) + (IF producer.pc = "idle" THEN 0 ELSE 1) = size

\* Two pops have moved the head to the same place.
HeadLost == producer.pc = "idle" /\ usedBuffers = 0 /\ Popping = {} /\ bufferHead # bufferTail
=============================================================================
