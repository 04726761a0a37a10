----------------------------- MODULE StreamCache -----------------------------
(***************************************************************************)
(* The cache of a download in memory (streamcache.cpp): one thread appends *)
(* data to a list of chunks, and others read it through streambufs while   *)
(* it arrives.  A reader that has read everything waits for the main       *)
(* signal of the player (swf.cpp), a condition variable without state: its *)
(* broadcast is made without the mutex the waiters hold.                   *)
(*                                                                         *)
(* The bytes of a stream are numbered: a chunk is where its first byte     *)
(* stands in the stream, how many it holds and how many it can hold.       *)
(***************************************************************************)
EXTENDS Integers, Sequences, FiniteSets

CONSTANTS
    Readers,     \* the streambufs that createReader() has made
    VmReaders,   \* those that are read on the VM thread
    Frame,       \* the thread that ticks for each frame
    Blocks,      \* the lengths of data the writer appends
    ChunkSizes,  \* values of minChunkSize
    ChunkUnit,   \* the unit chunks are allocated in
    MaxLength    \* bound: the length of the stream

ASSUME StreamAssumption ==
    /\ VmReaders \subseteq Readers /\ Frame \notin Readers
    /\ Blocks \subseteq Nat \ {0} /\ ChunkSizes \subseteq Nat \ {0}
    /\ ChunkUnit \in Nat \ {0} /\ MaxLength \in Nat

VARIABLES
    receivedLength, failed, terminated,  \* of StreamCache
    chunks,         \* MemoryStreamCache::chunks
    nextChunkSize,
    minChunkSize,
    writing,        \* where the writer is in append(), and with how much
    op,             \* what a reader is doing
    goal,           \* the offset it waits for or seeks
    get,            \* its chunkIndex, chunkStartOffset and get area (strayed: history)
    cursor,         \* the byte of the stream its user has come to
    eof,            \* underflow() has returned EOF
    at,             \* where a thread is in waitMainSignal()
    frame, handled  \* the frame thread and its IdleEvent

cacheVars  == <<receivedLength, failed, terminated, chunks, nextChunkSize, minChunkSize>>
readerVars == <<op, goal, get, cursor, eof>>
frameVars  == <<frame, handled>>
streamVars == <<cacheVars, writing, readerVars, at, frameVars>>

NotWriting == [pc |-> "idle", length |-> 0]

StreamInit ==
    /\ receivedLength = 0 /\ failed = FALSE /\ terminated = FALSE
    /\ chunks = <<>> /\ nextChunkSize = 0 /\ minChunkSize \in ChunkSizes
    /\ writing = NotWriting
    /\ op = [r \in Readers |-> "idle"] /\ goal = [r \in Readers |-> 0]
    /\ get = [r \in Readers |-> [index |-> 1, start |-> 0, area |-> 0, gptr |-> 0, egptr |-> 0,
                            strayed |-> FALSE]]
    /\ cursor = [r \in Readers |-> 0] /\ eof = [r \in Readers |-> FALSE]
    /\ at = [t \in Readers \union {Frame} |-> "awake"]
    /\ frame = "tick" /\ handled = FALSE

(***************************************************************************)
(* The main signal.                                                        *)
(***************************************************************************)
SignalFrameOnly == at' = [at EXCEPT ![Frame] = IF @ = "asleep" THEN "awake" ELSE @]
sendMainSignal == at' = [t \in DOMAIN at |-> IF at[t] = "asleep" THEN "awake" ELSE at[t]]

\* Between the test of what it waits for and the wait, a thread holds no
\* mutex.
FallAsleep(t) ==
    /\ at[t] = "tested"
    /\ at' = [at EXCEPT ![t] = "asleep"]
    /\ UNCHANGED <<cacheVars, writing, readerVars, frameVars>>

\* Each frame an IdleEvent is put in the VM's queue and waited for.
FramePosts ==
    /\ frame = "tick"
    /\ frame' = "posted" /\ handled' = FALSE
    /\ UNCHANGED <<cacheVars, writing, readerVars, at>>

FrameSignals ==
    /\ frame = "posted" /\ frame' = "idle"
    /\ sendMainSignal
    /\ UNCHANGED <<cacheVars, writing, readerVars, handled>>

FrameTests ==
    /\ frame = "idle" /\ at[Frame] = "awake"
    /\ IF handled THEN frame' = "tick" /\ UNCHANGED at
                  ELSE at' = [at EXCEPT ![Frame] = "tested"] /\ UNCHANGED frame
    /\ UNCHANGED <<cacheVars, writing, readerVars, handled>>

\* The VM comes to the IdleEvent, unless it is waiting for data itself.
VmIdles ==
    /\ frame \in {"posted", "idle"} /\ ~handled
    /\ \A r \in VmReaders : op[r] = "idle"
    /\ handled' = TRUE
    /\ sendMainSignal
    /\ UNCHANGED <<cacheVars, writing, readerVars, frame>>

FrameStep == FramePosts \/ FrameSignals \/ FrameTests \/ FallAsleep(Frame)

(***************************************************************************)
(* The writer.                                                             *)
(***************************************************************************)
Used(i) == chunks[i].used
Stored  == IF chunks = <<>> THEN 0 ELSE chunks[Len(chunks)].start + Used(Len(chunks))
Room    == IF chunks = <<>> THEN 0 ELSE chunks[Len(chunks)].capacity - Used(Len(chunks))

\* append() tests terminated without the mutex.
BeginAppend(n) ==
    /\ writing.pc = "idle"
    /\ ~terminated
    /\ writing' = [pc |-> "store", length |-> n]
    /\ UNCHANGED <<cacheVars, readerVars, at, frameVars>>

LargerOf(a, b) == IF a >= b THEN a ELSE b
RoundUp(n) == ((n - 1) \div ChunkUnit + 1) * ChunkUnit
CapacityTooSmall(n) == RoundUp(LargerOf(minChunkSize, nextChunkSize))
NewCapacity(n) == RoundUp(LargerOf(LargerOf(n, minChunkSize), nextChunkSize))

AllFits(rest)   == rest = 0

\* handleAppend: what fits goes into the last chunk, the rest into a new one.
handleAppend ==
    /\ writing.pc = "store"
    /\ LET n     == writing.length
           inOld == IF n <= Room THEN n ELSE Room
           rest  == n - inOld
           old   == IF inOld = 0 THEN chunks ELSE [chunks EXCEPT ![Len(chunks)].used = @ + inOld]
           c     == NewCapacity(rest)
       IN IF AllFits(rest)
            THEN chunks' = old /\ UNCHANGED nextChunkSize
            ELSE /\ chunks' = Append(old, [start |-> Stored + inOld, used |-> rest, capacity |-> c])
                 /\ nextChunkSize' = c
    /\ writing' = [writing EXCEPT !.pc = "count"]
    /\ UNCHANGED <<receivedLength, failed, terminated, minChunkSize, readerVars, at, frameVars>>

CountAppend ==
    /\ writing.pc = "count"
    /\ receivedLength' = receivedLength + writing.length
    /\ writing' = [writing EXCEPT !.pc = "signal"]
    /\ UNCHANGED <<failed, terminated, chunks, nextChunkSize, minChunkSize, readerVars, at, frameVars>>

SignalAppend ==
    /\ writing.pc = "signal"
    /\ sendMainSignal
    /\ writing' = NotWriting
    /\ UNCHANGED <<cacheVars, readerVars, frameVars>>

AppendGoesOn == handleAppend \/ CountAppend \/ SignalAppend

\* reserve(): the size of the next chunk that is allocated.
NextSizeFor(expected) ==
    IF expected > receivedLength /\ expected > receivedLength + Room
      THEN expected - (receivedLength + Room) ELSE nextChunkSize

\* The headers of the response announce a length before its data.
Reserve(expected) ==
    /\ chunks = <<>>
    /\ nextChunkSize' = NextSizeFor(expected)
    /\ UNCHANGED <<receivedLength, failed, terminated, chunks, minChunkSize, readerVars, at, frameVars>>

\* markFinished(), under the state mutex, by any thread.
MarkFinished(f) ==
    /\ IF terminated THEN UNCHANGED <<failed, terminated, at>>
                     ELSE failed' = f /\ terminated' = TRUE /\ sendMainSignal
    /\ UNCHANGED <<receivedLength, chunks, nextChunkSize, minChunkSize, readerVars, frameVars>>

(***************************************************************************)
(* The readers.                                                            *)
(***************************************************************************)
GetOffset(r) == get[r].start + get[r].gptr

\* After EOF a reader of the stream stops.
Reads(r) == op[r] = "idle" /\ ~eof[r]

\* A byte of the get area.
Consume(r) ==
    /\ Reads(r) /\ get[r].gptr < get[r].egptr
    /\ get' = [get EXCEPT ![r].gptr = @ + 1]
    /\ cursor' = [cursor EXCEPT ![r] = @ + 1]
    /\ UNCHANGED <<cacheVars, writing, op, goal, eof, at, frameVars>>

HasMore(r) == \/ get[r].index < Len(chunks)
              \/ get[r].index = Len(chunks) /\ get[r].gptr < Used(get[r].index)

\* underflow() under the mutex of the chunks: wait, or go on at once.
Underflow(r) ==
    /\ Reads(r) /\ get[r].gptr = get[r].egptr
    /\ IF ~terminated /\ ~HasMore(r)
         THEN op' = [op EXCEPT ![r] = "data"] /\ goal' = [goal EXCEPT ![r] = GetOffset(r)]
         ELSE op' = [op EXCEPT ![r] = "take"] /\ UNCHANGED goal
    /\ UNCHANGED <<cacheVars, writing, get, cursor, eof, at, frameVars>>

Arrived(r) == \/ op[r] = "data" /\ receivedLength > goal[r]
              \/ op[r] \in {"data", "end"} /\ terminated

\* The loops of waitForData and waitForTermination: the test, under the
\* state mutex, and what follows.
TestArrived(r) ==
    /\ op[r] \in {"data", "end"} /\ at[r] = "awake"
    /\ IF Arrived(r)
         THEN op' = [op EXCEPT ![r] = IF @ = "data" THEN "take" ELSE "seek"] /\ UNCHANGED at
         ELSE at' = [at EXCEPT ![r] = "tested"] /\ UNCHANGED op
    /\ UNCHANGED <<cacheVars, writing, goal, get, cursor, eof, frameVars>>

\* setg(), and whether the bytes are no longer those its user has come to.
AreaAtCapacity(r, i, p, lost) ==
    get' = [get EXCEPT ![r] = [@ EXCEPT !.area = i, !.gptr = p, !.egptr = chunks[i].capacity, !.strayed = lost]]
SetArea(r, i, p, lost) ==
    get' = [get EXCEPT ![r] = [@ EXCEPT !.area = i, !.gptr = p, !.egptr = Used(i), !.strayed = lost]]

\* The second half of underflow(), with the mutex again.  A get area that a
\* seek has left in another chunk is compared with the end of this one by its
\* address: if it is below, the new get area begins outside of the chunk, at -1.
Below == -1
Strays(r) == get[r].area \notin {0, get[r].index}
BytesLeft(r) == IF Strays(r) THEN BOOLEAN
                             ELSE {get[r].area = 0 \/ get[r].gptr < Used(get[r].index)}

Take(r) ==
    /\ op[r] = "take"
    /\ \E left \in BytesLeft(r) :
       LET i == get[r].index
           lost == get[r].strayed \/ Strays(r) IN
       \/ /\ i > Len(chunks) \/ (~left /\ i = Len(chunks))
          /\ eof' = [eof EXCEPT ![r] = TRUE]
          /\ get' = [get EXCEPT ![r].strayed = lost]
       \/ /\ i <= Len(chunks) /\ left
          /\ SetArea(r, i, IF Strays(r) THEN Below ELSE get[r].gptr, lost)
          /\ UNCHANGED eof
       \/ /\ i < Len(chunks) /\ ~left
          /\ get' = [get EXCEPT ![r] = [index |-> i + 1, start |-> @.start + Used(i), area |-> i + 1,
                                         gptr |-> 0, egptr |-> Used(i + 1), strayed |-> lost]]
          /\ UNCHANGED eof
    /\ op' = [op EXCEPT ![r] = "idle"]
    /\ UNCHANGED <<cacheVars, writing, goal, cursor, at, frameVars>>

\* seekpos(): beyond what has arrived it waits for the end of the stream.
Seek(r, p) ==
    /\ Reads(r)
    /\ goal' = [goal EXCEPT ![r] = p]
    /\ op' = [op EXCEPT ![r] = IF p >= receivedLength THEN "end" ELSE "seek"]
    /\ UNCHANGED <<cacheVars, writing, get, cursor, eof, at, frameVars>>

HoldsByte(i, p) == chunks[i].start <= p /\ p < chunks[i].start + Used(i)

\* The get area moves to the chunk; chunkIndex and chunkStartOffset do not.
SeekInChunks(r) ==
    /\ op[r] = "seek"
    /\ \/ \E i \in 1..Len(chunks) :
            /\ HoldsByte(i, goal[r])
            /\ SetArea(r, i, goal[r] - chunks[i].start, FALSE)
            /\ cursor' = [cursor EXCEPT ![r] = goal[r]]
       \/ /\ \A i \in 1..Len(chunks) : ~HoldsByte(i, goal[r])
          /\ UNCHANGED <<get, cursor>>
    /\ op' = [op EXCEPT ![r] = "idle"]
    /\ UNCHANGED <<cacheVars, writing, goal, eof, at, frameVars>>

ReadStep(r)  == Consume(r) \/ Underflow(r) \/ TestArrived(r) \/ FallAsleep(r) \/ Take(r)
SeekStep(r)  == SeekInChunks(r) \/ \E p \in 0..MaxLength : Seek(r, p)

\* A stream on its own: a writer that appends blocks and finishes, and
\* another thread, of a player that stops, that may finish it before.
WriterStep ==
    \/ \E n \in Blocks : Stored + n <= MaxLength /\ BeginAppend(n)
    \/ AppendGoesOn
    \/ \E n \in 1..MaxLength : nextChunkSize = 0 /\ Reserve(n) /\ UNCHANGED writing
    \/ writing.pc = "idle" /\ \E f \in BOOLEAN : MarkFinished(f) /\ UNCHANGED writing

OtherStops == MarkFinished(FALSE) /\ UNCHANGED writing

StreamNext ==
    \/ WriterStep \/ OtherStops \/ FrameStep \/ VmIdles
    \/ \E r \in Readers : ReadStep(r) \/ SeekStep(r)

StreamSpec == StreamInit /\ [][StreamNext]_streamVars

\* Threads run; the writer goes on until the stream is finished; the VM
\* comes to the IdleEvent.
FairStream ==
    /\ StreamSpec
    /\ WF_streamVars(WriterStep) /\ WF_streamVars(FrameStep) /\ WF_streamVars(VmIdles)
    /\ \A r \in Readers : WF_streamVars(ReadStep(r)) /\ WF_streamVars(SeekInChunks(r))

(***************************************************************************)
(* Properties.                                                             *)
(***************************************************************************)
StreamTypeOK ==
    /\ receivedLength \in Nat /\ failed \in BOOLEAN /\ terminated \in BOOLEAN
    /\ chunks \in Seq([start : Nat, used : Nat \ {0}, capacity : Nat])
    /\ nextChunkSize \in Nat /\ minChunkSize \in ChunkSizes
    /\ writing \in [pc : {"idle", "store", "count", "signal"}, length : Nat]
    /\ op \in [Readers -> {"idle", "data", "end", "take", "seek"}]
    /\ goal \in [Readers -> Nat]
    /\ get \in [Readers -> [index : Nat \ {0}, start : Nat, area : Nat,
                          gptr : Nat \union {Below}, egptr : Nat, strayed : BOOLEAN]]
    /\ cursor \in [Readers -> Nat] /\ eof \in [Readers -> BOOLEAN]
    /\ at \in [Readers \union {Frame} -> {"awake", "tested", "asleep"}]
    /\ frame \in {"tick", "posted", "idle"} /\ handled \in BOOLEAN

\* The chunks hold the stream without a gap, and what is counted as received
\* is in them already: only the block the writer has just stored is not yet
\* counted.
ReceivedIsStored ==
    /\ \A i \in 1..Len(chunks) :
         /\ chunks[i].start = IF i = 1 THEN 0 ELSE chunks[i - 1].start + Used(i - 1)
         /\ Used(i) <= chunks[i].capacity
    /\ receivedLength = Stored - (IF writing.pc = "count" THEN writing.length ELSE 0)

\* A reader gives its user the bytes of the stream in their order, each
\* once, across chunks that grow and are added while it reads: the next byte
\* of its get area is the one its user has come to.  Only a reader that reads on
\* after a seek into another chunk than that of its chunkIndex loses its place,
\* until it seeks again.
ReadsInOrder ==
    \A r \in Readers :
        get[r].area # 0 /\ ~get[r].strayed =>
                           /\ get[r].area <= Len(chunks)
                           /\ chunks[get[r].area].start + get[r].gptr = cursor[r]
                           /\ get[r].egptr <= Used(get[r].area)

\* getOffset: "Get the position of the read cursor in the (virtual)
\* downloaded data" (streamcache.cpp).
OffsetIsCursor == \A r \in Readers : op[r] = "idle" => GetOffset(r) = cursor[r]

\* What underflow asserts: EOF is returned only when the stream has
\* terminated and all that was stored has been read, and otherwise there is
\* a byte to return.
UnderflowReturns ==
    [][\A r \in Readers :
         op[r] = "take" /\ op'[r] = "idle" /\ ~get'[r].strayed =>
            IF eof'[r] THEN terminated /\ cursor[r] = Stored ELSE get'[r].gptr < get'[r].egptr]_streamVars

\* A reader that loses the wake-up of what has arrived is woken by a later
\* frame: it ends its wait, unless the frame's thread has lost the wake-up of
\* its IdleEvent too and sleeps for good.
SignalRepairsWait ==
    \A r \in Readers : Arrived(r) ~> \/ op[r] \notin {"data", "end"}
                                     \/ at[Frame] = "asleep" /\ handled

\* waitForData: "Wait until more than currentOffset bytes has been received
\* or until terminated" (streamcache.h).
ArrivalEndsWait == \A r \in Readers : Arrived(r) ~> op[r] \notin {"data", "end"}
=============================================================================
