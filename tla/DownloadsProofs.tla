--------------------------- MODULE DownloadsProofs ---------------------------
(***************************************************************************)
(* Proofs about StreamCache and Downloads.  Of the stream, for any         *)
(* readers, any blocks and any sizes of the chunks: what was received is   *)
(* stored, and every reader takes the bytes in order; the lemmas are about *)
(* single actions, because Downloads takes its stream from StreamCache and *)
(* needs them too.  Of a load, for any announced lengths: no thread uses   *)
(* its downloader after it was deleted, and a complete load has all that   *)
(* was received.                                                           *)
(***************************************************************************)
EXTENDS Downloads, SequenceTheorems, TLAPS

(***************************************************************************)
(* The stream: the inductive invariant of StreamCache.                     *)
(***************************************************************************)
Chunk == [start : Nat, used : Nat \ {0}, capacity : Nat]

\* The types of what append() works on, and of what the readers work on.
WriterTypes ==
    /\ receivedLength \in Nat /\ failed \in BOOLEAN /\ terminated \in BOOLEAN
    /\ chunks \in Seq(Chunk)
    /\ nextChunkSize \in Nat /\ minChunkSize \in ChunkSizes
    /\ writing \in [pc : {"idle", "store", "count", "signal"}, length : Nat]

Gets == [index : Nat \ {0}, start : Nat, area : Nat, gptr : Nat \union {Below}, egptr : Nat,
         strayed : BOOLEAN]
ReaderTypes ==
    /\ op \in [Readers -> {"idle", "data", "end", "take", "seek"}]
    /\ goal \in [Readers -> Nat]
    /\ get \in [Readers -> Gets]
    /\ cursor \in [Readers -> Nat] /\ eof \in [Readers -> BOOLEAN]

SignalTypes ==
    /\ at \in [Readers \union {Frame} -> {"awake", "tested", "asleep"}]
    /\ frame \in {"tick", "posted", "idle"} /\ handled \in BOOLEAN

\* The writer's side.
CacheInv == WriterTypes /\ ReceivedIsStored

\* A reader has read nothing, or its get area ends in a chunk and holds what
\* its user has come to, unless an underflow has gone on from the wrong chunk.
AreaFits(r) ==
    IF get[r].area = 0
      THEN get[r].index = 1 /\ get[r].gptr = 0 /\ get[r].egptr = 0 /\ cursor[r] = 0
      ELSE /\ get[r].area <= Len(chunks)
           /\ ~get[r].strayed => chunks[get[r].area].start + get[r].gptr = cursor[r]
           /\ get[r].gptr <= get[r].egptr
           /\ get[r].egptr <= Used(get[r].area)
ReaderInv == ReaderTypes /\ \A r \in Readers : AreaFits(r)

StreamInv == CacheInv /\ ReaderInv /\ SignalTypes

(***************************************************************************)
(* The writer.                                                             *)
(***************************************************************************)
\* A chunk is never smaller than what is to be stored in it.
LEMMA RoundUpBound ==
  ASSUME NEW n \in Nat \ {0}
  PROVE  RoundUp(n) \in Nat /\ RoundUp(n) >= n
<1> DEFINE q == (n - 1) \div ChunkUnit
           m == (n - 1) % ChunkUnit
<1>1. ChunkUnit \in Nat \ {0} /\ n - 1 \in Nat
  BY StreamAssumption
<1>2. q \in Int /\ m \in Int /\ n - 1 = ChunkUnit * q + m /\ 0 <= m /\ m < ChunkUnit
  BY <1>1
<1>3. RoundUp(n) = ChunkUnit * q + ChunkUnit
  <2>1. RoundUp(n) = (q + 1) * ChunkUnit
    BY DEF RoundUp
  <2> HIDE DEF q
  <2> QED
    BY <2>1, <1>1, <1>2
<1> HIDE DEF q, m
<1>4. ChunkUnit * q \in Int
  BY <1>1, <1>2
<1> QED
  BY <1>1, <1>2, <1>3, <1>4

LEMMA CapacityBound ==
  ASSUME CacheInv, NEW n \in Nat \ {0}
  PROVE  NewCapacity(n) \in Nat /\ NewCapacity(n) >= n
<1> DEFINE m == LargerOf(LargerOf(n, minChunkSize), nextChunkSize)
<1>1. m \in Nat \ {0} /\ m >= n
  BY StreamAssumption DEF LargerOf, CacheInv, WriterTypes
<1>2. NewCapacity(n) = RoundUp(m)
  BY DEF NewCapacity
<1> HIDE DEF m
<1> QED
  BY <1>1, <1>2, RoundUpBound

\* What is stored and what fits, as numbers.
LEMMA LastChunk ==
  ASSUME CacheInv
  PROVE  /\ Stored \in Nat /\ Room \in Nat /\ Len(chunks) \in Nat
         /\ chunks = <<>> <=> Len(chunks) = 0
         /\ \A i \in 1..Len(chunks) : chunks[i] \in Chunk
<1>1. /\ Len(chunks) \in Nat /\ (chunks = <<>> <=> Len(chunks) = 0)
      /\ \A i \in 1..Len(chunks) : chunks[i] \in Chunk
  BY DEF CacheInv, WriterTypes
<1>2. CASE chunks = <<>>
  BY <1>1, <1>2 DEF Stored, Room
<1>3. CASE chunks # <<>>
  <2>1. Len(chunks) \in 1..Len(chunks) /\ chunks[Len(chunks)] \in Chunk
    BY <1>1, <1>3
  <2>2. Used(Len(chunks)) <= chunks[Len(chunks)].capacity
    BY <2>1 DEF CacheInv, ReceivedIsStored
  <2> QED
    BY <1>1, <1>3, <2>1, <2>2 DEF Stored, Room, Used, Chunk
<1> QED
  BY <1>1, <1>2, <1>3

\* The chunks a reader knows stay, where they are, and only grow.
Grows ==
    /\ Len(chunks') >= Len(chunks)
    /\ \A i \in 1..Len(chunks) : /\ chunks'[i].start = chunks[i].start
                                 /\ chunks'[i].used >= chunks[i].used

\* handleAppend stores the whole block at the end of the stream.
LEMMA StoreKeeps ==
  ASSUME CacheInv, handleAppend
  PROVE  CacheInv' /\ Grows /\ Stored' = Stored + writing.length
<1> DEFINE n     == writing.length
           inOld == IF n <= Room THEN n ELSE Room
           rest  == n - inOld
           old   == IF inOld = 0 THEN chunks ELSE [chunks EXCEPT ![Len(chunks)].used = @ + inOld]
           c     == NewCapacity(rest)
           new   == [start |-> Stored + inOld, used |-> rest, capacity |-> c]
           L     == Len(chunks)
<1>1. /\ Stored \in Nat /\ Room \in Nat /\ L \in Nat /\ n \in Nat
      /\ chunks = <<>> <=> L = 0
      /\ \A i \in 1..L : chunks[i] \in Chunk
  BY LastChunk DEF CacheInv, WriterTypes
<1>2. inOld \in Nat /\ rest \in Nat /\ inOld <= Room /\ inOld + rest = n /\ (L = 0 => inOld = 0)
  BY <1>1 DEF Room
<1>3. /\ \A i \in 1..L : /\ chunks[i].start = IF i = 1 THEN 0 ELSE chunks[i - 1].start + chunks[i - 1].used
                         /\ chunks[i].used <= chunks[i].capacity
      /\ receivedLength = Stored
      /\ receivedLength \in Nat
  BY <1>1 DEF CacheInv, WriterTypes, ReceivedIsStored, Used, handleAppend
<1>4. L # 0 => Stored = chunks[L].start + chunks[L].used /\ Room = chunks[L].capacity - chunks[L].used
  BY <1>1 DEF Stored, Room, Used
\* The last chunk takes what fits.
<1>5. /\ old \in Seq(Chunk) /\ Len(old) = L
      /\ \A i \in 1..L : /\ old[i] \in Chunk
                         /\ old[i].start = chunks[i].start /\ old[i].capacity = chunks[i].capacity
                         /\ old[i].used = IF i = L THEN chunks[i].used + inOld ELSE chunks[i].used
  <2>1. CASE inOld = 0
    <3>1. old = chunks /\ chunks \in Seq(Chunk)
      BY <2>1 DEF CacheInv, WriterTypes
    <3> HIDE DEF old
    <3>2. \A i \in 1..L : chunks[i].used = chunks[i].used + inOld
      BY <1>1, <2>1 DEF Chunk
    <3> QED
      BY <1>1, <3>1, <3>2
  <2>2. CASE inOld # 0
    <3> DEFINE grown == [chunks[L] EXCEPT !.used = @ + inOld]
    <3>1. L \in 1..L /\ chunks[L] \in Chunk /\ chunks \in Seq(Chunk)
      BY <1>1, <1>2, <2>2 DEF CacheInv, WriterTypes
    <3>2. grown \in Chunk /\ grown.start = chunks[L].start /\ grown.capacity = chunks[L].capacity
          /\ grown.used = chunks[L].used + inOld
      <4> HIDE DEF inOld
      <4>1. chunks[L].used + inOld \in Nat \ {0}
        BY <1>2, <3>1 DEF Chunk
      <4> QED
        BY <3>1, <4>1 DEF Chunk
    <3>3. old = [chunks EXCEPT ![L] = grown]
      BY <2>2
    <3> HIDE DEF old, grown, inOld
    <3>4. old \in Seq(Chunk) /\ Len(old) = L /\ \A i \in 1..L : old[i] = IF i = L THEN grown ELSE chunks[i]
      BY <3>1, <3>2, <3>3
    <3> QED
      BY <1>1, <3>2, <3>4
  <2> QED
    BY <2>1, <2>2
<1>u. \A i \in 1..L : chunks[i].start \in Nat /\ chunks[i].used \in Nat /\ chunks[i].capacity \in Nat
  BY <1>1 DEF Chunk
<1>v. L # 0 => old[L].start = chunks[L].start /\ old[L].used = chunks[L].used + inOld
             /\ chunks[L].start \in Nat /\ chunks[L].used \in Nat
  <2>1. L # 0 => L \in 1..L
    BY <1>1
  <2> HIDE DEF old, inOld, L
  <2> QED
    BY <1>5, <1>u, <2>1
<1>6. old = <<>> <=> L = 0
  BY <1>5
<1>7. /\ chunks' = IF rest = 0 THEN old ELSE Append(old, new)
      /\ nextChunkSize' = IF rest = 0 THEN nextChunkSize ELSE c
      /\ writing' = [writing EXCEPT !.pc = "count"]
      /\ UNCHANGED <<receivedLength, failed, terminated, minChunkSize>>
  BY DEF handleAppend, AllFits
<1>8. rest # 0 => c \in Nat /\ c >= rest /\ new \in Chunk
  <2> SUFFICES ASSUME rest # 0
               PROVE  c \in Nat /\ c >= rest /\ new \in Chunk
    OBVIOUS
  <2>1. rest \in Nat \ {0} /\ Stored + inOld \in Nat
    BY <1>1, <1>2
  <2>2. c \in Nat /\ c >= rest
    BY <2>1, CapacityBound
  <2> HIDE DEF c, rest, inOld
  <2> QED
    BY <2>1, <2>2 DEF Chunk
<1> HIDE DEF old, inOld, rest, c
\* The rest goes into a chunk of its own.
<1>9. /\ chunks' \in Seq(Chunk) /\ Len(chunks') = (IF rest = 0 THEN L ELSE L + 1)
      /\ \A i \in 1..L : chunks'[i] = old[i]
      /\ rest # 0 => chunks'[L + 1] = new
  <2>1. CASE rest = 0
    BY <2>1, <1>1, <1>5, <1>7
  <2>2. CASE rest # 0
    BY <2>2, <1>1, <1>5, <1>7, <1>8
  <2> QED
    BY <2>1, <2>2
<1>10. Grows
  <2>1. Len(chunks') >= L
    BY <1>1, <1>9
  <2>2. ASSUME NEW i \in 1..L
        PROVE  chunks'[i].start = chunks[i].start /\ chunks'[i].used >= chunks[i].used
    BY <1>u, <1>2, <1>5, <1>9, <2>2
  <2> QED
    BY <2>1, <2>2 DEF Grows
<1>11. Stored' = Stored + n
  <2>1. CASE rest = 0
    <3>1. CASE L = 0
      BY <1>1, <1>2, <1>6, <1>7, <2>1, <3>1 DEF Stored
    <3>2. CASE L # 0
      <4>1. chunks' # <<>> /\ Len(chunks') = L /\ L \in 1..L
        BY <1>1, <1>6, <1>7, <1>9, <2>1, <3>2
      <4>2. Stored' = old[L].start + old[L].used
        BY <4>1, <1>9 DEF Stored, Used
      <4>3. inOld = n
        BY <1>1, <1>2, <2>1
      <4>4. Stored = chunks[L].start + chunks[L].used
        BY <1>4, <3>2
      <4> HIDE DEF L
      <4> QED
        BY <1>v, <1>2, <3>2, <4>2, <4>3, <4>4
    <3> QED
      BY <3>1, <3>2
  <2>2. CASE rest # 0
    <3>1. chunks' # <<>> /\ Len(chunks') = L + 1
      BY <1>1, <1>9, <2>2
    <3>2. Stored' = new.start + new.used
      BY <3>1, <1>9, <2>2 DEF Stored, Used
    <3> QED
      BY <1>1, <1>2, <3>2
  <2> QED
    BY <2>1, <2>2
<1>12. ASSUME NEW i \in 1..Len(chunks')
       PROVE  /\ chunks'[i].start = IF i = 1 THEN 0 ELSE chunks'[i - 1].start + chunks'[i - 1].used
              /\ chunks'[i].used <= chunks'[i].capacity
  <2>1. CASE i \in 1..L
    <3>1. chunks'[i].start = chunks[i].start /\ chunks'[i].capacity = chunks[i].capacity
      BY <1>5, <1>9, <2>1
    <3>2. i # 1 => /\ i - 1 \in 1..L /\ i - 1 # L
                   /\ chunks'[i - 1].start = chunks[i - 1].start /\ chunks'[i - 1].used = chunks[i - 1].used
      <4>1. i # 1 => i - 1 \in 1..L /\ i - 1 # L
        <5> HIDE DEF L
        <5> QED
          BY <1>1, <2>1
      <4>2. \A j \in 1..L : j # L => chunks'[j].start = chunks[j].start /\ chunks'[j].used = chunks[j].used
        BY <1>5, <1>9
      <4> QED
        BY <4>1, <4>2
    <3>3. chunks'[i].used <= chunks'[i].capacity
      <4>1. CASE i = L
        <5>1. Room = chunks[L].capacity - chunks[L].used /\ Room \in Nat /\ inOld \in Nat /\ inOld <= Room
          BY <1>1, <1>2, <1>4, <2>1, <4>1
        <5>2. /\ chunks'[L].used = chunks[L].used + inOld /\ chunks'[L].capacity = chunks[L].capacity
              /\ chunks[L].used \in Nat /\ chunks[L].capacity \in Nat
          BY <1>5, <1>9, <1>u, <2>1, <4>1
        <5> HIDE DEF L
        <5> QED
          BY <4>1, <5>1, <5>2
      <4>2. CASE i # L
        BY <1>3, <1>5, <1>9, <2>1, <4>2
      <4> QED
        BY <4>1, <4>2
    <3> QED
      BY <1>3, <2>1, <3>1, <3>2, <3>3
  <2>2. CASE i \notin 1..L
    <3>1. rest # 0 /\ i = L + 1 /\ chunks'[i] = new
      BY <1>1, <1>9, <2>2
    <3>2. CASE L = 0
      <4>1. Stored = 0 /\ inOld = 0
        BY <1>1, <1>2, <3>2 DEF Stored
      <4> QED
        BY <1>8, <3>1, <3>2, <4>1
    <3>3. CASE L # 0
      <4>1. L \in 1..L /\ chunks'[L] = old[L] /\ i - 1 = L /\ i # 1
        BY <1>1, <1>9, <3>1, <3>3
      <4>2. old[L].start + old[L].used = Stored + inOld
        <5>1. Stored = chunks[L].start + chunks[L].used /\ inOld \in Nat
          BY <1>2, <1>4, <3>3
        <5>2. old[L].start = chunks[L].start /\ old[L].used = chunks[L].used + inOld
              /\ chunks[L].start \in Nat /\ chunks[L].used \in Nat
          BY <1>v, <3>3
        <5> QED
          BY <5>1, <5>2
      <4> QED
        BY <1>8, <3>1, <4>1, <4>2
    <3> QED
      BY <3>2, <3>3
  <2> QED
    BY <2>1, <2>2
<1>13. ReceivedIsStored'
  <2>1. writing'.pc = "count" /\ writing'.length = n
    BY <1>7 DEF CacheInv, WriterTypes
  <2>2. receivedLength' = Stored' - (IF writing'.pc = "count" THEN writing'.length ELSE 0)
    BY <1>1, <1>3, <1>7, <1>11, <2>1
  <2> HIDE DEF n
  <2> QED
    BY <1>12, <2>2 DEF ReceivedIsStored, Used
<1>14. WriterTypes'
  BY <1>1, <1>7, <1>8, <1>9 DEF CacheInv, WriterTypes
<1> QED
  BY <1>10, <1>11, <1>13, <1>14 DEF CacheInv

\* The other steps of append(), with what they leave alone.
LEMMA BeginKeeps ==
  ASSUME CacheInv, NEW n \in Nat, BeginAppend(n)
  PROVE  CacheInv'
<1>1. UNCHANGED cacheVars /\ writing.pc = "idle" /\ writing' = [pc |-> "store", length |-> n]
  BY DEF BeginAppend
<1>2. WriterTypes'
  BY <1>1 DEF CacheInv, WriterTypes, cacheVars
<1>3. Stored' = Stored
  BY <1>1 DEF Stored, Used, cacheVars
<1> QED
  BY <1>1, <1>2, <1>3 DEF CacheInv, ReceivedIsStored, Used, cacheVars

LEMMA CountKeeps ==
  ASSUME CacheInv, CountAppend \/ SignalAppend
  PROVE  CacheInv'
<1>1. CASE CountAppend
  <2>1. /\ writing.pc = "count" /\ writing'.pc = "signal"
        /\ receivedLength' = receivedLength + writing.length
        /\ UNCHANGED chunks
    BY <1>1 DEF CountAppend, CacheInv, WriterTypes
  <2>2. WriterTypes'
    BY <1>1, <2>1 DEF CountAppend, CacheInv, WriterTypes
  <2>3. Stored' = Stored /\ Stored \in Nat
    BY <2>1, LastChunk DEF Stored, Used
  <2>4. receivedLength' = Stored' - (IF writing'.pc = "count" THEN writing'.length ELSE 0)
    BY <2>1, <2>3 DEF CacheInv, WriterTypes, ReceivedIsStored
  <2> QED
    BY <2>1, <2>2, <2>4 DEF CacheInv, ReceivedIsStored, Used
<1>2. CASE SignalAppend
  <2>1. UNCHANGED cacheVars /\ writing.pc = "signal" /\ writing'.pc = "idle"
    BY <1>2 DEF SignalAppend, NotWriting
  <2>2. WriterTypes'
    BY <1>2 DEF SignalAppend, NotWriting, CacheInv, WriterTypes, cacheVars
  <2>3. Stored' = Stored
    BY <2>1 DEF Stored, Used, cacheVars
  <2> QED
    BY <2>1, <2>2, <2>3 DEF CacheInv, ReceivedIsStored, Used, cacheVars
<1> QED
  BY <1>1, <1>2

LEMMA ReserveKeeps ==
  ASSUME CacheInv, NEW n \in Nat, Reserve(n), UNCHANGED writing
  PROVE  CacheInv'
<1>1. nextChunkSize' \in Nat
  BY LastChunk DEF Reserve, NextSizeFor, CacheInv, WriterTypes
<1>2. WriterTypes' /\ UNCHANGED <<chunks, receivedLength>>
  BY <1>1 DEF Reserve, CacheInv, WriterTypes
<1>3. Stored' = Stored
  BY <1>2 DEF Stored, Used
<1> QED
  BY <1>2, <1>3 DEF CacheInv, ReceivedIsStored, Used

LEMMA FinishKeeps ==
  ASSUME CacheInv, NEW f \in BOOLEAN, MarkFinished(f), UNCHANGED writing
  PROVE  CacheInv'
<1>1. WriterTypes' /\ UNCHANGED <<chunks, receivedLength>>
  BY DEF MarkFinished, CacheInv, WriterTypes
<1>2. Stored' = Stored
  BY <1>1 DEF Stored, Used
<1> QED
  BY <1>1, <1>2 DEF CacheInv, ReceivedIsStored, Used

LEMMA CacheSame ==
  ASSUME CacheInv, UNCHANGED <<cacheVars, writing>>
  PROVE  CacheInv' /\ Grows
<1>1. WriterTypes'
  BY DEF CacheInv, WriterTypes, cacheVars
<1>2. Stored' = Stored
  BY DEF Stored, Used, cacheVars
<1> QED
  BY <1>1, <1>2, LastChunk DEF CacheInv, ReceivedIsStored, Used, cacheVars, Grows, Chunk

(***************************************************************************)
(* The readers.                                                            *)
(***************************************************************************)
\* Whatever the writer does, a get area stays a part of its chunk.
LEMMA AreaSurvives ==
  ASSUME CacheInv, ReaderInv, Grows, CacheInv', UNCHANGED readerVars
  PROVE  ReaderInv'
<1>1. ReaderTypes' /\ UNCHANGED <<get, cursor>>
  BY DEF ReaderInv, ReaderTypes, readerVars
<1>2. ASSUME NEW r \in Readers PROVE AreaFits(r)'
  <2> DEFINE a == get[r].area
  <2>1. a \in Nat /\ get[r].egptr \in Nat /\ get[r].gptr \in Int
    BY DEF ReaderInv, ReaderTypes, Gets, Below
  <2>2. CASE a = 0
    BY <1>1, <2>2 DEF ReaderInv, AreaFits
  <2>3. CASE a # 0
    <3>1. a \in 1..Len(chunks) /\ chunks[a] \in Chunk
      BY <2>1, <2>3, LastChunk DEF ReaderInv, AreaFits
    <3>2. Len(chunks') >= Len(chunks) /\ Len(chunks') \in Nat /\ Len(chunks) \in Nat
      BY LastChunk DEF Grows, CacheInv, WriterTypes
    <3>3. a \in 1..Len(chunks') /\ chunks'[a].start = chunks[a].start /\ chunks'[a].used >= chunks[a].used
          /\ chunks'[a].used \in Nat /\ chunks[a].used \in Nat
      <4>1. a \in 1..Len(chunks')
        BY <3>1, <3>2
      <4>2. chunks' \in Seq(Chunk)
        BY DEF CacheInv, WriterTypes
      <4>3. chunks'[a] \in Chunk
        BY <4>1, <4>2
      <4> QED
        BY <3>1, <4>1, <4>3 DEF Grows, Chunk
    <3>4. /\ a <= Len(chunks) /\ get[r].gptr <= get[r].egptr /\ get[r].egptr <= chunks[a].used
          /\ ~get[r].strayed => chunks[a].start + get[r].gptr = cursor[r]
      BY <2>3 DEF ReaderInv, AreaFits, Used
    <3> QED
      BY <1>1, <2>1, <2>3, <3>2, <3>3, <3>4 DEF AreaFits, Used
  <2> QED
    BY <2>2, <2>3
<1> QED
  BY <1>1, <1>2 DEF ReaderInv

\* Steps that move no get area.
LEMMA AreasSame ==
  ASSUME ReaderInv, UNCHANGED <<chunks, get, cursor>>, ReaderTypes'
  PROVE  ReaderInv'
BY DEF ReaderInv, AreaFits, Used

\* A step of reader r that changes its get area and its cursor only.
LEMMA AreaMoved ==
  ASSUME ReaderInv, UNCHANGED chunks, NEW r \in Readers, ReaderTypes',
         \A s \in Readers : s # r => get'[s] = get[s] /\ cursor'[s] = cursor[s],
         AreaFits(r)'
  PROVE  ReaderInv'
BY DEF ReaderInv, AreaFits, Used

LEMMA ConsumeKeeps ==
  ASSUME CacheInv, ReaderInv, NEW r \in Readers, Consume(r)
  PROVE  ReaderInv'
<1>1. /\ get \in [Readers -> Gets] /\ cursor \in [Readers -> Nat]
      /\ get[r] \in Gets /\ get[r].gptr + 1 \in Nat
  BY DEF ReaderInv, ReaderTypes, Gets, Below
<1> DEFINE g == [get[r] EXCEPT !.gptr = @ + 1]
<1>2. /\ g \in Gets /\ g.strayed = get[r].strayed
      /\ g.area = get[r].area /\ g.gptr = get[r].gptr + 1 /\ g.egptr = get[r].egptr
  BY <1>1 DEF Gets
<1>3. get' = [get EXCEPT ![r] = g] /\ cursor' = [cursor EXCEPT ![r] = cursor[r] + 1]
      /\ get[r].gptr < get[r].egptr /\ UNCHANGED <<chunks, op, goal, eof>>
  BY DEF Consume, cacheVars
<1> HIDE DEF g
<1>4. get'[r] = g /\ cursor'[r] = cursor[r] + 1
      /\ \A s \in Readers : s # r => get'[s] = get[s] /\ cursor'[s] = cursor[s]
  BY <1>1, <1>3
<1>5. ReaderTypes'
  BY <1>1, <1>2, <1>3 DEF ReaderInv, ReaderTypes
<1>6. get[r].gptr \in Int /\ get[r].egptr \in Nat /\ cursor[r] \in Nat /\ get[r].area \in Nat
  BY <1>1 DEF Gets, Below
<1>7. AreaFits(r)'
  <2>1. get[r].area # 0
    BY <1>3, <1>6 DEF ReaderInv, AreaFits
  <2>2. chunks[get[r].area].start \in Nat
    BY <2>1, <1>6, LastChunk DEF ReaderInv, AreaFits, Chunk
  <2> QED
    <3>1. /\ get[r].area <= Len(chunks) /\ get[r].egptr <= chunks[get[r].area].used
          /\ ~get[r].strayed => chunks[get[r].area].start + get[r].gptr = cursor[r]
      BY <2>1 DEF ReaderInv, AreaFits, Used
    <3>2. /\ g.area <= Len(chunks)
          /\ ~g.strayed => chunks[g.area].start + g.gptr = cursor[r] + 1
          /\ g.gptr <= g.egptr /\ g.egptr <= chunks[g.area].used
      <4>1. get[r].gptr < get[r].egptr
        BY <1>3
      <4>2. get[r].gptr + 1 <= get[r].egptr
        BY <1>6, <4>1
      <4>3. ~get[r].strayed => chunks[get[r].area].start + (get[r].gptr + 1) = cursor[r] + 1
        BY <1>6, <2>2, <3>1
      <4>4. /\ g.area = get[r].area /\ g.gptr = get[r].gptr + 1 /\ g.egptr = get[r].egptr
            /\ g.strayed = get[r].strayed
        BY <1>2
      <4> HIDE DEF g
      <4> QED
        BY <3>1, <4>2, <4>3, <4>4, Zenon
    <3>3. /\ get'[r].area # 0 /\ get'[r].area <= Len(chunks')
          /\ ~get'[r].strayed => chunks'[get'[r].area].start + get'[r].gptr = cursor'[r]
          /\ get'[r].gptr <= get'[r].egptr /\ get'[r].egptr <= chunks'[get'[r].area].used
      <4>1. get'[r] = g /\ cursor'[r] = cursor[r] + 1 /\ chunks' = chunks /\ g.area # 0
        BY <1>2, <1>3, <1>4, <2>1
      <4> HIDE DEF g
      <4> QED
        BY <3>2, <4>1, Zenon
    <3> QED
      BY <3>3, Zenon DEF AreaFits, Used
<1> QED
  BY <1>3, <1>4, <1>5, <1>7, AreaMoved

\* The second half of underflow(): the area is the rest of its chunk, or the
\* begin of the next one, which starts where the area ends.  When the area was
\* in another chunk, the reader has strayed, and only its bounds are kept.
LEMMA TakeKeeps ==
  ASSUME CacheInv, ReaderInv, NEW r \in Readers, Take(r)
  PROVE  ReaderInv'
<1> DEFINE i == get[r].index
           p == get[r].gptr
           lost == get[r].strayed \/ Strays(r)
           stays == IF Strays(r) THEN Below ELSE p
<1>1. /\ get \in [Readers -> Gets] /\ cursor \in [Readers -> Nat] /\ i \in Nat \ {0}
      /\ p \in Int /\ p \in Nat \union {Below} /\ stays \in Nat \union {Below} /\ stays \in Int
      /\ get[r].area \in Nat /\ get[r].start \in Nat /\ get[r].egptr \in Nat /\ lost \in BOOLEAN
      /\ get[r] \in Gets
  BY DEF ReaderInv, ReaderTypes, Gets, Below, Strays
<1>2. UNCHANGED <<chunks, cursor, goal>> /\ op' \in [Readers -> {"idle", "data", "end", "take", "seek"}]
      /\ eof' \in [Readers -> BOOLEAN]
  BY DEF Take, cacheVars, ReaderInv, ReaderTypes
<1>3. ~lost => get[r].area \in {0, i} /\ ~get[r].strayed /\ stays = p
  BY DEF Strays
<1>4. CASE get' = [get EXCEPT ![r].strayed = lost]
  <2> DEFINE g == [get[r] EXCEPT !.strayed = lost]
  <2>1. /\ g \in Gets /\ g.index = i /\ g.area = get[r].area /\ g.gptr = p /\ g.egptr = get[r].egptr
        /\ g.strayed = lost
    BY <1>1 DEF Gets
  <2>2. get' = [get EXCEPT ![r] = g]
    BY <1>4
  <2> HIDE DEF g, p, i, lost
  <2>3. get'[r] = g /\ get' \in [Readers -> Gets] /\ \A s \in Readers : s # r => get'[s] = get[s]
    BY <1>1, <2>1, <2>2
  <2>4. AreaFits(r)
    BY DEF ReaderInv
  <2>5. AreaFits(r)'
    BY <1>2, <1>3, <2>1, <2>3, <2>4 DEF AreaFits, Used, p, i
  <2>6. ReaderTypes'
    BY <1>2, <2>3 DEF ReaderInv, ReaderTypes
  <2> QED
    BY <1>2, <2>3, <2>5, <2>6, AreaMoved
<1>5. CASE /\ i <= Len(chunks) /\ (Strays(r) \/ get[r].area = 0 \/ p < Used(i))
           /\ SetArea(r, i, stays, lost)
  <2> DEFINE g == [get[r] EXCEPT !.area = i, !.gptr = stays, !.egptr = Used(i), !.strayed = lost]
  <2>1. chunks[i] \in Chunk /\ i \in 1..Len(chunks)
    BY <1>1, <1>5, LastChunk
  <2>2. g \in Gets /\ g.area = i /\ g.gptr = stays /\ g.egptr = Used(i) /\ g.strayed = lost /\ Used(i) \in Nat
    <3> HIDE DEF stays, lost
    <3> QED
      BY <1>1, <2>1 DEF Used, Chunk, Gets
  <2>3. get' = [get EXCEPT ![r] = g]
    BY <1>5 DEF SetArea
  <2> HIDE DEF g, stays, lost, p
  <2>4. get'[r] = g /\ get' \in [Readers -> Gets] /\ \A s \in Readers : s # r => get'[s] = get[s]
    BY <1>1, <2>2, <2>3
  <2>5. ~lost => chunks[i].start + stays = cursor[r]
    <3> SUFFICES ASSUME ~lost PROVE chunks[i].start + p = cursor[r]
      BY <1>3
    <3>1. CASE get[r].area = 0
      <4>1. i = 1 /\ p = 0 /\ cursor[r] = 0
        BY <3>1 DEF ReaderInv, AreaFits, p
      <4>2. chunks[1].start = 0
        BY <2>1, <4>1 DEF CacheInv, ReceivedIsStored
      <4> QED
        BY <4>1, <4>2
    <3>2. CASE get[r].area # 0
      BY <3>2, <1>3 DEF ReaderInv, AreaFits, p
    <3> QED
      BY <3>1, <3>2
  <2>6. stays <= Used(i)
    <3>1. CASE Strays(r)
      BY <3>1, <2>2 DEF stays, Below
    <3>2. CASE ~Strays(r) /\ get[r].area = 0
      BY <3>2, <2>2 DEF ReaderInv, AreaFits, p, stays
    <3>3. CASE ~Strays(r) /\ p < Used(i)
      BY <1>1, <2>2, <3>3 DEF stays
    <3> QED
      BY <1>5, <3>1, <3>2, <3>3
  <2>7. AreaFits(r)'
    BY <1>1, <1>2, <1>5, <2>2, <2>4, <2>5, <2>6 DEF AreaFits, Used
  <2>8. ReaderTypes'
    BY <1>2, <2>4 DEF ReaderInv, ReaderTypes
  <2> QED
    BY <1>2, <2>4, <2>7, <2>8, AreaMoved
<1>6. CASE /\ i < Len(chunks) /\ (Strays(r) \/ (get[r].area # 0 /\ p >= Used(i)))
           /\ get' = [get EXCEPT ![r] = [index |-> i + 1, start |-> @.start + Used(i), area |-> i + 1,
                                          gptr |-> 0, egptr |-> Used(i + 1), strayed |-> lost]]
  <2> DEFINE g == [index |-> i + 1, start |-> get[r].start + Used(i), area |-> i + 1,
                   gptr |-> 0, egptr |-> Used(i + 1), strayed |-> lost]
  <2>1. i \in 1..Len(chunks) /\ i + 1 \in 1..Len(chunks) /\ i + 1 # 1 /\ i + 1 - 1 = i
    BY <1>1, <1>6, LastChunk
  <2>2. Used(i) \in Nat /\ Used(i + 1) \in Nat
    BY <2>1, LastChunk DEF Used, Chunk
  <2>3. g \in Gets /\ g.area = i + 1 /\ g.gptr = 0 /\ g.egptr = Used(i + 1) /\ g.strayed = lost
    <3> HIDE DEF lost
    <3> QED
      BY <1>1, <2>2 DEF Gets
  <2>4. get' = [get EXCEPT ![r] = g]
    BY <1>6
  <2> HIDE DEF g, lost, p
  <2>5. get'[r] = g /\ get' \in [Readers -> Gets] /\ \A s \in Readers : s # r => get'[s] = get[s]
    BY <1>1, <2>3, <2>4
  <2>6. ~lost => p = Used(i) /\ chunks[i].start + p = cursor[r]
    <3>1. ~lost => ~Strays(r)
      BY DEF lost
    <3> QED
      BY <1>1, <1>3, <1>6, <2>2, <3>1 DEF ReaderInv, AreaFits, p
  <2>7. chunks[i + 1].start = chunks[i].start + Used(i)
    BY <2>1 DEF CacheInv, ReceivedIsStored
  <2>8. ~lost => chunks[i + 1].start + 0 = cursor[r]
    BY <2>1, <2>6, <2>7, LastChunk DEF Chunk
  <2>9. AreaFits(r)'
    BY <1>1, <1>2, <2>1, <2>2, <2>3, <2>5, <2>8 DEF AreaFits, Used
  <2>10. ReaderTypes'
    BY <1>2, <2>5 DEF ReaderInv, ReaderTypes
  <2> QED
    BY <1>2, <2>5, <2>9, <2>10, AreaMoved
<1>7. PICK left \in BytesLeft(r) :
       \/ get' = [get EXCEPT ![r].strayed = lost]
       \/ i <= Len(chunks) /\ left /\ SetArea(r, i, stays, lost)
       \/ /\ i < Len(chunks) /\ ~left
          /\ get' = [get EXCEPT ![r] = [index |-> i + 1, start |-> @.start + Used(i), area |-> i + 1,
                                         gptr |-> 0, egptr |-> Used(i + 1), strayed |-> lost]]
  BY Zenon DEF Take
<1>8. /\ left => Strays(r) \/ get[r].area = 0 \/ p < Used(i)
      /\ ~left => Strays(r) \/ (get[r].area # 0 /\ ~(p < Used(i)))
  BY <1>7 DEF BytesLeft
<1>9. i < Len(chunks) /\ ~(p < Used(i)) => p >= Used(i)
  BY <1>1, LastChunk DEF Used, Chunk
<1> QED
  BY <1>4, <1>5, <1>6, <1>7, <1>8, <1>9

\* seekpos() puts the area where the byte is.
LEMMA SeekKeeps ==
  ASSUME CacheInv, ReaderInv, NEW r \in Readers, SeekInChunks(r)
  PROVE  ReaderInv'
<1>1. get \in [Readers -> Gets] /\ cursor \in [Readers -> Nat] /\ goal[r] \in Nat
  BY DEF ReaderInv, ReaderTypes
<1>2. UNCHANGED <<chunks, goal, eof>> /\ op' \in [Readers -> {"idle", "data", "end", "take", "seek"}]
  BY DEF SeekInChunks, cacheVars, ReaderInv, ReaderTypes
<1>3. CASE UNCHANGED <<get, cursor>>
  <2>1. ReaderTypes'
    BY <1>1, <1>2, <1>3 DEF ReaderInv, ReaderTypes
  <2> QED
    BY <1>2, <1>3, <2>1, AreasSame
<1>4. ASSUME NEW i \in 1..Len(chunks), HoldsByte(i, goal[r]), SetArea(r, i, goal[r] - chunks[i].start, FALSE),
             cursor' = [cursor EXCEPT ![r] = goal[r]]
      PROVE  ReaderInv'
  <2> DEFINE p == goal[r] - chunks[i].start
             g == [get[r] EXCEPT !.area = i, !.gptr = p, !.egptr = Used(i), !.strayed = FALSE]
  <2>1. chunks[i].start \in Nat /\ Used(i) \in Nat /\ i \in Nat /\ i # 0 /\ i <= Len(chunks)
    BY LastChunk DEF Used, Chunk
  <2>2. p \in Nat /\ p <= Used(i) /\ chunks[i].start + p = goal[r]
    BY <1>1, <1>4, <2>1 DEF HoldsByte
  <2> HIDE DEF p
  <2>3. g \in Gets /\ g.area = i /\ g.gptr = p /\ g.egptr = Used(i)
    BY <1>1, <2>1, <2>2 DEF Gets
  <2>4. get' = [get EXCEPT ![r] = g]
    BY <1>4 DEF SetArea, p
  <2> HIDE DEF g
  <2>5. get'[r] = g /\ cursor'[r] = goal[r] /\ get' \in [Readers -> Gets] /\ cursor' \in [Readers -> Nat]
        /\ \A s \in Readers : s # r => get'[s] = get[s] /\ cursor'[s] = cursor[s]
    BY <1>1, <1>4, <2>3, <2>4
  <2>6. AreaFits(r)'
    BY <1>2, <2>1, <2>2, <2>3, <2>5 DEF AreaFits, Used
  <2>7. ReaderTypes'
    BY <1>2, <2>5 DEF ReaderInv, ReaderTypes
  <2> QED
    BY <1>2, <2>5, <2>6, <2>7, AreaMoved
<1> QED
  BY <1>3, <1>4 DEF SeekInChunks

(***************************************************************************)
(* The stream.                                                             *)
(***************************************************************************)
LEMMA SignalKeeps ==
  ASSUME SignalTypes, sendMainSignal \/ UNCHANGED at,
         frame' \in {"tick", "posted", "idle"}, handled' \in BOOLEAN
  PROVE  SignalTypes'
BY DEF SignalTypes, sendMainSignal

\* The threads that tick, sleep and wake up.
LEMMA FrameKeeps ==
  ASSUME StreamInv, FrameStep \/ VmIdles \/ \E r \in Readers : FallAsleep(r)
  PROVE  StreamInv' /\ UNCHANGED <<cacheVars, writing, readerVars>>
<1>1. UNCHANGED <<cacheVars, writing, readerVars>>
  BY DEF FrameStep, FramePosts, FrameSignals, FrameTests, FallAsleep, VmIdles
<1>2. SignalTypes'
  BY DEF StreamInv, SignalTypes, FrameStep, FramePosts, FrameSignals, FrameTests, FallAsleep, VmIdles,
         sendMainSignal, frameVars
<1>3. CacheInv' /\ Grows
  BY <1>1, CacheSame DEF StreamInv
<1>4. ReaderInv'
  BY <1>1, <1>3, AreaSurvives DEF StreamInv
<1> QED
  BY <1>1, <1>2, <1>3, <1>4 DEF StreamInv

\* The steps of the writer, and of a thread that ends the stream.
LEMMA WriterKeeps ==
  ASSUME StreamInv,
         \/ \E n \in Nat : BeginAppend(n)
         \/ AppendGoesOn
         \/ \E n \in Nat : Reserve(n) /\ UNCHANGED writing
         \/ \E f \in BOOLEAN : MarkFinished(f) /\ UNCHANGED writing
  PROVE  StreamInv'
<1>0. CacheInv /\ ReaderInv /\ SignalTypes
  BY DEF StreamInv
<1>1. CASE \E n \in Nat : BeginAppend(n)
  <2>1. CacheInv'
    BY <1>0, <1>1, BeginKeeps
  <2>2. UNCHANGED <<readerVars, at, frameVars, chunks>>
    BY <1>1 DEF BeginAppend, cacheVars
  <2>3. Grows
    BY <1>0, <2>2, LastChunk DEF Grows, Chunk
  <2> QED
    BY <1>0, <2>1, <2>2, <2>3, AreaSurvives DEF StreamInv, SignalTypes, frameVars
<1>2. CASE handleAppend
  <2>1. CacheInv' /\ Grows
    BY <1>0, <1>2, StoreKeeps
  <2>2. UNCHANGED <<readerVars, at, frameVars>>
    BY <1>2 DEF handleAppend
  <2> QED
    BY <1>0, <2>1, <2>2, AreaSurvives DEF StreamInv, SignalTypes, frameVars
<1>3. CASE CountAppend \/ SignalAppend
  <2>1. CacheInv'
    BY <1>0, <1>3, CountKeeps
  <2>2. UNCHANGED <<readerVars, chunks>>
    BY <1>3 DEF CountAppend, SignalAppend, cacheVars
  <2>3. Grows
    BY <1>0, <2>2, LastChunk DEF Grows, Chunk
  <2>4. SignalTypes'
    BY <1>0, <1>3 DEF CountAppend, SignalAppend, SignalTypes, sendMainSignal, frameVars
  <2> QED
    BY <1>0, <2>1, <2>2, <2>3, <2>4, AreaSurvives DEF StreamInv
<1>4. CASE \E n \in Nat : Reserve(n) /\ UNCHANGED writing
  <2>1. CacheInv'
    BY <1>0, <1>4, ReserveKeeps
  <2>2. UNCHANGED <<readerVars, at, frameVars, chunks>>
    BY <1>4 DEF Reserve
  <2>3. Grows
    BY <1>0, <2>2, LastChunk DEF Grows, Chunk
  <2> QED
    BY <1>0, <2>1, <2>2, <2>3, AreaSurvives DEF StreamInv, SignalTypes, frameVars
<1>5. CASE \E f \in BOOLEAN : MarkFinished(f) /\ UNCHANGED writing
  <2>1. CacheInv'
    BY <1>0, <1>5, FinishKeeps
  <2>2. UNCHANGED <<readerVars, chunks>>
    BY <1>5 DEF MarkFinished
  <2>3. Grows
    BY <1>0, <2>2, LastChunk DEF Grows, Chunk
  <2>4. SignalTypes'
    BY <1>0, <1>5 DEF MarkFinished, SignalTypes, sendMainSignal, frameVars
  <2> QED
    BY <1>0, <2>1, <2>2, <2>3, <2>4, AreaSurvives DEF StreamInv
<1> QED
  BY <1>1, <1>2, <1>3, <1>4, <1>5 DEF AppendGoesOn

\* The steps of a reader.
LEMMA ReaderKeeps ==
  ASSUME StreamInv, NEW r \in Readers, ReadStep(r) \/ SeekStep(r)
  PROVE  StreamInv'
<1>0. CacheInv /\ ReaderInv /\ SignalTypes
  BY DEF StreamInv
<1>1. CASE FallAsleep(r)
  BY <1>1, FrameKeeps
<1>2. CASE Consume(r) \/ Take(r) \/ SeekInChunks(r)
  <2>1. ReaderInv'
    BY <1>0, <1>2, ConsumeKeeps, TakeKeeps, SeekKeeps
  <2>2. UNCHANGED <<cacheVars, writing, at, frameVars>>
    BY <1>2 DEF Consume, Take, SeekInChunks
  <2> QED
    BY <1>0, <2>1, <2>2, CacheSame DEF StreamInv, SignalTypes, frameVars
<1>3. CASE Underflow(r) \/ TestArrived(r) \/ \E p \in 0..MaxLength : Seek(r, p)
  <2>1. UNCHANGED <<cacheVars, writing, frameVars, get, cursor, eof>>
    BY <1>3 DEF Underflow, TestArrived, Seek
  <2>2. op' \in [Readers -> {"idle", "data", "end", "take", "seek"}]
    BY <1>0, <1>3 DEF ReaderInv, ReaderTypes, Underflow, TestArrived, Seek
  <2>3. goal' \in [Readers -> Nat]
    <3>1. get[r].start \in Nat /\ get[r].egptr \in Nat
      BY <1>0 DEF ReaderInv, ReaderTypes, Gets
    <3>2. CASE Underflow(r)
      <4>1. GetOffset(r) \in Nat
        BY <3>1, <3>2 DEF Underflow, GetOffset
      <4> QED
        BY <1>0, <3>2, <4>1 DEF ReaderInv, ReaderTypes, Underflow
    <3>3. CASE TestArrived(r) \/ \E p \in 0..MaxLength : Seek(r, p)
      BY <1>0, <3>3, StreamAssumption DEF ReaderInv, ReaderTypes, TestArrived, Seek
    <3> QED
      BY <1>3, <3>2, <3>3
  <2>4. ReaderInv'
    BY <1>0, <2>1, <2>2, <2>3, AreasSame DEF ReaderInv, ReaderTypes, cacheVars
  <2>5. SignalTypes'
    BY <1>0, <1>3, <2>1 DEF SignalTypes, Underflow, TestArrived, Seek, frameVars
  <2> QED
    BY <1>0, <2>1, <2>4, <2>5, CacheSame DEF StreamInv
<1> QED
  BY <1>1, <1>2, <1>3 DEF ReadStep, SeekStep

LEMMA StreamInitOK ==
  ASSUME StreamInit
  PROVE  StreamInv
<1>1. WriterTypes
  <2>1. chunks = <<>> /\ <<>> \in Seq(Chunk)
    BY DEF StreamInit
  <2>2. writing = [pc |-> "idle", length |-> 0]
    BY DEF StreamInit, NotWriting
  <2>3. writing \in [pc : {"idle", "store", "count", "signal"}, length : Nat]
    BY <2>2
  <2> QED
    BY <2>1, <2>3 DEF StreamInit, WriterTypes
<1>2. ReceivedIsStored
  BY DEF StreamInit, ReceivedIsStored, Stored, NotWriting
<1>3. ReaderTypes
  BY DEF StreamInit, ReaderTypes, Gets
<1>4. \A r \in Readers : AreaFits(r)
  BY DEF StreamInit, AreaFits
<1>5. SignalTypes
  BY DEF StreamInit, SignalTypes
<1> QED
  BY <1>1, <1>2, <1>3, <1>4, <1>5 DEF StreamInv, CacheInv, ReaderInv

LEMMA StreamStep ==
  ASSUME StreamInv, [StreamNext]_streamVars
  PROVE  StreamInv'
<1>1. CASE WriterStep
  <2>1. Blocks \subseteq Nat /\ 1..MaxLength \subseteq Nat
    BY StreamAssumption
  <2> QED
    BY <1>1, <2>1, WriterKeeps DEF WriterStep
<1>2. CASE OtherStops
  BY <1>2, WriterKeeps DEF OtherStops
<1>3. CASE FrameStep \/ VmIdles
  BY <1>3, FrameKeeps
<1>4. CASE \E r \in Readers : ReadStep(r) \/ SeekStep(r)
  BY <1>4, ReaderKeeps
<1>5. CASE UNCHANGED streamVars
  <2>1. UNCHANGED <<cacheVars, writing, readerVars, at, frameVars>>
    BY <1>5 DEF streamVars
  <2>2. CacheInv' /\ Grows
    BY <2>1, CacheSame DEF StreamInv
  <2> QED
    BY <2>1, <2>2, AreaSurvives DEF StreamInv, SignalTypes, frameVars
<1> QED
  BY <1>1, <1>2, <1>3, <1>4, <1>5 DEF StreamNext

LEMMA StreamInvHolds == StreamSpec => []StreamInv
<1>1. StreamInit => StreamInv
  BY StreamInitOK
<1>2. StreamInv /\ [StreamNext]_streamVars => StreamInv'
  BY StreamStep
<1> QED
  BY <1>1, <1>2, PTL DEF StreamSpec

(***************************************************************************)
(* The results.                                                            *)
(***************************************************************************)
\* The variables keep their types.
THEOREM StreamTypes == StreamSpec => []StreamTypeOK
<1>1. StreamInv => StreamTypeOK
  BY DEF StreamInv, CacheInv, ReaderInv, WriterTypes, ReaderTypes, Gets, SignalTypes, Chunk, StreamTypeOK
<1> QED
  BY <1>1, StreamInvHolds, PTL

\* append() puts every block behind the one before, whatever the sizes of the
\* blocks and of the chunks, and counts it only when it is stored.
THEOREM WhatIsReceivedIsStored == StreamSpec => []ReceivedIsStored
<1>1. StreamInv => ReceivedIsStored
  BY DEF StreamInv, CacheInv
<1> QED
  BY <1>1, StreamInvHolds, PTL

\* underflow() and seekpos() give each reader the bytes of the stream in
\* their order and each once, while chunks grow and are added, wherever it
\* seeks: until an underflow that follows a seek into another chunk, which goes
\* on from the old chunkIndex; the next seek puts the reader right again.
THEOREM ReadersReadInOrder == StreamSpec => []ReadsInOrder
<1>1. StreamInv => ReadsInOrder
  BY DEF StreamInv, ReaderInv, AreaFits, ReadsInOrder
<1> QED
  BY <1>1, StreamInvHolds, PTL

-----------------------------------------------------------------------------
(***************************************************************************)
(* The load: the inductive invariant of Downloads.                         *)
(***************************************************************************)
\* Where the load is: before it has a downloader, while it has one, and
\* from where it gives the downloader up.
Before   == {"event", "pooled", "check", "list"}
Creating == {"submit", "assign"}
Copying  == {"allocate", "read", "convert", "success"}
Holding  == {"open", "wait", "send", "destroy"} \union Copying
Giving   == {"remove", "fencing"}
Ending   == {"take", "finish", "done"}

Unserved == {"none", "queued", "taken", "headers", "dropped"}
Serving  == {"data", "append", "length", "fence"}

PcTypes ==
    pc \in [load     : Before \union Creating \union Holding \union Giving \union Ending,
            download : Unserved \union Serving \union {"fenced"},
            close    : {"idle", "lock", "mark", "length", "flag", "done"},
            destroy  : {"idle", "mark1", "length1", "stop", "sweep", "mark3", "length3", "wait",
                        "abort", "lock", "mark2", "length2", "flag2", "join", "done"}]

LoadTypes ==
    /\ length \in Nat /\ buffer \in [allocated : Nat, read : Nat, given : Nat]
    /\ downloaderLock \in {Free, "load", "close", "destroy"}
    /\ downloader \in BOOLEAN /\ threadAborting \in BOOLEAN /\ downloaders \in BOOLEAN
    /\ fenceState \in BOOLEAN /\ deleted \in BOOLEAN /\ stopFlag \in BOOLEAN
    /\ posted \in {"none", "complete", "ioError"}

\* Who holds the lock of the downloader.
Locking ==
    /\ downloaderLock = "load" => pc["load"] \in Giving
    /\ pc["close"] \in {"mark", "length", "flag"} => downloaderLock = "close"
    /\ pc["destroy"] \in {"mark2", "length2", "flag2"} => downloaderLock = "destroy"

\* What a load at l has: the downloader it may use, its place in the list,
\* its job, and whether it was deleted.
HasDownloader ==
    LET l == pc["load"] IN
    /\ l \in Before => ~downloader /\ ~downloaders /\ ~deleted /\ pc["download"] = "none"
    /\ l = "submit" => ~downloader /\ ~deleted /\ pc["download"] = "none" /\ fenceState
    /\ l = "assign" => ~downloader /\ ~deleted /\ pc["download"] # "none"
    /\ l \in Holding => downloader /\ ~deleted /\ pc["download"] # "none"
    /\ l \in Giving => ~deleted /\ pc["download"] # "none" /\ (downloader <=> downloaderLock = "load")
    /\ l = "fencing" => ~downloaders
    /\ l = "take" => IF downloader THEN ~deleted /\ pc["download"] # "none" ELSE ~downloaders
    /\ l \in {"finish", "done"} => ~downloader /\ ~downloaders
    /\ l \notin Ending => ~deleted

\* Who may still use the downloader: its job until its fence, stopAll()
\* while it is listed, the sweep while its job runs, and who aborts the load
\* while it is assigned.
Using ==
    /\ pc["download"] \in {"queued", "taken", "headers", "dropped"} \union Serving => fenceState
    /\ deleted => pc["download"] = "fenced" /\ ~downloader /\ ~downloaders
    /\ pc["destroy"] \in {"mark1", "length1"} => downloaders
    /\ pc["destroy"] \in {"mark3", "length3"} => Executing
    /\ pc["close"] \in {"mark", "length"} => downloader
    /\ pc["destroy"] \in {"mark2", "length2"} => downloader

LifeInv == Locking /\ HasDownloader /\ Using

\* The load waits on its stream.
Waiting ==
    /\ IF pc["load"] = "wait" THEN op[Loader] \in {"end", "seek"} ELSE op[Loader] = "idle"
    /\ op[Loader] = "seek" => terminated

\* The data of the download, and who settles its length when.
Transfer ==
    /\ pc["download"] \in Unserved => chunks = <<>>
    /\ writing.pc # "idle" => pc["download"] = "append"
    /\ pc["download"] = "data" /\ ~terminated => length >= Stored
    /\ pc["download"] = "length" => terminated
    /\ pc["close"] = "length" => terminated
    /\ pc["destroy"] \in {"length1", "length2", "length3"} => terminated
    /\ ~terminated => ~failed

\* A download that has ended well stays as it is.
Ended == terminated /\ ~failed
EndedWell ==
    Ended => pc["download"] \in {"length", "fence", "fenced"} /\ length >= Stored

\* What the load has copied of it.
Copied ==
    /\ pc["load"] \in Copying => Ended
    /\ pc["load"] \in {"convert", "success"} => buffer.read = Stored
    /\ pc["load"] = "success" => buffer.given >= Stored
    /\ posted = "complete" => /\ Ended /\ buffer.read = Stored /\ buffer.given >= Stored
                              /\ pc["load"] \in {"destroy"} \union Giving \union Ending

\* What was allocated is enough for what is read and given.
Allocated ==
    /\ pc["load"] \in {"read", "convert", "success"} => buffer.allocated >= length
    /\ pc["load"] \in Before \union Creating \union {"open", "wait", "allocate", "read"} => buffer.read = 0
    /\ pc["load"] \in Before \union Creating \union {"open", "wait", "allocate", "read", "convert"} => buffer.given = 0
    /\ buffer.read <= buffer.allocated /\ buffer.given <= buffer.allocated

DataInv == Waiting /\ Transfer /\ EndedWell /\ Copied /\ Allocated

DownloadInv == StreamInv /\ PcTypes /\ LoadTypes /\ LifeInv /\ DataInv

(***************************************************************************)
(* The steps.                                                              *)
(***************************************************************************)
\* The threads go where the code says and nowhere else.
LEMMA PcKept ==
  ASSUME PcTypes, Next
  PROVE  PcTypes'
<1> USE DEF PcTypes, Go, At, Before, Creating, Copying, Holding, Giving, Ending, Unserved, Serving
<1>1. CASE StartJob
  BY <1>1 DEF StartJob
<1>2. CASE LoadStep
  <2>1. CASE Run \/ CheckAborting \/ AddDownloader \/ AddDownloadJob \/ Assign
    BY <2>1 DEF Run, CheckAborting, AddDownloader, AddDownloadJob, Assign
  <2>2. CASE WaitForTermination \/ Wait \/ Terminated
    BY <2>2 DEF WaitForTermination, Wait, Terminated
  <2>3. CASE Allocate \/ Read \/ Convert \/ AllocateFails \/ SendOutcome
    BY <2>3 DEF Allocate, Read, Convert, Fill, AllocateFails, SendOutcome
  <2>4. CASE LockDownloader \/ RemoveDownloader \/ DeleteDownloader \/ TakeDownloader \/ ThreadFinished
    BY <2>4 DEF LockDownloader, RemoveDownloader, DeleteDownloader, TakeDownloader, ThreadFinished
  <2> QED
    BY <1>2, <2>1, <2>2, <2>3, <2>4 DEF LoadStep
<1>3. CASE DownloadStep
  <2>1. CASE TakeDownload \/ TestStopFlag \/ AppendMore \/ Grow \/ SettleLength \/ jobFence
    BY <2>1 DEF TakeDownload, TestStopFlag, AppendMore, Grow, SettleLength, SetLength, jobFence
  <2>2. CASE \/ \E a \in Announced : ReadHeaders(a)
             \/ \E n \in Blocks : AppendData(n)
             \/ \E f \in BOOLEAN : EndDownload(f)
    BY <2>2 DEF ReadHeaders, AppendData, EndDownload
  <2> QED
    BY <1>3, <2>1, <2>2 DEF DownloadStep
<1>4. CASE Close \/ CloseGoesOn
  <2>1. CASE Close
    BY <2>1 DEF Close
  <2>2. CASE LockToAbort("close", "mark", "flag") \/ StopMark("close", "mark", "length")
    BY <2>2 DEF LockToAbort, StopMark
  <2>3. CASE At("close", "length") /\ SetLength("close", "flag")
    BY <2>3 DEF SetLength
  <2>4. CASE SetAborting("close", "flag", "done")
    BY <2>4 DEF SetAborting
  <2> QED
    BY <1>4, <2>1, <2>2, <2>3, <2>4 DEF CloseGoesOn
<1>5. CASE StopAll \/ DestroyGoesOn
  <2>1. CASE \/ StopAll \/ StopDownloads \/ SweepDownloads \/ JoinDownloads \/ AbortLoad \/ JoinLoad
    BY <2>1 DEF StopAll, StopDownloads, SweepDownloads, JoinDownloads, AbortLoad, JoinLoad
  <2>2. CASE StopMark("destroy", "mark1", "length1") \/ StopMark("destroy", "mark3", "length3")
    <3>1. CASE StopMark("destroy", "mark1", "length1")
      BY <3>1 DEF StopMark
    <3>2. CASE StopMark("destroy", "mark3", "length3")
      BY <3>2 DEF StopMark
    <3> QED
      BY <2>2, <3>1, <3>2
  <2>3. CASE \/ At("destroy", "length1") /\ SetLength("destroy", "stop")
             \/ At("destroy", "length3") /\ SetLength("destroy", "wait")
    BY <2>3 DEF SetLength
  <2>4. CASE LockToAbort("destroy", "mark2", "flag2")
    BY <2>4 DEF LockToAbort
  <2>5. CASE StopMark("destroy", "mark2", "length2")
    BY <2>5 DEF StopMark
  <2>6. CASE At("destroy", "length2") /\ SetLength("destroy", "flag2")
    BY <2>6 DEF SetLength
  <2>7. CASE SetAborting("destroy", "flag2", "join")
    BY <2>7 DEF SetAborting
  <2> QED
    BY <1>5, <2>1, <2>2, <2>3, <2>4, <2>5, <2>6, <2>7 DEF DestroyGoesOn
<1>6. CASE FrameGoesOn \/ Idles
  BY <1>6 DEF FrameGoesOn, Idles
<1> QED
  BY <1>1, <1>2, <1>3, <1>4, <1>5, <1>6 DEF Next

\* The stream is used as StreamCache provides.
LEMMA StreamKept ==
  ASSUME StreamInv, Next
  PROVE  StreamInv'
<1>1. CASE Stays
  BY <1>1, StreamStep DEF Stays
<1>2. CASE \/ \E n \in Nat : BeginAppend(n)
           \/ AppendGoesOn
           \/ \E n \in Nat : Reserve(n) /\ UNCHANGED writing
           \/ \E f \in BOOLEAN : MarkFinished(f) /\ UNCHANGED writing
  BY <1>2, WriterKeeps
<1>3. CASE TestArrived(Loader) \/ FallAsleep(Loader)
  <2>1. Loader \in Readers /\ ReadStep(Loader)
    BY <1>3, DownloadAssumption DEF ReadStep
  <2> QED
    BY <2>1, ReaderKeeps
<1>4. CASE FrameStep \/ VmIdles
  BY <1>4, FrameKeeps
<1>5. ASSUME NEW o \in {"end", "idle"}, op' = [op EXCEPT ![Loader] = o],
             UNCHANGED <<cacheVars, writing, goal, get, cursor, eof, at, frameVars>>
      PROVE  StreamInv'
  <2>1. CacheInv'
    BY <1>5, CacheSame DEF StreamInv
  <2>2. ReaderTypes'
    BY <1>5 DEF StreamInv, ReaderInv, ReaderTypes
  <2>3. ReaderInv'
    BY <1>5, <2>2, AreasSame DEF StreamInv, cacheVars
  <2>4. SignalTypes'
    BY <1>5 DEF StreamInv, SignalTypes, frameVars
  <2> QED
    BY <2>1, <2>3, <2>4 DEF StreamInv
<1>6. CASE StartJob \/ LoadStep
  <2>1. CASE StartJob \/ Run \/ CheckAborting \/ AddDownloader \/ AddDownloadJob \/ Assign
    BY <1>1, <2>1 DEF StartJob, Run, CheckAborting, AddDownloader, AddDownloadJob, Assign
  <2>2. CASE Allocate \/ Read \/ Convert \/ AllocateFails \/ SendOutcome
    BY <1>1, <2>2 DEF Allocate, Read, Convert, Fill, AllocateFails, SendOutcome
  <2>3. CASE LockDownloader \/ RemoveDownloader \/ DeleteDownloader \/ TakeDownloader \/ ThreadFinished
    BY <1>1, <2>3 DEF LockDownloader, RemoveDownloader, DeleteDownloader, TakeDownloader, ThreadFinished
  <2>4. CASE WaitForTermination \/ Terminated
    BY <1>1, <1>5, <2>4 DEF WaitForTermination, Terminated
  <2>5. CASE Wait
    BY <1>3, <2>5 DEF Wait
  <2> QED
    BY <1>6, <2>1, <2>2, <2>3, <2>4, <2>5 DEF LoadStep
<1>7. CASE DownloadStep
  <2>1. CASE TakeDownload \/ TestStopFlag \/ Grow \/ SettleLength \/ jobFence
    BY <1>1, <2>1 DEF TakeDownload, TestStopFlag, Grow, SettleLength, SetLength, jobFence
  <2>2. Announced \subseteq Nat /\ Blocks \subseteq Nat
    BY DownloadAssumption, StreamAssumption
  <2>3. CASE \E a \in Announced : ReadHeaders(a)
    BY <1>1, <1>2, <2>2, <2>3 DEF ReadHeaders
  <2>4. CASE \E n \in Blocks : AppendData(n)
    BY <1>2, <2>2, <2>4 DEF AppendData
  <2>5. CASE AppendMore \/ \E f \in BOOLEAN : EndDownload(f)
    BY <1>2, <2>5 DEF AppendMore, EndDownload
  <2> QED
    BY <1>7, <2>1, <2>3, <2>4, <2>5 DEF DownloadStep
<1>8. ASSUME NEW t, NEW mark, NEW flag, LockToAbort(t, mark, flag) \/ SetAborting(t, mark, flag) \/ SetLength(t, mark)
      PROVE  StreamInv'
  BY <1>1, <1>8 DEF LockToAbort, SetAborting, SetLength
<1>9. ASSUME NEW t, NEW mark, NEW next, StopMark(t, mark, next)
      PROVE  StreamInv'
  BY <1>2, <1>9 DEF StopMark
<1>10. CASE Close \/ CloseGoesOn
  <2>1. CASE Close
    BY <1>1, <2>1 DEF Close
  <2> QED
    BY <1>8, <1>9, <1>10, <2>1 DEF CloseGoesOn
<1>11. CASE StopAll \/ DestroyGoesOn
  <2>1. CASE StopAll \/ StopDownloads \/ SweepDownloads \/ JoinDownloads \/ AbortLoad \/ JoinLoad
    BY <1>1, <2>1 DEF StopAll, StopDownloads, SweepDownloads, JoinDownloads, AbortLoad, JoinLoad
  <2> QED
    BY <1>8, <1>9, <1>11, <2>1 DEF DestroyGoesOn
<1>12. CASE FrameGoesOn \/ Idles
  BY <1>4, <1>12 DEF FrameGoesOn, Idles, FrameStep
<1> QED
  BY <1>6, <1>7, <1>10, <1>11, <1>12 DEF Next

LEMMA TypesKept ==
  ASSUME StreamInv, PcTypes, LoadTypes, Next
  PROVE  LoadTypes'
<1> USE DEF LoadTypes, loadVars, Still
<1>0. receivedLength \in Nat /\ Stored \in Nat
  BY LastChunk DEF StreamInv, CacheInv, WriterTypes
<1>1. CASE UNCHANGED loadVars
  BY <1>1
<1>2. ASSUME NEW f, NEW v \in Nat, buffer' = [buffer EXCEPT ![f] = v], UNCHANGED length
      PROVE  length' \in Nat /\ buffer' \in [allocated : Nat, read : Nat, given : Nat]
  BY <1>2
<1>3. CASE StartJob \/ LoadStep
  <2>1. CASE StartJob \/ Run \/ CheckAborting \/ WaitForTermination \/ Wait \/ Terminated \/ AllocateFails \/ ThreadFinished
    BY <1>1, <2>1 DEF StartJob, Run, CheckAborting, WaitForTermination, Wait, Terminated, AllocateFails, ThreadFinished
  <2>2. CASE AddDownloader \/ AddDownloadJob \/ Assign
    BY <2>2 DEF AddDownloader, AddDownloadJob, Assign
  <2>3. CASE Allocate \/ Read \/ Convert
    BY <1>0, <1>2, <2>3 DEF Allocate, Read, Convert, Fill
  <2>4. CASE LockDownloader \/ RemoveDownloader \/ TakeDownloader
    BY <2>4 DEF LockDownloader, RemoveDownloader, TakeDownloader
  <2>5. CASE DeleteDownloader
    BY <2>5 DEF DeleteDownloader, Free
  <2>6. CASE SendOutcome
    BY <2>6 DEF SendOutcome
  <2> QED
    BY <1>3, <2>1, <2>2, <2>3, <2>4, <2>5, <2>6 DEF LoadStep
<1>4. CASE DownloadStep
  <2>1. CASE TakeDownload \/ TestStopFlag \/ AppendMore \/ jobFence
    BY <1>1, <2>1 DEF TakeDownload, TestStopFlag, AppendMore, jobFence
  <2>2. CASE Grow \/ SettleLength
    BY <1>0, <2>2 DEF Grow, Grown, SettleLength, SetLength
  <2>3. Announced \subseteq Nat
    BY DownloadAssumption
  <2>4. CASE \/ \E a \in Announced : ReadHeaders(a)
             \/ \E n \in Blocks : AppendData(n)
             \/ \E f \in BOOLEAN : EndDownload(f)
    BY <1>1, <2>3, <2>4 DEF ReadHeaders, AppendData, EndDownload
  <2> QED
    BY <1>4, <2>1, <2>2, <2>4 DEF DownloadStep
<1>5. ASSUME NEW t \in {"close", "destroy"}, NEW mark, NEW flag,
             LockToAbort(t, mark, flag) \/ SetAborting(t, mark, flag) \/ SetLength(t, mark) \/ StopMark(t, mark, flag)
      PROVE  LoadTypes'
  <2>1. CASE LockToAbort(t, mark, flag) \/ SetAborting(t, mark, flag)
    BY <2>1 DEF LockToAbort, SetAborting, Free
  <2>2. CASE SetLength(t, mark)
    BY <1>0, <2>2 DEF SetLength
  <2>3. CASE StopMark(t, mark, flag)
    BY <1>1, <2>3 DEF StopMark
  <2> QED
    BY <1>5, <2>1, <2>2, <2>3
<1>6. CASE Close \/ CloseGoesOn
  BY <1>1, <1>5, <1>6 DEF Close, CloseGoesOn
<1>7. CASE StopAll \/ DestroyGoesOn
  <2>1. CASE StopAll \/ JoinDownloads \/ JoinLoad
    BY <1>1, <2>1 DEF StopAll, JoinDownloads, JoinLoad
  <2>2. CASE StopDownloads \/ SweepDownloads \/ AbortLoad
    BY <2>2 DEF StopDownloads, SweepDownloads, AbortLoad
  <2> QED
    BY <1>5, <1>7, <2>1, <2>2 DEF DestroyGoesOn
<1>8. CASE FrameGoesOn \/ Idles
  BY <1>1, <1>8 DEF FrameGoesOn, Idles
<1> QED
  BY <1>3, <1>4, <1>6, <1>7, <1>8 DEF Next

\* The downloader of the load.
LEMMA LifeKept ==
  ASSUME PcTypes, LoadTypes, LifeInv, Next
  PROVE  LifeInv'
<1> USE DEF LifeInv, Locking, HasDownloader, Using, Executing, Free
<1> USE DEF PcTypes, Go, At, Before, Creating, Copying, Holding, Giving, Ending, Unserved, Serving
<1> USE DEF loadVars, Still
<1>0. /\ downloaderLock \in {Free, "load", "close", "destroy"}
      /\ downloader \in BOOLEAN /\ downloaders \in BOOLEAN /\ fenceState \in BOOLEAN /\ deleted \in BOOLEAN
  BY DEF LoadTypes
<1>1. CASE StartJob
  BY <1>1 DEF StartJob
<1>2. CASE LoadStep
  <2>1. CASE Run
    BY <2>1 DEF Run
  <2>2. CASE CheckAborting
    BY <2>2 DEF CheckAborting
  <2>3. CASE AddDownloader
    BY <2>3 DEF AddDownloader, ListFree
  <2>4. CASE AddDownloadJob
    <3>1. CASE stopFlag
      BY <2>4, <3>1 DEF AddDownloadJob
    <3>2. CASE ~stopFlag
      BY <2>4, <3>2 DEF AddDownloadJob
    <3> QED
      BY <3>1, <3>2
  <2>5. CASE Assign
    BY <2>5 DEF Assign
  <2>6. CASE WaitForTermination
    BY <2>6 DEF WaitForTermination
  <2>7. CASE Wait
    BY <2>7 DEF Wait
  <2>8. CASE Terminated
    BY <2>8 DEF Terminated
  <2>9. CASE Allocate
    BY <2>9 DEF Allocate, Fill
  <2>10. CASE Read
    BY <2>10 DEF Read, Fill
  <2>11. CASE Convert
    BY <2>11 DEF Convert, Fill
  <2>12. CASE AllocateFails
    BY <2>12 DEF AllocateFails
  <2>13. CASE SendOutcome
    BY <2>13 DEF SendOutcome
  <2>14. CASE LockDownloader
    BY <2>14 DEF LockDownloader
  <2>15. CASE RemoveDownloader
    BY <2>15 DEF RemoveDownloader, ListFree
  <2>16. CASE DeleteDownloader
    BY <2>16 DEF DeleteDownloader, Fenced
  <2>17. CASE TakeDownloader
    BY <2>17 DEF TakeDownloader
  <2>18. CASE ThreadFinished
    BY <2>18 DEF ThreadFinished
  <2> QED
    BY <1>2, <2>1, <2>2, <2>3, <2>4, <2>5, <2>6, <2>7, <2>8, <2>9, <2>10, <2>11, <2>12, <2>13, <2>14, <2>15, <2>16, <2>17, <2>18 DEF LoadStep
<1>3. CASE DownloadStep
  <2>1. CASE TakeDownload
    BY <2>1 DEF TakeDownload
  <2>2. CASE TestStopFlag
    BY <2>2 DEF TestStopFlag
  <2>3. CASE AppendMore
    BY <2>3 DEF AppendMore
  <2>4. CASE Grow
    BY <2>4 DEF Grow, Grown
  <2>5. CASE SettleLength
    BY <2>5 DEF SettleLength, SetLength
  <2>6. CASE jobFence
    BY <2>6 DEF jobFence
  <2>7. CASE \E a \in Announced : ReadHeaders(a)
    BY <2>7 DEF ReadHeaders
  <2>8. CASE \E n \in Blocks : AppendData(n)
    BY <2>8 DEF AppendData
  <2>9. CASE \E f \in BOOLEAN : EndDownload(f)
    BY <2>9 DEF EndDownload
  <2> QED
    BY <1>3, <2>1, <2>2, <2>3, <2>4, <2>5, <2>6, <2>7, <2>8, <2>9 DEF DownloadStep
<1>4. CASE Close \/ CloseGoesOn
  <2>1. CASE Close
    BY <2>1 DEF Close
  <2>2. CASE LockToAbort("close", "mark", "flag")
    BY <2>2 DEF LockToAbort
  <2>3. CASE StopMark("close", "mark", "length")
    BY <2>3 DEF StopMark
  <2>4. CASE At("close", "length") /\ SetLength("close", "flag")
    BY <2>4 DEF SetLength
  <2>5. CASE SetAborting("close", "flag", "done")
    BY <2>5 DEF SetAborting
  <2> QED
    BY <1>4, <2>1, <2>2, <2>3, <2>4, <2>5 DEF CloseGoesOn
<1>5. CASE StopAll \/ DestroyGoesOn
  <2>1. CASE StopAll
    BY <2>1 DEF StopAll, ListFree
  <2>2. CASE StopMark("destroy", "mark1", "length1")
    BY <2>2 DEF StopMark
  <2>3. CASE At("destroy", "length1") /\ SetLength("destroy", "stop")
    BY <2>3 DEF SetLength
  <2>4. CASE StopDownloads
    BY <2>4 DEF StopDownloads
  <2>5. CASE SweepDownloads
    BY <2>5 DEF SweepDownloads
  <2>6. CASE StopMark("destroy", "mark3", "length3")
    BY <2>6 DEF StopMark
  <2>7. CASE At("destroy", "length3") /\ SetLength("destroy", "wait")
    BY <2>7 DEF SetLength
  <2>8. CASE JoinDownloads
    BY <2>8 DEF JoinDownloads
  <2>9. CASE AbortLoad
    BY <2>9 DEF AbortLoad, InExecute
  <2>10. CASE LockToAbort("destroy", "mark2", "flag2")
    BY <2>10 DEF LockToAbort
  <2>11. CASE StopMark("destroy", "mark2", "length2")
    BY <2>11 DEF StopMark
  <2>12. CASE At("destroy", "length2") /\ SetLength("destroy", "flag2")
    BY <2>12 DEF SetLength
  <2>13. CASE SetAborting("destroy", "flag2", "join")
    BY <2>13 DEF SetAborting
  <2>14. CASE JoinLoad
    BY <2>14 DEF JoinLoad
  <2> QED
    BY <1>5, <2>1, <2>2, <2>3, <2>4, <2>5, <2>6, <2>7, <2>8, <2>9, <2>10, <2>11, <2>12, <2>13, <2>14 DEF DestroyGoesOn
<1>6. CASE FrameGoesOn \/ Idles
  BY <1>6 DEF FrameGoesOn, Idles
<1> QED
  BY <1>1, <1>2, <1>3, <1>4, <1>5, <1>6 DEF Next

\* The data of the download and of the load.
LEMMA DataKept ==
  ASSUME StreamInv, PcTypes, LoadTypes, LifeInv, DataInv, Next
  PROVE  DataInv'
<1> USE DEF DataInv, Waiting, Transfer, EndedWell, Copied, Allocated, Ended
<1> USE DEF PcTypes, Go, At, Before, Creating, Copying, Holding, Giving, Ending, Unserved, Serving
<1> USE DEF loadVars, Still
<1>t. /\ receivedLength \in Nat /\ Stored \in Nat /\ length \in Nat
      /\ buffer \in [allocated : Nat, read : Nat, given : Nat]
      /\ failed \in BOOLEAN /\ terminated \in BOOLEAN
      /\ op \in [Readers -> {"idle", "data", "end", "take", "seek"}] /\ Loader \in Readers
  BY LastChunk, DownloadAssumption DEF StreamInv, CacheInv, WriterTypes, ReaderInv, ReaderTypes, LoadTypes
<1>r. writing.pc = "idle" => receivedLength = Stored
  BY <1>t DEF StreamInv, CacheInv, ReceivedIsStored
<1>z. chunks = <<>> => Stored = 0
  BY DEF Stored
<1>s. chunks' = chunks => Stored' = Stored
  BY DEF Stored, Used
<1>u. ASSUME Stays
      PROVE  UNCHANGED <<receivedLength, failed, terminated, chunks, writing, op>> /\ Stored' = Stored
  BY <1>u, <1>s DEF Stays, streamVars, cacheVars, readerVars
<1>m. ASSUME NEW f \in BOOLEAN, MarkFinished(f), UNCHANGED writing
      PROVE  /\ UNCHANGED <<receivedLength, chunks, writing, op>> /\ Stored' = Stored /\ terminated'
             /\ failed' = IF terminated THEN failed ELSE f
  BY <1>m, <1>s DEF MarkFinished, readerVars
\* A length that is settled once the stream has ended is what was received.
<1>l. ASSUME NEW t \in {"download", "close", "destroy"}, NEW next, SetLength(t, next), terminated,
             t = "download" => pc["download"] = "length" /\ next = "fence",
             t = "close" => next = "flag",
             t = "destroy" => next \in {"stop", "wait", "flag2"}
      PROVE  DataInv'
  <2>1. /\ UNCHANGED <<receivedLength, failed, terminated, chunks, writing, op, buffer, posted>>
        /\ Stored' = Stored /\ length' = receivedLength
    BY <1>l, <1>u DEF SetLength
  <2>2. pc' = [pc EXCEPT ![t] = next]
    BY <1>l DEF SetLength
  <2>3. Ended => length >= receivedLength /\ receivedLength = Stored
    BY <1>r
  <2> QED
    BY <1>l, <1>t, <2>1, <2>2, <2>3
<1>1. CASE StartJob
  BY <1>1, <1>u DEF StartJob
<1>2. CASE LoadStep
  <2>1. CASE Run \/ CheckAborting \/ AddDownloader \/ Assign
    BY <2>1, <1>u DEF Run, CheckAborting, AddDownloader, Assign
  <2>10. CASE AddDownloadJob
    <3>1. UNCHANGED <<length, buffer, posted>> /\ pc["load"] = "submit" /\ pc["download"] = "none" /\ pc'["load"] = "assign"
          /\ pc'["download"] \in {"fenced", "queued"} /\ UNCHANGED <<pc["close"], pc["destroy"]>>
      BY <2>10 DEF AddDownloadJob, LifeInv, HasDownloader
    <3>2. UNCHANGED <<receivedLength, failed, terminated, chunks, writing, op>> /\ Stored' = Stored
      BY <1>u, <2>10 DEF AddDownloadJob
    <3> QED
      BY <3>1, <3>2
  <2>2. CASE WaitForTermination
    <3>1. UNCHANGED <<receivedLength, failed, terminated, chunks, writing>> /\ Stored' = Stored
      BY <1>s, <1>u, <2>2 DEF WaitForTermination, cacheVars
    <3> QED
      BY <1>t, <1>u, <2>2, <3>1 DEF WaitForTermination
  <2>3. CASE Wait
    <3>1. UNCHANGED <<receivedLength, failed, terminated, chunks, writing>> /\ Stored' = Stored
      BY <1>s, <2>3 DEF Wait, TestArrived, FallAsleep, cacheVars
    <3>2. op'[Loader] = op[Loader] \/ (op'[Loader] = "seek" /\ terminated)
      BY <1>t, <2>3 DEF Wait, TestArrived, FallAsleep, Arrived, readerVars
    <3> QED
      BY <2>3, <3>1, <3>2 DEF Wait
  <2>4. CASE Terminated
    <3>1. UNCHANGED <<receivedLength, failed, terminated, chunks, writing>> /\ Stored' = Stored
      BY <1>s, <2>4 DEF Terminated, cacheVars
    <3> QED
      BY <1>t, <2>4, <3>1 DEF Terminated
  <2>5. CASE Allocate
    BY <1>t, <1>u, <2>5 DEF Allocate, Fill
  <2>6. CASE Read
    BY <1>t, <1>u, <2>6 DEF Read, Fill
  <2>7. CASE Convert
    BY <1>t, <1>u, <2>7 DEF Convert, Fill
  <2>8. CASE AllocateFails \/ SendOutcome
    BY <1>u, <2>8 DEF AllocateFails, SendOutcome
  <2>9. CASE LockDownloader \/ RemoveDownloader \/ DeleteDownloader \/ TakeDownloader \/ ThreadFinished
    BY <1>u, <2>9 DEF LockDownloader, RemoveDownloader, DeleteDownloader, TakeDownloader, ThreadFinished
  <2> QED
    BY <1>2, <2>1, <2>2, <2>3, <2>4, <2>5, <2>6, <2>7, <2>8, <2>9, <2>10 DEF LoadStep
<1>3. CASE DownloadStep
  <2>1. CASE TakeDownload \/ TestStopFlag \/ jobFence
    BY <1>u, <2>1 DEF TakeDownload, TestStopFlag, jobFence
  <2>2. CASE AppendMore
    <3>1. ~Ended /\ UNCHANGED <<failed, terminated, op>>
      BY <2>2 DEF AppendMore, AppendGoesOn, handleAppend, CountAppend, SignalAppend, cacheVars, readerVars
    <3>2. UNCHANGED <<pc, loadVars>> /\ pc["download"] = "append"
      BY <2>2 DEF AppendMore
    <3> QED
      BY <3>1, <3>2
  <2>3. CASE Grow
    <3>1. length' >= receivedLength
      BY <1>t, <2>3 DEF Grow, Grown
    <3> QED
      BY <1>r, <1>u, <2>3, <3>1 DEF Grow
  <2>4. CASE SettleLength
    BY <1>l, <2>4 DEF SettleLength
  <2>5. ASSUME NEW a \in Announced, ReadHeaders(a)
        PROVE  DataInv'
    <3>1. UNCHANGED <<receivedLength, failed, terminated, chunks, writing, op>> /\ Stored' = Stored
      BY <1>s, <1>u, <2>5 DEF ReadHeaders, Reserve, readerVars
    <3>2. length' \in Nat
      BY <1>t, <2>5, DownloadAssumption DEF ReadHeaders
    <3> QED
      BY <1>t, <1>z, <2>5, <3>1, <3>2 DEF ReadHeaders
  <2>6. ASSUME NEW n \in Blocks, AppendData(n)
        PROVE  DataInv'
    <3>1. UNCHANGED <<receivedLength, failed, terminated, chunks, op>> /\ Stored' = Stored
      BY <1>s, <2>6 DEF AppendData, BeginAppend, cacheVars, readerVars
    <3> QED
      BY <2>6, <3>1 DEF AppendData
  <2>7. ASSUME NEW f \in BOOLEAN, EndDownload(f)
        PROVE  DataInv'
    <3>1. /\ UNCHANGED <<receivedLength, chunks, writing, op>> /\ Stored' = Stored /\ terminated'
          /\ failed' = IF terminated THEN failed ELSE f
      BY <1>m, <2>7 DEF EndDownload
    <3> QED
      BY <1>t, <2>7, <3>1 DEF EndDownload
  <2> QED
    BY <1>3, <2>1, <2>2, <2>3, <2>4, <2>5, <2>6, <2>7 DEF DownloadStep
\* stop() marks the stream as failed, unless it had terminated.
<1>4. ASSUME NEW t \in {"close", "destroy"}, NEW mark, NEW next, StopMark(t, mark, next)
      PROVE  DataInv'
  <2>1. /\ UNCHANGED <<receivedLength, chunks, writing, op>> /\ Stored' = Stored /\ terminated'
        /\ failed' = IF terminated THEN failed ELSE TRUE
    BY <1>m, <1>4 DEF StopMark
  <2> QED
    BY <1>t, <1>4, <2>1 DEF StopMark
<1>5. ASSUME NEW t \in {"close", "destroy"}, NEW mark, NEW flag,
             LockToAbort(t, mark, flag) \/ SetAborting(t, mark, flag),
             {mark, flag} \subseteq {"mark", "flag", "done", "mark2", "flag2", "join"}
      PROVE  DataInv'
  <2>1. UNCHANGED <<receivedLength, failed, terminated, chunks, writing, op>> /\ Stored' = Stored
    BY <1>u, <1>5 DEF LockToAbort, SetAborting
  <2>2. UNCHANGED <<length, buffer, posted>> /\ \E l \in {mark, flag} : pc' = [pc EXCEPT ![t] = l]
    BY <1>5 DEF LockToAbort, SetAborting
  <2>3. /\ pc'["load"] = pc["load"] /\ pc'["download"] = pc["download"]
        /\ pc'["close"] = "length" => pc["close"] = "length"
        /\ \A l \in {"length1", "length2", "length3"} : pc'["destroy"] = l => pc["destroy"] = l
    BY <1>5, <2>2
  <2> QED
    BY <2>1, <2>2, <2>3
<1>6. CASE Close \/ CloseGoesOn
  <2>1. CASE Close
    BY <1>u, <2>1 DEF Close
  <2>2. CASE At("close", "length") /\ SetLength("close", "flag")
    BY <1>l, <2>2
  <2> QED
    BY <1>4, <1>5, <1>6, <2>1, <2>2 DEF CloseGoesOn
<1>7. CASE StopAll \/ DestroyGoesOn
  <2>1. CASE StopAll \/ StopDownloads \/ SweepDownloads
    BY <1>u, <2>1 DEF StopAll, StopDownloads, SweepDownloads
  <2>2. CASE JoinDownloads \/ AbortLoad \/ JoinLoad
    BY <1>u, <2>2 DEF JoinDownloads, AbortLoad, JoinLoad
  <2>3. CASE \/ At("destroy", "length1") /\ SetLength("destroy", "stop")
             \/ At("destroy", "length2") /\ SetLength("destroy", "flag2")
             \/ At("destroy", "length3") /\ SetLength("destroy", "wait")
    BY <1>l, <2>3
  <2> QED
    BY <1>4, <1>5, <1>7, <2>1, <2>2, <2>3 DEF DestroyGoesOn
<1>8. CASE FrameGoesOn \/ Idles
  <2>1. UNCHANGED <<receivedLength, failed, terminated, chunks, writing, op>> /\ Stored' = Stored
    BY <1>s, <1>8 DEF FrameGoesOn, Idles, FramePosts, FrameSignals, FrameTests, FallAsleep, VmIdles, cacheVars, readerVars
  <2> QED
    BY <1>8, <2>1 DEF FrameGoesOn, Idles
<1> QED
  BY <1>1, <1>2, <1>3, <1>6, <1>7, <1>8 DEF Next

(***************************************************************************)
(* The results.                                                            *)
(***************************************************************************)
LEMMA DownloadInvHolds == Spec => []DownloadInv
<1>1. Init => DownloadInv
  <2> SUFFICES ASSUME Init PROVE DownloadInv
    OBVIOUS
  <2>1. StreamInv
    BY StreamInitOK DEF Init
  <2>2. PcTypes
    BY DEF Init, PcTypes, Before, Creating, Copying, Holding, Giving, Ending, Unserved, Serving
  <2>3. LoadTypes
    BY DEF Init, LoadTypes, Free
  <2>4. LifeInv
    BY DEF Init, LifeInv, Locking, HasDownloader, Using, Executing, Free, Before, Creating, Copying, Holding,
           Giving, Ending, Unserved, Serving
  <2>5. DataInv
    <3>1. /\ op[Loader] = "idle" /\ ~terminated /\ ~failed /\ chunks = <<>> /\ writing.pc = "idle"
          /\ buffer.read = 0 /\ buffer.given = 0 /\ buffer.allocated = 0
      BY DownloadAssumption DEF Init, StreamInit, NotWriting
    <3> QED
      BY <3>1 DEF Init, DataInv, Waiting, Transfer, EndedWell, Copied, Allocated, Ended, Before, Creating,
                  Copying, Holding, Giving, Ending, Unserved, Serving
  <2> QED
    BY <2>1, <2>2, <2>3, <2>4, <2>5 DEF DownloadInv
<1>2. DownloadInv /\ [Next]_vars => DownloadInv'
  <2> SUFFICES ASSUME DownloadInv, [Next]_vars PROVE DownloadInv'
    OBVIOUS
  <2>1. CASE Next
    BY <2>1, StreamKept, PcKept, TypesKept, LifeKept, DataKept DEF DownloadInv
  <2>2. CASE UNCHANGED vars
    <3>1. StreamInv'
      BY <2>2, StreamStep DEF DownloadInv, vars
    <3>2. PcTypes' /\ LoadTypes'
      BY <2>2 DEF DownloadInv, PcTypes, LoadTypes, vars, loadVars
    <3>3. LifeInv'
      BY <2>2 DEF DownloadInv, LifeInv, Locking, HasDownloader, Using, Executing, vars, loadVars
    <3>4. DataInv'
      <4>1. Stored' = Stored
        BY <2>2 DEF Stored, Used, vars, streamVars, cacheVars
      <4> QED
        BY <2>2, <4>1 DEF DownloadInv, DataInv, Waiting, Transfer, EndedWell, Copied, Allocated, Ended,
                          vars, loadVars, streamVars, cacheVars, readerVars
    <3> QED
      BY <3>1, <3>2, <3>3, <3>4 DEF DownloadInv
  <2> QED
    BY <2>1, <2>2
<1> QED
  BY <1>1, <1>2, PTL DEF Spec

\* The variables keep their types, the stream's among them.
THEOREM DownloadTypes == Spec => []TypeOK
<1>1. DownloadInv => TypeOK
  BY DEF DownloadInv, LoadTypes, StreamInv, CacheInv, ReaderInv, WriterTypes, ReaderTypes, Gets, SignalTypes,
         Chunk, StreamTypeOK, TypeOK
<1> QED
  BY <1>1, DownloadInvHolds, PTL

\* The job of the load deletes its downloader only when no one can use it:
\* its own job is fenced, the sweep of its pool has passed it, stopAll() does
\* not find it listed, and close() and destroy() not assigned.
THEOREM NobodyUsesADeletedDownloader == Spec => []DownloaderSafe
<1>1. DownloadInv => DownloaderSafe
  BY DEF DownloadInv, LifeInv, Locking, HasDownloader, Using, Executing, DownloaderSafe, LoadTypes
<1> QED
  BY <1>1, DownloadInvHolds, PTL

\* A load posts its complete event only for a download that was not stopped
\* and did not fail, and has then copied every byte that was received into the
\* data it gives to the script: the length is settled behind the end of the
\* stream and never below what is stored.  The data may be longer than that, if
\* the load has read the announced length before it was settled.
THEOREM ACompleteLoadIsWhole == Spec => []CompleteIsWhole
<1>1. DownloadInv => CompleteIsWhole
  <2> SUFFICES ASSUME DownloadInv, posted = "complete"
               PROVE  ~failed /\ buffer.read = Stored /\ receivedLength = Stored /\ buffer.given >= Stored
    BY DEF CompleteIsWhole
  <2>1. Ended /\ buffer.read = Stored /\ buffer.given >= Stored
    BY DEF DownloadInv, DataInv, Copied
  <2>2. writing.pc = "idle"
    BY <2>1 DEF DownloadInv, DataInv, EndedWell, Transfer
  <2>3. receivedLength = Stored
    BY <2>2, LastChunk DEF DownloadInv, StreamInv, CacheInv, WriterTypes, ReceivedIsStored
  <2> QED
    BY <2>1, <2>3 DEF Ended
<1> QED
  BY <1>1, DownloadInvHolds, PTL

\* execute() reads the length three times, while the download's own thread,
\* close() and destroy() may assign it: what is read and what is given to the
\* script fits all the same in what was allocated.
THEOREM TheBufferIsLargeEnough == Spec => []BufferHolds
<1>1. DownloadInv => BufferHolds
  BY DEF DownloadInv, DataInv, Allocated, BufferHolds
<1> QED
  BY <1>1, DownloadInvHolds, PTL
=============================================================================
