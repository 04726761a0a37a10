----------------------- MODULE BackgroundWorkersProofs -----------------------
(***************************************************************************)
(* Proofs about BackgroundWorkers, for any workers and any programs.       *)
(***************************************************************************)
EXTENDS BackgroundWorkers, FiniteSetTheorems, SequenceTheorems, WellFoundedInduction, TLAPS

(***************************************************************************)
(* The inductive invariant.                                                *)
(***************************************************************************)
Names == Threads \union {Plain}
Calls == [op : Ops, worker : Names, about : Names, index : Nat \ {0}]

PcValues == {"none", "begin", "enlist", "test", "parse", "loop", "wait", "asleep", "handle", "handled",
             "leave", "ended"}

\* What the properties are about, with its types.
WorkerTypes ==
    /\ threadAborting \in [Workers -> BOOLEAN] /\ told \in [Workers -> BOOLEAN] /\ quit \in [Workers -> BOOLEAN]
    /\ parser \in [Workers -> {"none", "there", "told"}]
    /\ place \in [Workers -> {"new", "queued", "swept", "pool", "extra"}]
    /\ pc \in [Workers -> PcValues]
    /\ late \in [Workers -> Nat] /\ fences \in [Workers -> Nat]

\* The queues, and the calls that the threads are in.
QueueTypes ==
    /\ events \in [Workers -> Seq(Names)] /\ cur \in [Workers -> Names]
    /\ workerlist \in Seq(Workers) /\ vmQueue \in Seq(Names)
StackTypes == todo \in [Threads -> Seq(Calls)]

\* The parser of a worker.
Parsing(w) ==
    /\ told[w] => threadAborting[w]
    /\ pc[w] \in {"enlist", "test", "parse"} => parser[w] # "none"
    /\ pc[w] = "parse" /\ told[w] => parser[w] = "told"

\* A worker that has left its loop, and did not give up, has no event but late ones.
Answered(w) == pc[w] \in {"leave", "ended"} /\ ~quit[w] => Len(events[w]) <= late[w]

\* A call of jobFence() that is still to be made, and the places of such calls.
IsFence(f, w) == f.op = "fence" /\ f.worker = w
FencesAt(t, w) == {i \in 1..Len(todo[t]) : IsFence(todo[t][i], w)}
FencePending(w) == \E t \in Threads : FencesAt(t, w) # {}
OneFence(w) ==
    \A t, u \in Threads : \A i \in FencesAt(t, w), j \in FencesAt(u, w) : t = u /\ i = j

\* A thread has the job from when the pool, or an additional thread, takes it.
HasThread(w) == pc[w] = "none" <=> place[w] \in {"new", "queued", "swept"}

Unfenced(w) == ~FencePending(w) /\ fences[w] = 0
FencedOnce(w) ==
    place[w] # "extra" =>
        /\ OneFence(w)
        /\ fences[w] = 0 \/ (fences[w] = 1 /\ ~FencePending(w))
        /\ place[w] \in {"new", "queued"} => Unfenced(w)
        /\ place[w] = "pool" /\ pc[w] # "ended" => Unfenced(w)

\* The thread that stops the pool does nothing before.
MainIdle == ~stopFlag => todo[Main] = <<>>

WorkersInv ==
    /\ WorkerTypes /\ QueueTypes /\ StackTypes /\ MainIdle
    /\ \A w \in Workers : Parsing(w) /\ Answered(w) /\ HasThread(w) /\ FencedOnce(w)

(***************************************************************************)
(* The stacks of the threads.                                              *)
(***************************************************************************)
LEMMA MinIsLeast ==
  ASSUME NEW K \in SUBSET Nat, K # {}
  PROVE  Min(K) \in K /\ \A x \in K : Min(K) <= x
<1>1. PICK x \in K : \A y \in K : <<y, x>> \notin OpToRel(<, Nat)
  BY WFMin, NatLessThanWellFounded
<1>2. \A y \in K : x <= y
  <2>1. ASSUME NEW y \in K PROVE ~(y < x)
    <3>1. y \in Nat /\ x \in Nat /\ <<y, x>> \notin OpToRel(<, Nat)
      BY <1>1
    <3> QED
      BY <3>1, Zenon DEF OpToRel
  <2> QED
    BY <2>1
<1> QED
  BY <1>2 DEF Min

\* What is unlocked at once is a prefix of the calls.
LEMMA UnlockedIsSuffix ==
  ASSUME NEW s \in Seq(Calls)
  PROVE  /\ Unlocked(s) \in Seq(Calls)
         /\ \E k \in Nat : /\ Len(Unlocked(s)) + k = Len(s)
                           /\ \A i \in 1..Len(Unlocked(s)) : i + k \in 1..Len(s) /\ Unlocked(s)[i] = s[i + k]
<1> DEFINE K == {i \in 1..Len(s) : s[i] \notin Unlocks}
<1>1. CASE K = {}
  <2>1. Unlocked(s) = <<>> /\ Len(s) \in Nat
    BY <1>1 DEF Unlocked
  <2> QED
    BY <2>1
<1>2. CASE K # {}
  <2>1. Len(s) \in Nat /\ K \in SUBSET Nat /\ K \subseteq 1..Len(s)
    OBVIOUS
  <2>2. Min(K) \in 1..Len(s)
    BY <1>2, <2>1, MinIsLeast
  <2>3. Unlocked(s) = SubSeq(s, Min(K), Len(s))
    BY <1>2 DEF Unlocked
  <2> HIDE DEF K
  <2> DEFINE m == Min(K)
  <2> HIDE DEF m
  <2>4. m \in 1..Len(s) /\ Unlocked(s) = SubSeq(s, m, Len(s))
    BY <2>2, <2>3 DEF m
  <2>5. /\ Unlocked(s) \in Seq(Calls) /\ Len(Unlocked(s)) = Len(s) - m + 1
        /\ \A i \in 1..Len(s) - m + 1 : Unlocked(s)[i] = s[m + i - 1]
    BY <2>1, <2>4, SubSeqProperties
  <2>6. m - 1 \in Nat /\ Len(Unlocked(s)) + (m - 1) = Len(s)
    BY <2>1, <2>4, <2>5
  <2>7. ASSUME NEW i \in 1..Len(Unlocked(s))
        PROVE  i + (m - 1) \in 1..Len(s) /\ Unlocked(s)[i] = s[i + (m - 1)]
    <3>1. i + (m - 1) = m + i - 1 /\ i \in 1..Len(s) - m + 1 /\ i + (m - 1) \in 1..Len(s)
      BY <2>1, <2>4, <2>5
    <3> QED
      BY <2>5, <3>1
  <2> QED
    BY <2>5, <2>6, <2>7
<1> QED
  BY <1>1, <1>2

\* A thread goes on with its calls: the new ones and, behind them, those it
\* was in, without the innermost.
LEMMA StackMoves ==
  ASSUME StackTypes, NEW t \in Threads, todo[t] # <<>>, NEW calls \in Seq(Calls), GoesOn(t, calls)
  PROVE  /\ StackTypes'
         /\ \A u \in Threads \ {t} : todo'[u] = todo[u]
         /\ \E k \in Nat : \A i \in 1..Len(todo'[t]) :
               IF i + k \in 1..Len(calls)
                 THEN todo'[t][i] = calls[i + k]
                 ELSE /\ i + k - Len(calls) + 1 \in 2..Len(todo[t])
                      /\ todo'[t][i] = todo[t][i + k - Len(calls) + 1]
<1> DEFINE rest == Tail(todo[t])
           c    == calls \o rest
<1>1. /\ todo[t] \in Seq(Calls) /\ rest \in Seq(Calls) /\ Len(rest) = Len(todo[t]) - 1
      /\ \A i \in 1..Len(rest) : rest[i] = todo[t][i + 1]
      /\ Len(todo[t]) \in Nat /\ Len(calls) \in Nat /\ Len(rest) \in Nat
  <2>1. todo[t] \in Seq(Calls)
    BY DEF StackTypes
  <2> QED
    BY <2>1, HeadTailProperties
<1> HIDE DEF rest
<1>2. /\ c \in Seq(Calls) /\ Len(c) = Len(calls) + Len(rest)
      /\ \A i \in 1..Len(c) : c[i] = IF i <= Len(calls) THEN calls[i] ELSE rest[i - Len(calls)]
  <2>1. /\ calls \o rest \in Seq(Calls) /\ Len(calls \o rest) = Len(calls) + Len(rest)
        /\ \A i \in 1..Len(calls) + Len(rest) :
             (calls \o rest)[i] = IF i <= Len(calls) THEN calls[i] ELSE rest[i - Len(calls)]
    BY <1>1, ConcatProperties, Zenon
  <2> QED
    BY <2>1, Zenon
<1>3. todo' = [todo EXCEPT ![t] = Unlocked(c)]
  BY DEF GoesOn, rest, StackTypes
<1> HIDE DEF c
<1>4. PICK k \in Nat : \A i \in 1..Len(Unlocked(c)) : i + k \in 1..Len(c) /\ Unlocked(c)[i] = c[i + k]
  BY <1>2, UnlockedIsSuffix
<1>5. Unlocked(c) \in Seq(Calls) /\ Len(Unlocked(c)) \in Nat
  BY <1>2, UnlockedIsSuffix
<1>6. StackTypes' /\ todo'[t] = Unlocked(c) /\ \A u \in Threads \ {t} : todo'[u] = todo[u]
  BY <1>3, <1>5 DEF StackTypes
<1>7. ASSUME NEW i \in 1..Len(Unlocked(c))
      PROVE  IF i + k \in 1..Len(calls)
               THEN Unlocked(c)[i] = calls[i + k]
               ELSE /\ i + k - Len(calls) + 1 \in 2..Len(todo[t])
                    /\ Unlocked(c)[i] = todo[t][i + k - Len(calls) + 1]
  <2>1. i + k \in 1..Len(c) /\ Unlocked(c)[i] = c[i + k] /\ i \in Nat
    BY <1>4, <1>5
  <2>2. CASE i + k \in 1..Len(calls)
    <3>1. i + k <= Len(calls)
      BY <1>1, <2>2
    <3> QED
      BY <1>2, <2>1, <2>2, <3>1
  <2>3. CASE i + k \notin 1..Len(calls)
    <3>1. ~(i + k <= Len(calls)) /\ i + k - Len(calls) \in 1..Len(rest)
      <4>1. \A a, b, x, y \in Nat :
               x + y \in 1..a + b /\ x + y \notin 1..a => ~(x + y <= a) /\ x + y - a \in 1..b
        OBVIOUS
      <4>2. /\ Len(calls) \in Nat /\ Len(rest) \in Nat /\ i \in Nat /\ k \in Nat
            /\ i + k \in 1..Len(calls) + Len(rest) /\ i + k \notin 1..Len(calls)
        BY <1>1, <1>2, <2>1, <2>3, Zenon
      <4> QED
        BY <4>1, <4>2, Zenon
    <3>2. c[i + k] = rest[i + k - Len(calls)]
      BY <1>2, <2>1, <3>1
    <3>3. rest[i + k - Len(calls)] = todo[t][i + k - Len(calls) + 1]
      BY <1>1, <3>1
    <3>4. i + k - Len(calls) + 1 \in 2..Len(todo[t])
      BY <1>1, <3>1
    <3> QED
      BY <2>1, <2>3, <3>2, <3>3, <3>4
  <2> QED
    BY <2>2, <2>3
<1> QED
  BY <1>6, <1>7

\* Calls without a jobFence() of w add none to a stack, which loses the one
\* that is its innermost call.
NoFenceIn(calls, w) == \A i \in 1..Len(calls) : ~IsFence(calls[i], w)

LEMMA FencesMove ==
  ASSUME StackTypes, NEW t \in Threads, todo[t] # <<>>, NEW calls \in Seq(Calls), GoesOn(t, calls),
         NEW w, NoFenceIn(calls, w)
  PROVE  /\ FencePending(w)' => FencePending(w)
         /\ OneFence(w) => OneFence(w)' /\ (IsFence(Top(t), w) => ~FencePending(w)')
<1>1. \A u \in Threads \ {t} : FencesAt(u, w)' = FencesAt(u, w)
  BY StackMoves DEF FencesAt
<1>2. PICK k \in Nat : \A i \in 1..Len(todo'[t]) :
               IF i + k \in 1..Len(calls)
                 THEN todo'[t][i] = calls[i + k]
                 ELSE /\ i + k - Len(calls) + 1 \in 2..Len(todo[t])
                      /\ todo'[t][i] = todo[t][i + k - Len(calls) + 1]
  BY StackMoves
<1> DEFINE d == k - Len(calls) + 1
<1>3. d \in Int
  OBVIOUS
<1>4. \A i \in FencesAt(t, w)' : i \in Nat /\ i + d \in FencesAt(t, w) /\ i + d # 1
  <2> SUFFICES ASSUME NEW i \in FencesAt(t, w)'
               PROVE  i \in Nat /\ i + d \in FencesAt(t, w) /\ i + d # 1
    OBVIOUS
  <2>1. i \in 1..Len(todo'[t]) /\ IsFence(todo'[t][i], w)
    BY DEF FencesAt, IsFence
  <2>2. Len(todo'[t]) \in Nat /\ Len(todo[t]) \in Nat
    BY StackMoves DEF StackTypes
  <2>3. i + k \notin 1..Len(calls)
    BY <1>2, <2>1 DEF NoFenceIn
  <2>4. i + k - Len(calls) + 1 \in 2..Len(todo[t]) /\ todo'[t][i] = todo[t][i + k - Len(calls) + 1]
    BY <1>2, <2>1, <2>3
  <2>5. i + d = i + k - Len(calls) + 1 /\ i \in Nat
    BY <2>1, <2>2
  <2> HIDE DEF d
  <2>6. i + d \in 2..Len(todo[t]) /\ IsFence(todo[t][i + d], w)
    BY <2>1, <2>4, <2>5
  <2> QED
    BY <2>2, <2>5, <2>6 DEF FencesAt
<1> HIDE DEF d
<1>5. FencePending(w)' => FencePending(w)
  BY <1>1, <1>4 DEF FencePending
<1>6. ASSUME OneFence(w) PROVE OneFence(w)'
  <2> SUFFICES ASSUME NEW u \in Threads, NEW v \in Threads, NEW i \in FencesAt(u, w)', NEW j \in FencesAt(v, w)'
               PROVE  u = v /\ i = j
    BY DEF OneFence
  <2>1. CASE u = t /\ v = t
    <3>1. i \in Nat /\ j \in Nat /\ i + d \in FencesAt(t, w) /\ j + d \in FencesAt(t, w)
      BY <1>4, <2>1
    <3>2. i + d = j + d
      BY <1>6, <3>1 DEF OneFence
    <3> QED
      BY <1>3, <2>1, <3>1, <3>2
  <2>2. CASE u = t /\ v # t
    BY <1>1, <1>4, <1>6, <2>2 DEF OneFence
  <2>3. CASE u # t /\ v = t
    BY <1>1, <1>4, <1>6, <2>3 DEF OneFence
  <2>4. CASE u # t /\ v # t
    BY <1>1, <1>6, <2>4 DEF OneFence
  <2> QED
    BY <2>1, <2>2, <2>3, <2>4
<1>7. ASSUME OneFence(w), IsFence(Top(t), w), FencePending(w)'
      PROVE  FALSE
  <2>1. 1 \in FencesAt(t, w)
    BY <1>7 DEF FencesAt, Top, StackTypes
  <2>2. PICK u \in Threads : FencesAt(u, w)' # {}
    BY <1>7 DEF FencePending
  <2>3. CASE u = t
    BY <1>4, <1>7, <2>1, <2>2, <2>3 DEF OneFence
  <2>4. CASE u # t
    BY <1>1, <1>7, <2>1, <2>2, <2>4 DEF OneFence
  <2> QED
    BY <2>3, <2>4
<1> QED
  BY <1>5, <1>6, <1>7

\* A thread that was in no call begins one of jobFence().
LEMMA FenceBegins ==
  ASSUME StackTypes, NEW t \in Threads, todo[t] = <<>>, NEW w \in Names, NEW calls \in Seq(Calls),
         Begins(t, calls), NEW v, NoFenceIn(Tail(calls), v), calls # <<>>
  PROVE  /\ StackTypes'
         /\ ~IsFence(Head(calls), v) =>
               (FencePending(v)' => FencePending(v)) /\ (OneFence(v) => OneFence(v)')
         /\ ~FencePending(v) => OneFence(v)'
<1>1. StackTypes' /\ todo'[t] = calls /\ \A u \in Threads \ {t} : todo'[u] = todo[u]
  BY DEF Begins, StackTypes
<1>2. \A u \in Threads \ {t} : FencesAt(u, v)' = FencesAt(u, v)
  BY <1>1 DEF FencesAt
<1>3. \A i \in FencesAt(t, v)' : i = 1 /\ IsFence(Head(calls), v)
  <2> SUFFICES ASSUME NEW i \in FencesAt(t, v)' PROVE i = 1 /\ IsFence(Head(calls), v)
    OBVIOUS
  <2>1. i \in 1..Len(calls) /\ IsFence(calls[i], v) /\ Len(calls) \in Nat
    BY <1>1 DEF FencesAt, IsFence
  <2>2. i # 1 => i - 1 \in 1..Len(Tail(calls)) /\ Tail(calls)[i - 1] = calls[i]
    BY <2>1
  <2>3. i = 1
    BY <2>1, <2>2 DEF NoFenceIn
  <2> QED
    BY <2>1, <2>3
<1> QED
  BY <1>1, <1>2, <1>3 DEF FencePending, OneFence

(***************************************************************************)
(* The types.                                                              *)
(***************************************************************************)
LEMMA WorkerTypesKept ==
  ASSUME WorkerTypes, Next
  PROVE  WorkerTypes'
<1> USE DEF WorkerTypes, PcValues, queueVars, jobVars, runVars, flagVars, vmVars
<1>1. ASSUME NEW S PROVE Woken(S) \in [Workers -> PcValues]
  BY DEF Woken
<1>2. ASSUME NEW S, Abort(S)
      PROVE  /\ threadAborting' \in [Workers -> BOOLEAN]
             /\ pc' \in [Workers -> PcValues] /\ UNCHANGED <<cur, parser>>
  BY <1>1, <1>2 DEF Abort, Signal
<1>3. ASSUME NEW t \in Threads, Call(t)
      PROVE  WorkerTypes'
  <2>1. CASE AddEvent(t) \/ Broadcast(t) \/ Tell(t) \/ AfterHandleEvent(t) \/ RemoveWorker(t) \/ Join(t) \/ JoinPool(t)
    BY <2>1 DEF AddEvent, Broadcast, Tell, AfterHandleEvent, RemoveWorker, Join, JoinPool
  <2>2. CASE Push(t) \/ Wake(t)
    BY <1>1, <2>2 DEF Push, Wake, Signal
  <2>3. CASE Sweep(t)
    BY <1>2, <2>3 DEF Sweep
  <2>4. CASE Extras(t)
    BY <1>2, <2>4 DEF Extras
  <2>5. CASE jobFence(t)
    <3>1. fences' = [fences EXCEPT ![Top(t).worker] = @ + 1]
          /\ UNCHANGED <<threadAborting, told, quit, parser, place, pc, late>>
      BY <2>5 DEF jobFence
    <3>2. fences' \in [Workers -> Nat]
      <4>1. ASSUME NEW x, fences' = [fences EXCEPT ![x] = @ + 1]
            PROVE  fences' \in [Workers -> Nat]
        <5>1. CASE x \in Workers
          BY <4>1, <5>1
        <5>2. CASE x \notin Workers
          <6>1. fences' = fences
            BY <4>1, <5>2
          <6> QED
            BY <6>1
        <5> QED
          BY <5>1, <5>2
      <4> QED
        BY <3>1, <4>1, Zenon
    <3> QED
      BY <3>1, <3>2
  <2> QED
    BY <1>3, <2>1, <2>2, <2>3, <2>4, <2>5 DEF Call
<1>4. ASSUME NEW w \in Workers, WorkerStep(w)
      PROVE  WorkerTypes'
  <2> USE DEF MovesTo
  <2>1. CASE TakeJob(w) \/ Dropped(w) \/ CreateParser(w) \/ AddWorker(w) \/ TestAborting(w) \/ Parsed(w)
    BY <2>1 DEF TakeJob, Dropped, CreateParser, AddWorker, TestAborting, Parsed, DropParser
  <2>2. CASE LoopHead(w) \/ Wait(w) \/ Handled(w) \/ GiveUp(w) \/ AfterEvent(w) \/ Return(w)
    BY <2>2 DEF LoopHead, Wait, Handled, GiveUp, AfterEvent, Return
  <2> QED
    BY <1>4, <2>1, <2>2 DEF WorkerStep
<1>5. ASSUME NEW t, Script(t)
      PROVE  WorkerTypes'
  <2>1. PICK w \in Workers : Start(t, w) \/ Terminate(t, w) \/ Send(t, w)
    BY <1>5 DEF Script
  <2>2. CASE Start(t, w)
    BY <2>2 DEF Start, MovesTo
  <2>3. CASE Terminate(t, w)
    BY <1>1, <2>3 DEF Terminate
  <2>4. CASE Send(t, w)
    BY <2>4 DEF Send
  <2> QED
    BY <2>1, <2>2, <2>3, <2>4
<1>6. CASE VmHandles \/ VmShutdown \/ ForceStop
  BY <1>6 DEF VmHandles, VmShutdown, ForceStop
<1>7. CASE AbortRest
  BY <1>2, <1>7 DEF AbortRest
<1> QED
  BY <1>3, <1>4, <1>5, <1>6, <1>7 DEF Next

LEMMA FrameIsCall ==
  ASSUME NEW o \in Ops, NEW w \in Names
  PROVE  Frame(o, w) \in Calls /\ Frame(o, w).op = o /\ Frame(o, w).worker = w
BY DEF Frame, Calls

LEMMA UnlockIsCall == Unlocks \subseteq Calls
BY FrameIsCall DEF Unlocks, unlockQueue, unlockWorkers, unlockPool, Ops, Names, Threads

\* The innermost call of a thread.
LEMMA TopIsCall ==
  ASSUME StackTypes, NEW t \in Threads, todo[t] # <<>>
  PROVE  Top(t) \in Calls /\ Top(t) = todo[t][1] /\ Len(todo[t]) \in Nat \ {0}
BY DEF StackTypes, Top

LEMMA AddCallIsCall ==
  ASSUME NEW v \in Names, NEW a \in Names
  PROVE  AddCall(v, a) \in Calls /\ AddCall(v, a).op # "fence"
BY DEF AddCall, Frame, Calls, Ops

LEMMA RemoveFirstKeeps ==
  ASSUME NEW S, NEW s \in Seq(S), NEW e
  PROVE  RemoveFirst(s, e) \in Seq(S)
<1> DEFINE K == {i \in 1..Len(s) : s[i] = e}
<1>1. CASE K = {}
  BY <1>1 DEF RemoveFirst
<1>2. CASE K # {}
  <2>1. Len(s) \in Nat /\ K \in SUBSET Nat /\ K \subseteq 1..Len(s)
    OBVIOUS
  <2>2. Min(K) \in 1..Len(s)
    BY <1>2, <2>1, MinIsLeast
  <2>3. RemoveFirst(s, e) = RemoveAt(s, Min(K))
    BY <1>2 DEF RemoveFirst, SelectInSeq
  <2> HIDE DEF K
  <2>4. ASSUME NEW m \in 1..Len(s) PROVE RemoveAt(s, m) \in Seq(S)
    <3>1. SubSeq(s, 1, m - 1) \in Seq(S) /\ SubSeq(s, m + 1, Len(s)) \in Seq(S)
      BY <2>1
    <3> QED
      BY <3>1 DEF RemoveAt
  <2> QED
    BY <2>2, <2>3, <2>4
<1> QED
  BY <1>1, <1>2

LEMMA QueueTypesKept ==
  ASSUME WorkerTypes, QueueTypes, StackTypes, Next
  PROVE  QueueTypes'
<1> USE DEF QueueTypes, queueVars, jobVars, runVars, flagVars, vmVars
<1>0. Workers \subseteq Names
  BY DEF Names, Threads
<1>1. ASSUME NEW t \in Threads, todo[t] # <<>>
      PROVE  Top(t).worker \in Names /\ Top(t).about \in Names
  BY <1>1, TopIsCall DEF Calls
<1>2. ASSUME NEW t \in Threads, Call(t)
      PROVE  QueueTypes'
  <2>1. CASE AddEvent(t)
    <3>1. Top(t).worker \in Names
      BY <1>1, <2>1 DEF AddEvent, Doing
    <3>2. ASSUME NEW x \in Names PROVE Append(vmQueue, x) \in Seq(Names)
      OBVIOUS
    <3>3. vmQueue' \in Seq(Names)
      BY <2>1, <3>1, <3>2 DEF AddEvent
    <3> QED
      BY <2>1, <3>3 DEF AddEvent
  <2>2. CASE Push(t)
    <3>1. Top(t).about \in Names /\ UNCHANGED <<cur, workerlist, vmQueue>>
          /\ events' = [events EXCEPT ![Top(t).worker] = Append(@, Top(t).about)]
      BY <1>1, <2>2 DEF Push, Doing, Signal
    <3>2. ASSUME NEW x, NEW a \in Names, events' = [events EXCEPT ![x] = Append(@, a)]
          PROVE  events' \in [Workers -> Seq(Names)]
      <4>1. CASE x \in Workers
        <5>1. Append(events[x], a) \in Seq(Names)
          BY <4>1
        <5> QED
          BY <3>2, <4>1, <5>1
      <4>2. CASE x \notin Workers
        <5>1. events' = events
          BY <3>2, <4>2
        <5> QED
          BY <5>1
      <4> QED
        BY <4>1, <4>2
    <3>3. events' \in [Workers -> Seq(Names)]
      BY <3>1, <3>2, Zenon
    <3> QED
      BY <3>1, <3>3
  <2>3. CASE RemoveWorker(t)
    <3>1. workerlist' \in Seq(Workers)
      BY <2>3, RemoveFirstKeeps DEF RemoveWorker
    <3> QED
      BY <2>3, <3>1 DEF RemoveWorker
  <2>4. CASE Broadcast(t) \/ Tell(t) \/ AfterHandleEvent(t) \/ Join(t) \/ JoinPool(t) \/ jobFence(t) \/ Wake(t)
    BY <2>4 DEF Broadcast, Tell, AfterHandleEvent, Join, JoinPool, jobFence, Wake, Signal
  <2>5. CASE Sweep(t) \/ Extras(t)
    BY <2>5 DEF Sweep, Extras, Abort, Signal
  <2> QED
    BY <1>2, <2>1, <2>2, <2>3, <2>4, <2>5 DEF Call
<1>3. ASSUME NEW w \in Workers, WorkerStep(w)
      PROVE  QueueTypes'
  <2>1. CASE TakeJob(w) \/ Dropped(w) \/ CreateParser(w) \/ TestAborting(w) \/ Parsed(w)
             \/ Wait(w) \/ Handled(w) \/ GiveUp(w) \/ Return(w)
    BY <2>1 DEF TakeJob, Dropped, CreateParser, TestAborting, Parsed, Wait, Handled, GiveUp, Return
  <2>2. CASE AddWorker(w)
    <3>1. workerlist' \in Seq(Workers)
      BY <2>2 DEF AddWorker
    <3> QED
      BY <2>2, <3>1 DEF AddWorker
  <2>3. CASE LoopHead(w) \/ AfterEvent(w)
    <3>1. events[w] \in Seq(Names)
      BY <2>3
    <3>2. events[w] # <<>> => Head(events[w]) \in Names /\ Tail(events[w]) \in Seq(Names)
      BY <3>1
    <3>3. CASE UNCHANGED <<events, cur>>
      BY <2>3, <3>3 DEF LoopHead, AfterEvent
    <3>4. CASE events[w] # <<>> /\ events' = [events EXCEPT ![w] = Tail(@)]
               /\ (UNCHANGED cur \/ cur' = [cur EXCEPT ![w] = Head(events[w])])
      <4>1. events' \in [Workers -> Seq(Names)] /\ cur' \in [Workers -> Names]
        BY <3>2, <3>4
      <4> QED
        BY <2>3, <4>1 DEF LoopHead, AfterEvent
    <3> QED
      BY <2>3, <3>3, <3>4 DEF LoopHead, AfterEvent
  <2> QED
    BY <1>3, <2>1, <2>2, <2>3 DEF WorkerStep
<1>4. ASSUME NEW t, Script(t)
      PROVE  QueueTypes'
  BY <1>4 DEF Script, Start, Terminate, Send
<1>5. CASE VmHandles
  <2>1. vmQueue' \in Seq(Names)
    BY <1>5 DEF VmHandles
  <2> QED
    BY <1>5, <2>1 DEF VmHandles
<1>6. CASE VmShutdown \/ ForceStop \/ AbortRest
  BY <1>6 DEF VmShutdown, ForceStop, AbortRest, Abort, Signal
<1> QED
  BY <1>2, <1>3, <1>4, <1>5, <1>6 DEF Next

(***************************************************************************)
(* The fences.                                                             *)
(***************************************************************************)
\* Few calls, none of which is a jobFence() of w.
LEMMA FewCalls ==
  ASSUME NEW a \in Calls, NEW b \in Calls, NEW c \in Calls, NEW w
  PROVE  /\ <<>> \in Seq(Calls) /\ NoFenceIn(<<>>, w)
         /\ <<a>> \in Seq(Calls) /\ (~IsFence(a, w) => NoFenceIn(<<a>>, w))
         /\ <<a, b>> \in Seq(Calls) /\ (~IsFence(a, w) /\ ~IsFence(b, w) => NoFenceIn(<<a, b>>, w))
         /\ <<a, b, c>> \in Seq(Calls)
         /\ (~IsFence(a, w) /\ ~IsFence(b, w) /\ ~IsFence(c, w) => NoFenceIn(<<a, b, c>>, w))
<1>1. <<>> \in Seq(Calls) /\ <<a>> \in Seq(Calls) /\ <<a, b>> \in Seq(Calls) /\ <<a, b, c>> \in Seq(Calls)
  OBVIOUS
<1>2. \A i \in 1..1 : <<a>>[i] = a
  OBVIOUS
<1>3. \A i \in 1..2 : <<a, b>>[i] = a \/ <<a, b>>[i] = b
  OBVIOUS
<1>4. \A i \in 1..3 : <<a, b, c>>[i] = a \/ <<a, b, c>>[i] = b \/ <<a, b, c>>[i] = c
  OBVIOUS
<1>5. Len(<<>>) = 0 /\ Len(<<a>>) = 1 /\ Len(<<a, b>>) = 2 /\ Len(<<a, b, c>>) = 3
  OBVIOUS
<1> QED
  BY <1>1, <1>2, <1>3, <1>4, <1>5 DEF NoFenceIn

Fenceless(calls) == calls \in Seq(Calls) /\ \A w \in Workers : place[w] # "extra" => NoFenceIn(calls, w)

\* No call but a sweep goes on with a jobFence() of a worker that is not on an
\* additional thread.
LEMMA CallGoesOn ==
  ASSUME QueueTypes, StackTypes, NEW t \in Threads, Call(t), ~Sweep(t)
  PROVE  todo[t] # <<>> /\ \E calls : GoesOn(t, calls) /\ Fenceless(calls)
<1>0. todo[t] # <<>> /\ Top(t) \in Calls /\ Top(t).worker \in Names /\ Top(t).about \in Names
  <2>1. todo[t] # <<>>
    BY DEF Call, AddEvent, Broadcast, Tell, Push, AfterHandleEvent, RemoveWorker, Extras, Join, JoinPool, jobFence, Wake, Doing
  <2> QED
    BY <2>1, TopIsCall DEF Calls
<1>f. \A o \in Ops, n \in Names : Frame(o, n) \in Calls /\ Frame(o, n).op = o /\ Frame(o, n).worker = n
  BY FrameIsCall
<1>u. /\ unlockQueue \in Calls /\ unlockWorkers \in Calls /\ unlockPool \in Calls
      /\ unlockQueue.op # "fence" /\ unlockWorkers.op # "fence" /\ unlockPool.op # "fence"
  BY UnlockIsCall DEF Unlocks, unlockQueue, unlockWorkers, unlockPool, Frame
<1>e. Fenceless(<<>>)
  BY <1>0, FewCalls DEF Fenceless
<1>n. ASSUME NEW a \in Calls, a.op # "fence"
      PROVE  /\ Fenceless(<<a>>)
             /\ \A b \in Calls : b.op # "fence" =>
                   Fenceless(<<a, b>>) /\ \A c \in Calls : c.op # "fence" => Fenceless(<<a, b, c>>)
  BY <1>n, FewCalls DEF Fenceless, IsFence
<1>1. CASE AddEvent(t)
  <2>1. GoesOn(t, <<Frame("after", Top(t).worker), unlockQueue>>) \/ GoesOn(t, <<Frame("broadcast", Top(t).worker), unlockQueue>>)
    BY <1>1 DEF AddEvent
  <2>2. {"after", "broadcast"} \subseteq Ops
    BY DEF Ops
  <2> QED
    BY <1>0, <1>f, <1>u, <1>n, <2>1, <2>2
<1>2. CASE Broadcast(t)
  <2>1. GoesOn(t, <<Frame("tell", Top(t).worker), unlockWorkers>>) \/ GoesOn(t, <<>>)
    BY <1>2 DEF Broadcast
  <2>2. "tell" \in Ops
    BY DEF Ops
  <2>3. Fenceless(<<Frame("tell", Top(t).worker), unlockWorkers>>)
    BY <1>0, <1>f, <1>u, <1>n, <2>2
  <2> QED
    BY <1>0, <1>e, <2>1, <2>3
<1>3. CASE Tell(t)
  <2>1. CASE Top(t).index > Len(workerlist)
    BY <1>0, <1>3, <1>e, <2>1 DEF Tell
  <2>2. CASE ~(Top(t).index > Len(workerlist))
    <3> DEFINE i == Top(t).index
               next == [Top(t) EXCEPT !.index = i + 1]
    <3>1. GoesOn(t, <<AddCall(workerlist[i], Top(t).about), next>>)
      BY <1>3, <2>2 DEF Tell
    <3>2. i \in Nat \ {0} /\ Len(workerlist) \in Nat /\ Top(t).op = "tell"
      BY <1>0, <1>3 DEF Calls, QueueTypes, Tell, Doing, Top
    <3>3. next \in Calls /\ next.op # "fence"
      BY <1>0, <3>2 DEF Calls
    <3>4. i \in 1..Len(workerlist) /\ workerlist[i] \in Workers
      BY <2>2, <3>2 DEF QueueTypes
    <3>5. workerlist[i] \in Names
      BY <3>4 DEF Names, Threads
    <3>6. AddCall(workerlist[i], Top(t).about) \in Calls /\ AddCall(workerlist[i], Top(t).about).op # "fence"
      BY <1>0, <3>5, AddCallIsCall
    <3> HIDE DEF next, i
    <3> QED
      BY <1>0, <1>n, <3>1, <3>3, <3>6
  <2> QED
    BY <2>1, <2>2
<1>4. CASE Push(t) \/ Join(t) \/ JoinPool(t) \/ Wake(t)
  BY <1>0, <1>4, <1>e DEF Push, Join, JoinPool, Wake
<1>5. CASE AfterHandleEvent(t)
  <2>1. GoesOn(t, <<Frame("remove", Top(t).worker)>>) \/ GoesOn(t, <<>>)
    BY <1>5 DEF AfterHandleEvent
  <2>2. "remove" \in Ops
    BY DEF Ops
  <2> QED
    BY <1>0, <1>e, <1>f, <1>n, <2>1, <2>2
<1>6. CASE RemoveWorker(t)
  <2>1. GoesOn(t, <<Frame("sweep", Top(t).worker), Frame("extras", Top(t).worker), unlockWorkers>>)
    BY <1>6 DEF RemoveWorker
  <2>2. "sweep" \in Ops /\ "extras" \in Ops
    BY DEF Ops
  <2> QED
    BY <1>0, <1>f, <1>u, <1>n, <2>1, <2>2
<1>7. CASE Extras(t)
  <2>1. CASE GoesOn(t, <<>>)
    BY <1>0, <1>e, <2>1
  <2>2. ASSUME NEW v \in Workers, place[v] = "extra", GoesOn(t, <<Frame("fence", v), Frame("join", v), Top(t)>>)
        PROVE  \E calls : GoesOn(t, calls) /\ Fenceless(calls)
    <3>1. v \in Names /\ "fence" \in Ops /\ "join" \in Ops /\ Top(t).op = "extras"
      BY <1>7 DEF Names, Threads, Ops, Extras, Doing, Top
    <3>2. /\ Frame("fence", v) \in Calls /\ Frame("join", v) \in Calls
          /\ \A w \in Workers : w # v => ~IsFence(Frame("fence", v), w)
          /\ \A w : ~IsFence(Frame("join", v), w) /\ ~IsFence(Top(t), w)
      BY <1>f, <3>1 DEF IsFence
    <3>3. Fenceless(<<Frame("fence", v), Frame("join", v), Top(t)>>)
      BY <1>0, <2>2, <3>2, FewCalls DEF Fenceless
    <3> QED
      BY <2>2, <3>3
  <2> QED
    BY <1>0, <1>7, <2>1, <2>2 DEF Extras, JobsOf
<1>8. CASE jobFence(t)
  <2>1. GoesOn(t, <<Frame("post", Top(t).worker), Frame("wake", Top(t).worker)>>)
    BY <1>8 DEF jobFence
  <2>2. "post" \in Ops /\ "wake" \in Ops
    BY DEF Ops
  <2> QED
    BY <1>0, <1>f, <1>n, <2>1, <2>2
<1> QED
  BY <1>1, <1>2, <1>3, <1>4, <1>5, <1>6, <1>7, <1>8 DEF Call

\* A step that brings no jobFence() of w.
Quiet(w) == (FencePending(w)' => FencePending(w)) /\ (OneFence(w) => OneFence(w)')
AllQuiet == \A w \in Workers : place[w] # "extra" => Quiet(w)

LEMMA QuietGoesOn ==
  ASSUME StackTypes, NEW t \in Threads, todo[t] # <<>>, NEW calls, GoesOn(t, calls), Fenceless(calls)
  PROVE  StackTypes' /\ AllQuiet
<1>1. calls \in Seq(Calls)
  BY DEF Fenceless
<1>2. StackTypes'
  BY <1>1, StackMoves
<1>3. ASSUME NEW w \in Workers, place[w] # "extra" PROVE Quiet(w)
  BY <1>1, <1>3, FencesMove DEF Fenceless, Quiet
<1> QED
  BY <1>2, <1>3 DEF AllQuiet

LEMMA QuietBegins ==
  ASSUME StackTypes, NEW t \in Threads, todo[t] = <<>>, NEW calls, Begins(t, calls), Fenceless(calls)
  PROVE  StackTypes' /\ AllQuiet
<1>1. StackTypes' /\ todo'[t] = calls /\ \A u \in Threads \ {t} : todo'[u] = todo[u]
  BY DEF Begins, StackTypes, Fenceless
<1>2. ASSUME NEW w \in Workers, place[w] # "extra" PROVE Quiet(w)
  <2>1. \A u \in Threads \ {t} : FencesAt(u, w)' = FencesAt(u, w)
    BY <1>1 DEF FencesAt
  <2>2. FencesAt(t, w)' = {}
    BY <1>1, <1>2 DEF FencesAt, Fenceless, NoFenceIn, IsFence
  <2> QED
    BY <2>1, <2>2 DEF Quiet, FencePending, OneFence
<1> QED
  BY <1>1, <1>2 DEF AllQuiet

LEMMA QuietSame ==
  ASSUME StackTypes, UNCHANGED todo
  PROVE  StackTypes' /\ AllQuiet
BY DEF StackTypes, AllQuiet, Quiet, FencePending, OneFence, FencesAt, IsFence

\* Steps of the threads themselves that bring no jobFence().
LEMMA ThreadsBegin ==
  ASSUME QueueTypes, StackTypes,
         \/ \E w \in Workers : WorkerStep(w) /\ ~Return(w)
         \/ \E t \in Workers \union {Vm}, w \in Workers : Terminate(t, w) \/ Send(t, w)
         \/ VmHandles \/ VmShutdown \/ AbortRest \/ (ForceStop /\ todo[Main] = <<>>)
  PROVE  StackTypes' /\ AllQuiet
<1>f. \A o \in Ops, n \in Names : Frame(o, n) \in Calls /\ Frame(o, n).op = o /\ Frame(o, n).worker = n
  BY FrameIsCall
<1>o. {"after", "post", "remove", "abortrest", "sweep", "joinpool", "extras"} \subseteq Ops
  BY DEF Ops
<1>m. Workers \subseteq Names /\ Vm \in Names /\ Main \in Names /\ Plain \in Names /\ Vm \in Threads
      /\ Main \in Threads /\ Workers \subseteq Threads
  BY DEF Names, Threads
<1>n. ASSUME NEW a \in Calls, a.op # "fence"
      PROVE  /\ Fenceless(<<a>>)
             /\ \A b \in Calls : b.op # "fence" =>
                   Fenceless(<<a, b>>) /\ \A c \in Calls : c.op # "fence" => Fenceless(<<a, b, c>>)
  BY <1>n, FewCalls DEF Fenceless, IsFence
<1>c. ASSUME NEW t \in Threads, todo[t] = <<>>, NEW a \in Calls, a.op # "fence", Begins(t, <<a>>)
      PROVE  StackTypes' /\ AllQuiet
  BY <1>c, <1>n, QuietBegins
<1>1. ASSUME NEW w \in Workers, WorkerStep(w), ~Return(w)
      PROVE  StackTypes' /\ AllQuiet
  <2>1. CASE UNCHANGED todo
    BY <2>1, QuietSame
  <2>2. CASE TakeJob(w) \/ Dropped(w) \/ CreateParser(w) \/ TestAborting(w) \/ Parsed(w) \/ LoopHead(w) \/ Wait(w) \/ GiveUp(w)
    BY <2>1, <2>2 DEF TakeJob, Dropped, CreateParser, TestAborting, Parsed, LoopHead, Wait, GiveUp
  <2>3. CASE AddWorker(w)
    <3>1. Begins(w, <<Frame("post", w)>>) /\ todo[w] = <<>>
      BY <2>3 DEF AddWorker, At
    <3> QED
      BY <1>c, <1>f, <1>o, <1>m, <3>1
  <2>4. CASE Handled(w)
    <3>1. CASE Begins(w, <<Frame("after", cur[w])>>)
      <4>1. cur[w] \in Names /\ todo[w] = <<>>
        BY <2>4 DEF Handled, At, QueueTypes
      <4> QED
        BY <1>c, <1>f, <1>o, <1>m, <3>1, <4>1
    <3> QED
      BY <2>1, <2>4, <3>1 DEF Handled
  <2>5. CASE AfterEvent(w)
    <3>1. CASE Begins(w, <<Frame("after", Head(events[w]))>>) /\ events[w] # <<>>
      <4>1. Head(events[w]) \in Names /\ todo[w] = <<>>
        BY <2>5, <3>1 DEF AfterEvent, At, QueueTypes
      <4> QED
        BY <1>c, <1>f, <1>o, <1>m, <3>1, <4>1
    <3> QED
      BY <2>1, <2>5, <3>1 DEF AfterEvent
  <2> QED
    BY <1>1, <2>2, <2>3, <2>4, <2>5 DEF WorkerStep
<1>2. ASSUME NEW t \in Workers \union {Vm}, NEW w \in Workers, Terminate(t, w) \/ Send(t, w)
      PROVE  StackTypes' /\ AllQuiet
  <2>1. t \in Threads
    BY DEF Threads
  <2>2. CASE Terminate(t, w)
    <3>1. Begins(t, <<Frame("remove", w)>>) /\ todo[t] = <<>>
      BY <2>2 DEF Terminate, RunsScript
    <3> QED
      BY <1>c, <1>f, <1>o, <1>m, <2>1, <3>1
  <2>3. CASE Send(t, w)
    <3>1. Begins(t, <<AddCall(w, Plain)>>) /\ todo[t] = <<>>
      BY <2>3 DEF Send, RunsScript
    <3> QED
      BY <1>c, <1>m, <2>1, <3>1, AddCallIsCall
  <2> QED
    BY <1>2, <2>2, <2>3
<1>3. CASE VmHandles
  <2>1. Begins(Vm, <<Frame("after", Head(vmQueue))>>) /\ todo[Vm] = <<>> /\ Head(vmQueue) \in Names
    BY <1>3 DEF VmHandles, QueueTypes
  <2> QED
    BY <1>c, <1>f, <1>o, <1>m, <2>1
<1>4. CASE VmShutdown
  <2>1. Begins(Vm, <<Frame("remove", Vm), Frame("abortrest", Vm)>>) /\ todo[Vm] = <<>>
    BY <1>4 DEF VmShutdown
  <2>2. Fenceless(<<Frame("remove", Vm), Frame("abortrest", Vm)>>)
    BY <1>f, <1>o, <1>m, <1>n
  <2> QED
    BY <1>m, <2>1, <2>2, QuietBegins
<1>5. CASE AbortRest
  <2>1. GoesOn(Vm, <<>>) /\ todo[Vm] # <<>> /\ Top(Vm) \in Calls
    BY <1>5, <1>m, TopIsCall DEF AbortRest, Doing
  <2>2. Fenceless(<<>>)
    BY <2>1, FewCalls DEF Fenceless
  <2> QED
    BY <1>m, <2>1, <2>2, QuietGoesOn
<1>6. CASE ForceStop /\ todo[Main] = <<>>
  <2>1. Begins(Main, <<Frame("sweep", Main), Frame("joinpool", Main), Frame("extras", Main)>>)
    BY <1>6 DEF ForceStop
  <2>2. Fenceless(<<Frame("sweep", Main), Frame("joinpool", Main), Frame("extras", Main)>>)
    BY <1>f, <1>o, <1>m, <1>n
  <2> QED
    BY <1>6, <1>m, <2>1, <2>2, QuietBegins
<1> QED
  BY <1>1, <1>2, <1>3, <1>4, <1>5, <1>6

(***************************************************************************)
(* The workers.                                                            *)
(***************************************************************************)
\* What a call does to the worker threads: it wakes some, and tells nobody
\* anything but to abort.
LEMMA CallOfWorkers ==
  ASSUME WorkerTypes, NEW t \in Threads, Call(t) \/ (t = Vm /\ AbortRest)
  PROVE  /\ UNCHANGED <<told, quit, parser>>
         /\ \A w \in Workers : /\ threadAborting[w] => threadAborting'[w]
                               /\ pc'[w] = pc[w] \/ (pc[w] = "asleep" /\ pc'[w] = "loop")
<1> USE DEF WorkerTypes, queueVars, jobVars, runVars, flagVars, vmVars
<1>1. ASSUME NEW S PROVE \A w \in Workers : Woken(S)[w] = pc[w] \/ (pc[w] = "asleep" /\ Woken(S)[w] = "loop")
  BY DEF Woken
<1>2. CASE AddEvent(t) \/ Broadcast(t) \/ Tell(t) \/ AfterHandleEvent(t) \/ RemoveWorker(t) \/ Join(t) \/ JoinPool(t) \/ jobFence(t)
  BY <1>2 DEF AddEvent, Broadcast, Tell, AfterHandleEvent, RemoveWorker, Join, JoinPool, jobFence
<1>3. CASE Push(t) \/ Wake(t)
  BY <1>1, <1>3 DEF Push, Wake, Signal
<1>4. ASSUME NEW S, Abort(S)
      PROVE  /\ UNCHANGED parser
             /\ \A w \in Workers : /\ threadAborting[w] => threadAborting'[w]
                                   /\ pc'[w] = pc[w] \/ (pc[w] = "asleep" /\ pc'[w] = "loop")
  BY <1>1, <1>4 DEF Abort, Signal
<1>5. CASE Sweep(t)
  BY <1>4, <1>5 DEF Sweep
<1>6. CASE Extras(t)
  BY <1>4, <1>6 DEF Extras
<1>7. CASE AbortRest
  BY <1>4, <1>7 DEF AbortRest
<1> QED
  BY <1>2, <1>3, <1>5, <1>6, <1>7 DEF Call

\* A thread that runs for a worker has the job.
LEMMA ParsingKept ==
  ASSUME WorkerTypes, Next, NEW v \in Workers, Parsing(v)
  PROVE  Parsing(v)'
<1> USE DEF queueVars, jobVars, runVars, flagVars, vmVars
<1>1. ASSUME NEW t \in Threads, Call(t) \/ (t = Vm /\ AbortRest)
      PROVE  Parsing(v)'
  BY <1>1, CallOfWorkers DEF Parsing
<1>2. ASSUME NEW w \in Workers, WorkerStep(w)
      PROVE  Parsing(v)'
  <2> USE DEF MovesTo, Parsing, WorkerTypes, At
  <2>1. CASE TakeJob(w) \/ Dropped(w) \/ CreateParser(w) \/ AddWorker(w)
    BY <2>1 DEF TakeJob, Dropped, CreateParser, AddWorker
  <2>2. CASE TestAborting(w) \/ Parsed(w)
    BY <2>2 DEF TestAborting, Parsed, DropParser
  <2>3. CASE LoopHead(w) \/ Wait(w) \/ Handled(w) \/ GiveUp(w) \/ AfterEvent(w) \/ Return(w)
    BY <2>3 DEF LoopHead, Wait, Handled, GiveUp, AfterEvent, Return
  <2> QED
    BY <1>2, <2>1, <2>2, <2>3 DEF WorkerStep
<1>3. ASSUME NEW t, Script(t)
      PROVE  Parsing(v)'
  <2> USE DEF Parsing, WorkerTypes
  <2>1. PICK w \in Workers : Start(t, w) \/ Terminate(t, w) \/ Send(t, w)
    BY <1>3 DEF Script
  <2>2. CASE Start(t, w)
    BY <2>2 DEF Start, MovesTo
  <2>3. CASE Terminate(t, w)
    BY <2>3 DEF Terminate, Woken
  <2>4. CASE Send(t, w)
    BY <2>4 DEF Send
  <2> QED
    BY <2>1, <2>2, <2>3, <2>4
<1>4. CASE VmHandles \/ VmShutdown \/ ForceStop
  BY <1>4 DEF VmHandles, VmShutdown, ForceStop, Parsing
<1>5. Vm \in Threads
  BY DEF Threads
<1> QED
  BY <1>1, <1>2, <1>3, <1>4, <1>5 DEF Next

LEMMA AnsweredKept ==
  ASSUME WorkerTypes, QueueTypes, Next, NEW v \in Workers, Answered(v)
  PROVE  Answered(v)'
<1> USE DEF queueVars, jobVars, runVars, flagVars, vmVars
<1>1. ASSUME NEW t \in Threads, Call(t) \/ (t = Vm /\ AbortRest)
      PROVE  Answered(v)'
  <2>1. /\ UNCHANGED quit
        /\ pc'[v] = pc[v] \/ (pc[v] = "asleep" /\ pc'[v] = "loop")
    BY <1>1, CallOfWorkers
  <2>2. CASE Push(t)
    <3>1. ASSUME NEW x, events' = [events EXCEPT ![x] = Append(@, Top(t).about)],
                 late' = [late EXCEPT ![x] = IF Gone(x) THEN @ + 1 ELSE @]
          PROVE  Answered(v)'
      <4>1. CASE x = v /\ Gone(v)
        <5>1. events[v] \in Seq(Names) /\ Len(events[v]) \in Nat /\ late[v] \in Nat
          BY DEF QueueTypes, WorkerTypes
        <5>2. Len(events'[v]) = Len(events[v]) + 1 /\ late'[v] = late[v] + 1
          BY <3>1, <4>1, <5>1 DEF QueueTypes, WorkerTypes
        <5> QED
          BY <2>1, <4>1, <5>1, <5>2 DEF Answered, Gone
      <4>2. CASE x = v /\ ~Gone(v)
        BY <2>1, <4>2 DEF Answered, Gone
      <4>3. CASE x # v
        BY <2>1, <3>1, <4>3 DEF Answered, QueueTypes, WorkerTypes
      <4> QED
        BY <4>1, <4>2, <4>3
    <3> QED
      BY <2>2, <3>1 DEF Push
  <2>3. CASE UNCHANGED queueVars
    BY <2>1, <2>3 DEF Answered
  <2>4. Push(t) \/ UNCHANGED queueVars
    BY <1>1 DEF Call, AddEvent, Broadcast, Tell, AfterHandleEvent, RemoveWorker, Join, JoinPool, jobFence, Wake,
                Sweep, Extras, AbortRest
  <2> QED
    BY <2>2, <2>3, <2>4
<1>2. ASSUME NEW w \in Workers, WorkerStep(w)
      PROVE  Answered(v)'
  <2> USE DEF MovesTo, Answered, WorkerTypes, QueueTypes, At
  <2>1. CASE TakeJob(w) \/ Dropped(w) \/ CreateParser(w) \/ AddWorker(w)
    BY <2>1 DEF TakeJob, Dropped, CreateParser, AddWorker
  <2>2. CASE TestAborting(w) \/ Parsed(w)
    BY <2>2 DEF TestAborting, Parsed, DropParser
  <2>3. CASE LoopHead(w) /\ v = w
    BY <2>3 DEF LoopHead, Leaves
  <2>4. CASE LoopHead(w) /\ v # w
    BY <2>4 DEF LoopHead
  <2>5. CASE Wait(w) \/ Handled(w) \/ GiveUp(w) \/ AfterEvent(w) \/ Return(w)
    BY <2>5 DEF Wait, Handled, GiveUp, AfterEvent, Return
  <2> QED
    BY <1>2, <2>1, <2>2, <2>3, <2>4, <2>5 DEF WorkerStep
<1>3. ASSUME NEW t, Script(t)
      PROVE  Answered(v)'
  <2> USE DEF Answered, WorkerTypes
  <2>1. PICK w \in Workers : Start(t, w) \/ Terminate(t, w) \/ Send(t, w)
    BY <1>3 DEF Script
  <2>2. CASE Start(t, w)
    BY <2>2 DEF Start, MovesTo
  <2>3. CASE Terminate(t, w)
    BY <2>3 DEF Terminate, Woken
  <2>4. CASE Send(t, w)
    BY <2>4 DEF Send
  <2> QED
    BY <2>1, <2>2, <2>3, <2>4
<1>4. CASE VmHandles \/ VmShutdown \/ ForceStop
  BY <1>4 DEF VmHandles, VmShutdown, ForceStop, Answered
<1>5. Vm \in Threads
  BY DEF Threads
<1> QED
  BY <1>1, <1>2, <1>3, <1>4, <1>5 DEF Next

LEMMA HasThreadKept ==
  ASSUME WorkerTypes, Next, NEW v \in Workers, HasThread(v)
  PROVE  HasThread(v)'
<1> USE DEF queueVars, jobVars, runVars, flagVars, vmVars
<1>1. ASSUME NEW t \in Threads, Call(t) \/ (t = Vm /\ AbortRest)
      PROVE  HasThread(v)'
  <2>1. pc'[v] = pc[v] \/ (pc[v] = "asleep" /\ pc'[v] = "loop")
    BY <1>1, CallOfWorkers
  <2>2. CASE Sweep(t)
    BY <2>1, <2>2 DEF Sweep, HasThread, WorkerTypes
  <2>3. CASE UNCHANGED place
    BY <2>1, <2>3 DEF HasThread
  <2>4. Sweep(t) \/ UNCHANGED place
    BY <1>1 DEF Call, AddEvent, Broadcast, Tell, Push, AfterHandleEvent, RemoveWorker, Join, JoinPool, jobFence,
                Wake, Extras, AbortRest
  <2> QED
    BY <2>2, <2>3, <2>4
<1>2. ASSUME NEW w \in Workers, WorkerStep(w)
      PROVE  HasThread(v)'
  <2> USE DEF MovesTo, HasThread, WorkerTypes, At
  <2>1. CASE TakeJob(w) \/ Dropped(w) \/ CreateParser(w) \/ AddWorker(w)
    BY <2>1 DEF TakeJob, Dropped, CreateParser, AddWorker
  <2>2. CASE TestAborting(w) \/ Parsed(w)
    BY <2>2 DEF TestAborting, Parsed, DropParser
  <2>3. CASE LoopHead(w) \/ Wait(w) \/ Handled(w) \/ GiveUp(w) \/ AfterEvent(w) \/ Return(w)
    BY <2>3 DEF LoopHead, Wait, Handled, GiveUp, AfterEvent, Return
  <2> QED
    BY <1>2, <2>1, <2>2, <2>3 DEF WorkerStep
<1>3. ASSUME NEW t, Script(t)
      PROVE  HasThread(v)'
  <2> USE DEF HasThread, WorkerTypes
  <2>1. PICK w \in Workers : Start(t, w) \/ Terminate(t, w) \/ Send(t, w)
    BY <1>3 DEF Script
  <2>2. CASE Start(t, w)
    BY <2>2 DEF Start, MovesTo
  <2>3. CASE Terminate(t, w)
    BY <2>3 DEF Terminate, Woken
  <2>4. CASE Send(t, w)
    BY <2>4 DEF Send
  <2> QED
    BY <2>1, <2>2, <2>3, <2>4
<1>4. CASE VmHandles \/ VmShutdown \/ ForceStop
  BY <1>4 DEF VmHandles, VmShutdown, ForceStop, HasThread
<1>5. Vm \in Threads
  BY DEF Threads
<1> QED
  BY <1>1, <1>2, <1>3, <1>4, <1>5 DEF Next

\* The stack of the thread that stops the pool.
LEMMA MainIdleKept ==
  ASSUME StackTypes, Next, MainIdle
  PROVE  MainIdle'
<1> USE DEF queueVars, jobVars, runVars, flagVars, vmVars
<1>1. Main \in Threads /\ Main # Vm /\ Main \notin Workers
  BY WorkersAssumption DEF Threads
<1>2. ASSUME NEW t, t # Main, NEW calls, GoesOn(t, calls) \/ Begins(t, calls)
      PROVE  todo'[Main] = todo[Main]
  BY <1>1, <1>2 DEF GoesOn, Begins, StackTypes
<1>3. ASSUME NEW t \in Threads, Call(t)
      PROVE  MainIdle'
  <2>1. UNCHANGED stopFlag /\ todo[t] # <<>> /\ \E calls : GoesOn(t, calls)
    BY <1>3 DEF Call, AddEvent, Broadcast, Tell, Push, AfterHandleEvent, RemoveWorker, Join, JoinPool, jobFence,
                Wake, Sweep, Extras, Doing
  <2> QED
    BY <1>2, <2>1 DEF MainIdle
<1>4. ASSUME NEW w \in Workers, WorkerStep(w)
      PROVE  MainIdle'
  <2>1. UNCHANGED stopFlag /\ (UNCHANGED todo \/ \E calls : Begins(w, calls))
    BY <1>4 DEF WorkerStep, TakeJob, Dropped, CreateParser, AddWorker, TestAborting, Parsed, LoopHead, Wait, Handled,
                GiveUp, AfterEvent, Return
  <2> QED
    BY <1>1, <1>2, <2>1 DEF MainIdle
<1>5. ASSUME NEW t \in Workers \union {Vm}, Script(t)
      PROVE  MainIdle'
  <2>1. UNCHANGED stopFlag /\ (UNCHANGED todo \/ \E calls : Begins(t, calls))
    BY <1>5 DEF Script, Start, Terminate, Send
  <2> QED
    BY <1>1, <1>2, <2>1 DEF MainIdle
<1>6. CASE VmHandles \/ VmShutdown \/ AbortRest
  <2>1. UNCHANGED stopFlag /\ \E calls : GoesOn(Vm, calls) \/ Begins(Vm, calls)
    BY <1>6 DEF VmHandles, VmShutdown, AbortRest
  <2> QED
    BY <1>1, <1>2, <2>1 DEF MainIdle
<1>7. CASE ForceStop
  BY <1>7 DEF ForceStop, MainIdle
<1> QED
  BY <1>3, <1>4, <1>5, <1>6, <1>7 DEF Next

(***************************************************************************)
(* The fences of each worker.                                              *)
(***************************************************************************)
\* A worker that none is pending of gets one.
LEMMA FenceComes ==
  ASSUME StackTypes, NEW t \in Threads, todo[t] # <<>>, NEW calls \in Seq(Calls), GoesOn(t, calls),
         NEW w, ~FencePending(w),
         \A i, j \in 1..Len(calls) : IsFence(calls[i], w) /\ IsFence(calls[j], w) => i = j
  PROVE  OneFence(w)'
<1>1. \A u \in Threads \ {t} : FencesAt(u, w)' = {}
  BY StackMoves DEF FencesAt, FencePending
<1>2. PICK k \in Nat : \A i \in 1..Len(todo'[t]) :
               IF i + k \in 1..Len(calls)
                 THEN todo'[t][i] = calls[i + k]
                 ELSE /\ i + k - Len(calls) + 1 \in 2..Len(todo[t])
                      /\ todo'[t][i] = todo[t][i + k - Len(calls) + 1]
  BY StackMoves
<1>3. \A i \in FencesAt(t, w)' : i \in Nat /\ i + k \in 1..Len(calls) /\ IsFence(calls[i + k], w)
  <2> SUFFICES ASSUME NEW i \in FencesAt(t, w)'
               PROVE  i \in Nat /\ i + k \in 1..Len(calls) /\ IsFence(calls[i + k], w)
    OBVIOUS
  <2>1. i \in 1..Len(todo'[t]) /\ IsFence(todo'[t][i], w)
    BY DEF FencesAt, IsFence
  <2>2. Len(todo'[t]) \in Nat /\ Len(todo[t]) \in Nat /\ Len(calls) \in Nat
    BY StackMoves DEF StackTypes
  <2>3. ASSUME i + k \notin 1..Len(calls) PROVE FALSE
    <3>1. i + k - Len(calls) + 1 \in 2..Len(todo[t]) /\ todo'[t][i] = todo[t][i + k - Len(calls) + 1]
      BY <1>2, <2>1, <2>3
    <3>2. i + k - Len(calls) + 1 \in FencesAt(t, w)
      BY <2>1, <2>2, <3>1 DEF FencesAt
    <3> QED
      BY <3>2 DEF FencePending
  <2> QED
    BY <1>2, <2>1, <2>2, <2>3
<1>4. ASSUME NEW u \in Threads, NEW v \in Threads, NEW i \in FencesAt(u, w)', NEW j \in FencesAt(v, w)'
      PROVE  u = v /\ i = j
  <2>1. u = t /\ v = t
    BY <1>1, <1>4
  <2>2. i \in Nat /\ j \in Nat /\ i + k = j + k
    BY <1>3, <2>1
  <2> QED
    BY <2>1, <2>2
<1> QED
  BY <1>4 DEF OneFence

\* A worker whose job stays where it is, in a step that brings none.
LEMMA FencedOnceQuietly ==
  ASSUME NEW v \in Workers, FencedOnce(v), AllQuiet, place'[v] = place[v], fences'[v] = fences[v],
         pc[v] = "ended" => pc'[v] = "ended"
  PROVE  FencedOnce(v)'
BY DEF FencedOnce, AllQuiet, Quiet, Unfenced

\* The section that fences the jobs in the queue of the pool.
LEMMA SweepFences ==
  ASSUME WorkerTypes, StackTypes, NEW t \in Threads, Sweep(t)
  PROVE  /\ StackTypes'
         /\ \A v \in Workers : FencedOnce(v) => FencedOnce(v)'
<1> USE DEF queueVars, jobVars, runVars, flagVars, vmVars
<1> DEFINE Q == {v \in JobsOf(Top(t).worker) : place[v] = "queued"}
<1>1. todo[t] # <<>>
  BY DEF Sweep, Doing
<1>2. Q \subseteq Workers /\ Cardinality(Q) \in Nat
  <2>1. Q \subseteq Workers
    BY DEF JobsOf
  <2> HIDE DEF Q
  <2> QED
    BY <2>1, WorkersAssumption, FS_Subset, FS_CardinalityType
<1>3. /\ \A v \in Workers : pc'[v] = pc[v] \/ (pc[v] = "asleep" /\ pc'[v] = "loop")
      /\ place' = [v \in Workers |-> IF v \in Q THEN "swept" ELSE place[v]]
      /\ UNCHANGED fences
  BY CallOfWorkers DEF Sweep, Call
<1>4. PICK q \in SetToSeqs(Q) :
         GoesOn(t, [i \in 1..Cardinality(Q) |-> Frame("fence", q[i])] \o <<unlockPool>>)
  BY DEF Sweep
<1> HIDE DEF Q
<1> DEFINE n == Cardinality(Q)
           fs == [i \in 1..n |-> Frame("fence", q[i])]
           c == fs \o <<unlockPool>>
<1>5. /\ q \in [1..n -> Q]
      /\ \A i, j \in 1..n : i # j => q[i] # q[j]
  BY <1>4 DEF SetToSeqs
<1>6. \A i \in 1..n : fs[i] \in Calls /\ fs[i].op = "fence" /\ fs[i].worker = q[i]
  <2>1. "fence" \in Ops /\ Q \subseteq Names
    BY <1>2 DEF Ops, Names, Threads
  <2> QED
    BY <1>5, <2>1, FrameIsCall
<1>7. n \in Nat /\ fs \in Seq(Calls) /\ Len(fs) = n
  BY <1>2, <1>6
<1> HIDE DEF n, fs
<1>8. unlockPool \in Calls /\ unlockPool.op # "fence"
  BY UnlockIsCall DEF Unlocks, unlockPool, Frame
<1>9. /\ c \in Seq(Calls) /\ Len(c) = n + 1
      /\ \A i \in 1..n : c[i] = fs[i]
      /\ c[n + 1] = unlockPool
  BY <1>7, <1>8
<1>10. GoesOn(t, c)
  BY <1>4 DEF n, fs
<1> HIDE DEF c
<1>11. \A w \in Workers, i \in 1..Len(c) : IsFence(c[i], w) => i \in 1..n /\ q[i] = w
  <2>1. ASSUME NEW w \in Workers, NEW i \in 1..Len(c), IsFence(c[i], w)
        PROVE  i \in 1..n /\ q[i] = w
    <3>1. i \in 1..n
      BY <1>7, <1>8, <1>9, <2>1 DEF IsFence
    <3> QED
      BY <1>6, <1>9, <2>1, <3>1 DEF IsFence
  <2> QED
    BY <2>1
<1>12. ASSUME NEW v \in Workers, FencedOnce(v)
       PROVE  FencedOnce(v)'
  <2>1. place'[v] = IF v \in Q THEN "swept" ELSE place[v]
    BY <1>3
  <2>2. CASE v \notin Q
    <3>1. NoFenceIn(c, v)
      BY <1>5, <1>11, <2>2 DEF NoFenceIn
    <3>2. Quiet(v)
      BY <1>1, <1>9, <1>10, <3>1, FencesMove DEF Quiet
    <3> QED
      BY <1>3, <1>12, <2>1, <2>2, <3>2 DEF FencedOnce, Quiet, Unfenced
  <2>3. CASE v \in Q
    <3>1. Unfenced(v) /\ place[v] = "queued"
      BY <1>12, <2>3 DEF FencedOnce, Q
    <3>2. \A i, j \in 1..Len(c) : IsFence(c[i], v) /\ IsFence(c[j], v) => i = j
      BY <1>5, <1>11
    <3>3. OneFence(v)'
      BY <1>1, <1>9, <1>10, <3>1, <3>2, FenceComes DEF Unfenced
    <3>4. place'[v] = "swept" /\ fences'[v] = 0
      BY <1>3, <2>1, <2>3, <3>1 DEF Unfenced
    <3> QED
      BY <3>3, <3>4 DEF FencedOnce
  <2> QED
    BY <2>2, <2>3
<1>13. StackTypes'
  BY <1>1, <1>9, <1>10, StackMoves
<1> QED
  BY <1>12, <1>13

\* A call of jobFence().
LEMMA JobFenceFences ==
  ASSUME WorkerTypes, QueueTypes, StackTypes, NEW t \in Threads, jobFence(t)
  PROVE  /\ StackTypes'
         /\ \A v \in Workers : FencedOnce(v) => FencedOnce(v)'
<1> DEFINE w == Top(t).worker
           c == <<Frame("post", w), Frame("wake", w)>>
<1>1. todo[t] # <<>> /\ GoesOn(t, c) /\ IsFence(Top(t), w) /\ fences' = [fences EXCEPT ![w] = @ + 1] /\ UNCHANGED <<place, pc>>
  BY DEF jobFence, Doing, Top, IsFence, runVars
<1>2. w \in Names
  BY <1>1, TopIsCall DEF Calls
<1>3. c \in Seq(Calls) /\ \A v : NoFenceIn(c, v)
  <2>1. "post" \in Ops /\ "wake" \in Ops
    BY DEF Ops
  <2>2. /\ Frame("post", w) \in Calls /\ Frame("wake", w) \in Calls
        /\ \A v : ~IsFence(Frame("post", w), v) /\ ~IsFence(Frame("wake", w), v)
    BY <1>2, <2>1, FrameIsCall DEF IsFence
  <2> QED
    BY <2>2, FewCalls
<1>4. 1 \in FencesAt(t, w)
  BY <1>1 DEF FencesAt, Top, StackTypes
<1> HIDE DEF c, w
<1>5. StackTypes'
  BY <1>1, <1>3, StackMoves
<1>6. ASSUME NEW v \in Workers, FencedOnce(v)
      PROVE  FencedOnce(v)'
  <2>1. /\ FencePending(v)' => FencePending(v)
        /\ OneFence(v) => OneFence(v)' /\ (IsFence(Top(t), v) => ~FencePending(v)')
    BY <1>1, <1>3, FencesMove
  <2>2. CASE v = w
    <3>1. FencePending(v)
      BY <1>4, <2>2 DEF FencePending
    <3>2. fences'[v] = fences[v] + 1
      BY <1>1, <2>2 DEF WorkerTypes
    <3> QED
      BY <1>1, <1>6, <2>1, <2>2, <3>1, <3>2 DEF FencedOnce, Unfenced
  <2>3. CASE v # w
    <3>1. fences'[v] = fences[v]
      BY <1>1, <2>3 DEF WorkerTypes
    <3> QED
      BY <1>1, <1>6, <2>1, <3>1 DEF FencedOnce, Unfenced
  <2> QED
    BY <2>2, <2>3
<1> QED
  BY <1>5, <1>6

\* The thread of a worker ends, and begins its call of jobFence().
LEMMA ReturnFences ==
  ASSUME WorkerTypes, StackTypes, NEW w \in Workers, HasThread(w), Return(w)
  PROVE  /\ StackTypes'
         /\ \A v \in Workers : FencedOnce(v) => FencedOnce(v)'
<1> DEFINE c == <<Frame("fence", w)>>
<1>1. /\ w \in Threads /\ w \in Names /\ todo[w] = <<>> /\ Begins(w, c) /\ pc[w] = "leave"
      /\ pc' = [pc EXCEPT ![w] = "ended"] /\ UNCHANGED <<place, fences>>
  BY DEF Return, At, MovesTo, Threads, Names, jobVars
<1>2. Frame("fence", w) \in Calls /\ Frame("fence", w).op = "fence" /\ Frame("fence", w).worker = w
  BY <1>1, FrameIsCall DEF Ops
<1>3. c \in Seq(Calls) /\ c # <<>> /\ Head(c) = Frame("fence", w) /\ \A v : NoFenceIn(Tail(c), v)
  BY <1>2 DEF NoFenceIn
<1>4. \A v \in Workers : v # w => ~IsFence(Head(c), v)
  BY <1>2, <1>3 DEF IsFence
<1> HIDE DEF c
<1>5. StackTypes'
  BY <1>1, <1>3, FenceBegins
<1>6. ASSUME NEW v \in Workers, FencedOnce(v)
      PROVE  FencedOnce(v)'
  <2>1. CASE v # w
    <3>1. (FencePending(v)' => FencePending(v)) /\ (OneFence(v) => OneFence(v)')
      BY <1>1, <1>3, <1>4, <2>1, FenceBegins
    <3>2. pc'[v] = pc[v]
      BY <1>1, <2>1 DEF WorkerTypes
    <3> QED
      BY <1>1, <1>6, <3>1, <3>2 DEF FencedOnce, Unfenced
  <2>2. CASE v = w /\ place[w] # "extra"
    <3>1. place[w] = "pool"
      BY <1>1, <2>2 DEF HasThread, WorkerTypes
    <3>2. Unfenced(w)
      BY <1>1, <1>6, <2>2, <3>1 DEF FencedOnce
    <3>3. OneFence(w)'
      BY <1>1, <1>3, <3>2, FenceBegins DEF Unfenced
    <3>4. pc'[w] = "ended" /\ place'[w] = "pool" /\ fences'[w] = 0
      BY <1>1, <3>1, <3>2 DEF WorkerTypes, Unfenced
    <3> QED
      BY <2>2, <3>3, <3>4 DEF FencedOnce
  <2>3. CASE v = w /\ place[w] = "extra"
    BY <1>1, <2>3 DEF FencedOnce
  <2> QED
    BY <2>1, <2>2, <2>3
<1> QED
  BY <1>5, <1>6

\* A script starts a worker; when the pool was stopped its job is fenced.
LEMMA StartFences ==
  ASSUME WorkerTypes, StackTypes, NEW t \in Workers \union {Vm}, NEW w \in Workers, Start(t, w)
  PROVE  /\ StackTypes'
         /\ \A v \in Workers : FencedOnce(v) => FencedOnce(v)'
<1>1. t \in Threads /\ w \in Names /\ todo[t] = <<>> /\ place[w] = "new" /\ UNCHANGED fences
  BY DEF Start, RunsScript, Threads, Names
<1>2. CASE stopFlag
  <2> DEFINE c == <<Frame("fence", w), unlockPool>>
  <2>1. Begins(t, c) /\ place' = [place EXCEPT ![w] = "swept"] /\ UNCHANGED pc
    BY <1>2 DEF Start
  <2>2. /\ Frame("fence", w) \in Calls /\ Frame("fence", w).op = "fence" /\ Frame("fence", w).worker = w
        /\ unlockPool \in Calls /\ unlockPool.op # "fence"
    BY <1>1, FrameIsCall, UnlockIsCall DEF Ops, Unlocks, unlockPool, Frame
  <2>3. c \in Seq(Calls) /\ c # <<>> /\ Head(c) = Frame("fence", w) /\ Tail(c) = <<unlockPool>>
    BY <2>2
  <2>4. \A v : NoFenceIn(Tail(c), v)
    BY <2>2, <2>3 DEF NoFenceIn, IsFence
  <2>5. \A v \in Workers : v # w => ~IsFence(Head(c), v)
    BY <2>2, <2>3 DEF IsFence
  <2> HIDE DEF c
  <2>6. StackTypes'
    BY <1>1, <2>1, <2>3, <2>4, FenceBegins
  <2>7. ASSUME NEW v \in Workers, FencedOnce(v)
        PROVE  FencedOnce(v)'
    <3>1. CASE v # w
      <4>1. (FencePending(v)' => FencePending(v)) /\ (OneFence(v) => OneFence(v)')
        BY <1>1, <2>1, <2>3, <2>4, <2>5, <3>1, FenceBegins
      <4>2. place'[v] = place[v]
        BY <2>1, <3>1 DEF WorkerTypes
      <4> QED
        BY <1>1, <2>1, <2>7, <4>1, <4>2 DEF FencedOnce, Unfenced
    <3>2. CASE v = w
      <4>1. Unfenced(w)
        BY <1>1, <2>7, <3>2 DEF FencedOnce
      <4>2. OneFence(w)'
        BY <1>1, <2>1, <2>3, <2>4, <4>1, FenceBegins DEF Unfenced
      <4>3. place'[w] = "swept" /\ fences'[w] = 0
        BY <1>1, <2>1, <4>1 DEF WorkerTypes, Unfenced
      <4> QED
        BY <3>2, <4>2, <4>3 DEF FencedOnce
    <3> QED
      BY <3>1, <3>2
  <2> QED
    BY <2>6, <2>7
<1>3. CASE ~stopFlag
  <2>1. /\ UNCHANGED todo
        /\ \/ place' = [place EXCEPT ![w] = "queued"] /\ UNCHANGED pc
           \/ place' = [place EXCEPT ![w] = "extra"] /\ pc' = [pc EXCEPT ![w] = "begin"]
    BY <1>3 DEF Start, MovesTo
  <2>2. StackTypes' /\ \A v : (FencePending(v)' <=> FencePending(v)) /\ (OneFence(v)' <=> OneFence(v))
    BY <2>1 DEF StackTypes, FencePending, OneFence, FencesAt, IsFence
  <2>3. ASSUME NEW v \in Workers, FencedOnce(v)
        PROVE  FencedOnce(v)'
    <3>1. CASE v # w
      <4>1. place'[v] = place[v] /\ pc'[v] = pc[v]
        BY <2>1, <3>1 DEF WorkerTypes
      <4> QED
        BY <1>1, <2>2, <2>3, <4>1 DEF FencedOnce, Unfenced
    <3>2. CASE v = w
      <4>1. Unfenced(w) /\ OneFence(w)
        BY <1>1, <2>3, <3>2 DEF FencedOnce
      <4>2. Unfenced(w)' /\ OneFence(w)'
        BY <1>1, <2>2, <4>1 DEF Unfenced
      <4>3. place'[w] = "queued" \/ place'[w] = "extra"
        BY <2>1 DEF WorkerTypes
      <4> QED
        BY <3>2, <4>2, <4>3 DEF FencedOnce, Unfenced
    <3> QED
      BY <3>1, <3>2
  <2> QED
    BY <2>2, <2>3
<1> QED
  BY <1>2, <1>3

\* A thread of the pool takes a job.
LEMMA TakeJobKeepsFences ==
  ASSUME WorkerTypes, StackTypes, NEW w \in Workers, TakeJob(w)
  PROVE  /\ StackTypes'
         /\ \A v \in Workers : FencedOnce(v) => FencedOnce(v)'
<1>1. /\ place[w] = "queued" /\ place' = [place EXCEPT ![w] = "pool"] /\ pc' = [pc EXCEPT ![w] = "begin"]
      /\ UNCHANGED <<fences, todo>>
  BY DEF TakeJob, MovesTo
<1>2. StackTypes' /\ \A v : (FencePending(v)' <=> FencePending(v)) /\ (OneFence(v)' <=> OneFence(v))
  BY <1>1 DEF StackTypes, FencePending, OneFence, FencesAt, IsFence
<1>3. ASSUME NEW v \in Workers, FencedOnce(v)
      PROVE  FencedOnce(v)'
  <2>1. CASE v # w
    <3>1. place'[v] = place[v] /\ pc'[v] = pc[v]
      BY <1>1, <2>1 DEF WorkerTypes
    <3> QED
      BY <1>1, <1>2, <1>3, <3>1 DEF FencedOnce, Unfenced
  <2>2. CASE v = w
    <3>1. Unfenced(w) /\ OneFence(w)
      BY <1>1, <1>3, <2>2 DEF FencedOnce
    <3>2. Unfenced(w)' /\ OneFence(w)'
      BY <1>1, <1>2, <3>1 DEF Unfenced
    <3>3. place'[w] = "pool"
      BY <1>1 DEF WorkerTypes
    <3> QED
      BY <2>2, <3>2, <3>3 DEF FencedOnce, Unfenced
  <2> QED
    BY <2>1, <2>2
<1> QED
  BY <1>2, <1>3

\* Every other step brings no jobFence(), and leaves each job where it is.
LEMMA OthersKeepFences ==
  ASSUME WorkerTypes, QueueTypes, StackTypes, MainIdle,
         \/ \E t \in Threads : Call(t) /\ ~Sweep(t) /\ ~jobFence(t)
         \/ \E w \in Workers : WorkerStep(w) /\ ~Return(w) /\ ~TakeJob(w)
         \/ \E t \in Workers \union {Vm}, w \in Workers : Terminate(t, w) \/ Send(t, w)
         \/ VmHandles \/ VmShutdown \/ AbortRest \/ ForceStop
  PROVE  /\ StackTypes'
         /\ \A v \in Workers : FencedOnce(v) => FencedOnce(v)'
<1> USE DEF queueVars, jobVars, runVars, flagVars, vmVars
<1>0. Vm \in Threads
  BY DEF Threads
<1>1. StackTypes' /\ AllQuiet
  <2>1. ASSUME NEW t \in Threads, Call(t), ~Sweep(t)
        PROVE  StackTypes' /\ AllQuiet
    BY <2>1, CallGoesOn, QuietGoesOn
  <2>2. ForceStop => todo[Main] = <<>>
    BY DEF ForceStop, MainIdle
  <2> QED
    BY <2>1, <2>2, ThreadsBegin
<1>2. /\ UNCHANGED <<place, fences>>
      /\ \A v \in Workers : pc[v] = "ended" => pc'[v] = "ended"
  <2>1. ASSUME NEW t \in Threads, Call(t), ~Sweep(t), ~jobFence(t)
        PROVE  /\ UNCHANGED <<place, fences>>
               /\ \A v \in Workers : pc[v] = "ended" => pc'[v] = "ended"
    <3>1. UNCHANGED <<place, fences>>
      BY <2>1 DEF Call, AddEvent, Broadcast, Tell, Push, AfterHandleEvent, RemoveWorker, Join, JoinPool, Wake, Extras
    <3> QED
      BY <2>1, <3>1, CallOfWorkers
  <2>2. CASE AbortRest
    <3>1. UNCHANGED <<place, fences>>
      BY <2>2 DEF AbortRest
    <3> QED
      BY <1>0, <2>2, <3>1, CallOfWorkers
  <2>3. ASSUME NEW w \in Workers, WorkerStep(w), ~Return(w), ~TakeJob(w)
        PROVE  /\ UNCHANGED <<place, fences>>
               /\ \A v \in Workers : pc[v] = "ended" => pc'[v] = "ended"
    <3> USE DEF MovesTo, WorkerTypes, At
    <3>1. CASE Dropped(w) \/ CreateParser(w) \/ AddWorker(w)
      BY <3>1 DEF Dropped, CreateParser, AddWorker
    <3>2. CASE TestAborting(w) \/ Parsed(w)
      BY <3>2 DEF TestAborting, Parsed, DropParser
    <3>3. CASE LoopHead(w) \/ Wait(w) \/ Handled(w) \/ GiveUp(w) \/ AfterEvent(w)
      BY <3>3 DEF LoopHead, Wait, Handled, GiveUp, AfterEvent
    <3> QED
      BY <2>3, <3>1, <3>2, <3>3 DEF WorkerStep
  <2>4. ASSUME NEW t, NEW w \in Workers, Terminate(t, w) \/ Send(t, w)
        PROVE  /\ UNCHANGED <<place, fences>>
               /\ \A v \in Workers : pc[v] = "ended" => pc'[v] = "ended"
    BY <2>4 DEF Terminate, Send, Woken
  <2>5. CASE VmHandles \/ VmShutdown \/ ForceStop
    BY <2>5 DEF VmHandles, VmShutdown, ForceStop
  <2> QED
    BY <2>1, <2>2, <2>3, <2>4, <2>5
<1> QED
  BY <1>1, <1>2, FencedOnceQuietly

LEMMA FencesKept ==
  ASSUME WorkerTypes, QueueTypes, StackTypes, MainIdle, \A v \in Workers : HasThread(v), Next
  PROVE  /\ StackTypes'
         /\ \A v \in Workers : FencedOnce(v) => FencedOnce(v)'
<1>1. ASSUME NEW t \in Threads, Call(t)
      PROVE  /\ StackTypes'
             /\ \A v \in Workers : FencedOnce(v) => FencedOnce(v)'
  BY <1>1, SweepFences, JobFenceFences, OthersKeepFences
<1>2. ASSUME NEW w \in Workers, WorkerStep(w)
      PROVE  /\ StackTypes'
             /\ \A v \in Workers : FencedOnce(v) => FencedOnce(v)'
  BY <1>2, ReturnFences, TakeJobKeepsFences, OthersKeepFences
<1>3. ASSUME NEW t \in Workers \union {Vm}, Script(t)
      PROVE  /\ StackTypes'
             /\ \A v \in Workers : FencedOnce(v) => FencedOnce(v)'
  <2>1. PICK w \in Workers : Start(t, w) \/ Terminate(t, w) \/ Send(t, w)
    BY <1>3 DEF Script
  <2> QED
    BY <2>1, StartFences, OthersKeepFences
<1>4. CASE VmHandles \/ VmShutdown \/ AbortRest \/ ForceStop
  BY <1>4, OthersKeepFences
<1> QED
  BY <1>1, <1>2, <1>3, <1>4 DEF Next

(***************************************************************************)
(* The theorems.                                                           *)
(***************************************************************************)
LEMMA WorkersInvInit == Init => WorkersInv
<1> SUFFICES ASSUME Init PROVE WorkersInv
  OBVIOUS
<1>1. WorkerTypes
  BY DEF Init, WorkerTypes, PcValues
<1>2. QueueTypes
  <2>1. <<>> \in Seq(Names) /\ <<>> \in Seq(Workers) /\ Plain \in Names
    BY DEF Names
  <2> QED
    BY <2>1 DEF Init, QueueTypes
<1>3. \A t \in Threads : todo[t] = <<>>
  BY DEF Init
<1>4. StackTypes /\ MainIdle
  BY <1>3 DEF Init, StackTypes, MainIdle, Threads
<1>5. ASSUME NEW w \in Workers
      PROVE  Parsing(w) /\ Answered(w) /\ HasThread(w) /\ FencedOnce(w)
  <2>1. Parsing(w) /\ Answered(w) /\ HasThread(w)
    BY DEF Init, Parsing, Answered, HasThread
  <2>2. \A t \in Threads : FencesAt(t, w) = {}
    BY <1>3 DEF FencesAt
  <2>3. FencedOnce(w)
    BY <2>2 DEF Init, FencedOnce, OneFence, Unfenced, FencePending
  <2> QED
    BY <2>1, <2>3
<1> QED
  BY <1>1, <1>2, <1>4, <1>5 DEF WorkersInv

LEMMA WorkersInvKept == WorkersInv /\ [Next]_vars => WorkersInv'
<1> SUFFICES ASSUME WorkersInv, [Next]_vars PROVE WorkersInv'
  OBVIOUS
<1>1. CASE Next
  <2>1. WorkerTypes' /\ QueueTypes' /\ MainIdle'
    BY <1>1, WorkerTypesKept, QueueTypesKept, MainIdleKept DEF WorkersInv
  <2>2. StackTypes' /\ \A w \in Workers : FencedOnce(w)'
    BY <1>1, FencesKept DEF WorkersInv
  <2>3. \A w \in Workers : Parsing(w)' /\ Answered(w)' /\ HasThread(w)'
    BY <1>1, ParsingKept, AnsweredKept, HasThreadKept DEF WorkersInv
  <2> QED
    BY <2>1, <2>2, <2>3 DEF WorkersInv
<1>2. CASE UNCHANGED vars
  BY <1>2 DEF WorkersInv, vars, queueVars, jobVars, runVars, flagVars, vmVars, WorkerTypes, QueueTypes, StackTypes,
       MainIdle, Parsing, Answered, HasThread, FencedOnce, OneFence, Unfenced, FencePending, FencesAt, IsFence
<1> QED
  BY <1>1, <1>2

THEOREM WorkersInvHolds == Spec => []WorkersInv
  BY WorkersInvInit, WorkersInvKept, PTL DEF Spec

\* However ASWorker::terminate() meets ASWorker::execute(), a worker that runs
\* its parser after it was terminated has told the parser to stop: execute()
\* stores the parser before it tests threadAborting, terminate() sets
\* threadAborting before it reads the parser.
THEOREM ParserHearsTerminate == Spec => []TerminateStopsParser
<1>1. WorkersInv => TerminateStopsParser
  BY DEF WorkersInv, Parsing, TerminateStopsParser
<1> QED
  BY <1>1, WorkersInvHolds, PTL

\* When execute() has returned by the end of its loop, every event that
\* ASWorker::addEvent() queued before has been answered: what is left are
\* events that passed the test of threadAborting and were queued later.
THEOREM TheLoopAnswersAll == Spec => []AcceptedAnswered
<1>1. WorkersInv => AcceptedAnswered
  BY DEF WorkersInv, Answered, AcceptedAnswered, Ended
<1> QED
  BY <1>1, WorkersInvHolds, PTL

\* jobFence() is called at most once for a worker of the pool, whether its
\* thread ends, ThreadPool::forceStop() or stopping the jobs of another worker
\* finds it in the queue, or addJob() comes after the stop.
THEOREM OneFenceInThePool == Spec => []PoolWorkerFencedOnce
<1>1. WorkersInv => PoolWorkerFencedOnce
  BY DEF WorkersInv, WorkerTypes, FencedOnce, PoolWorkerFencedOnce
<1> QED
  BY <1>1, WorkersInvHolds, PTL

(***************************************************************************)
(* The mutexes.  A mutex has a rank, and a call a level: the rank of the   *)
(* mutex it takes first, or that of the lowest one that the calls it makes *)
(* may take.  Threads take mutexes by rank: below a call no mutex is held  *)
(* whose rank is above its level.                                          *)
(***************************************************************************)
Rank(m) == IF m = unlockQueue THEN 0 ELSE IF m = unlockWorkers THEN 1 ELSE 2
Level(o) ==
    IF o \in {"join", "joinpool"} THEN -1
    ELSE IF o \in {"post", "fence"} THEN 0
    ELSE IF o \in {"broadcast", "tell", "after", "remove"} THEN 1
    ELSE IF o = "sweep" THEN 2 ELSE 3

Ordered(s) == \A i, j \in 1..Len(s) : i < j /\ s[j] \in Unlocks => Rank(s[j]) <= Level(s[i].op)
OrderInv == ~Entangled => \A t \in Threads : Ordered(todo[t])

\* Calls that t may go on with, or begin: the mutexes that they give back are
\* free, and they keep to the order.
Free(t, calls)  == \A i \in 1..Len(calls) : calls[i] \in Unlocks => MayLock(t, calls[i])
Above(t, calls) == todo[t] # <<>> => \A i \in 1..Len(calls) : Level(Top(t).op) <= Level(calls[i].op)
Fits(t, calls) ==
    /\ calls \in Seq(Calls) /\ Free(t, calls)
    /\ ~Entangled' => Ordered(calls) /\ Above(t, calls)

Steps(t, calls) == \/ todo[t] # <<>> /\ GoesOn(t, calls)
                   \/ todo[t] = <<>> /\ Begins(t, calls)
Stacks == UNCHANGED todo \/ \E t \in Threads : \E calls : Steps(t, calls) /\ Fits(t, calls)

LEMMA UnlocksDiffer ==
  /\ unlockQueue.op = "unlockQueue" /\ unlockWorkers.op = "unlockWorkers" /\ unlockPool.op = "unlockPool"
  /\ Rank(unlockQueue) = 0 /\ Rank(unlockWorkers) = 1 /\ Rank(unlockPool) = 2
  /\ \A m \in Unlocks : m.op \in {"unlockQueue", "unlockWorkers", "unlockPool"} /\ Level(m.op) = 3
                        /\ Rank(m) \in 0..2
<1>1. unlockQueue.op = "unlockQueue" /\ unlockWorkers.op = "unlockWorkers" /\ unlockPool.op = "unlockPool"
  BY DEF unlockQueue, unlockWorkers, unlockPool, Frame
<1>2. unlockQueue # unlockWorkers /\ unlockQueue # unlockPool /\ unlockWorkers # unlockPool
  BY <1>1
<1> QED
  BY <1>1, <1>2 DEF Rank, Level, Unlocks

LEMMA LevelsAreIntegers == \A o, m : Level(o) \in -1..3 /\ Rank(m) \in 0..2
BY DEF Level, Rank

\* A thread goes on, and keeps to the order.
LEMMA OrderGoesOn ==
  ASSUME StackTypes, NEW t \in Threads, todo[t] # <<>>, NEW calls \in Seq(Calls), GoesOn(t, calls),
         Ordered(calls), Ordered(todo[t]), Above(t, calls)
  PROVE  Ordered(todo'[t])
<1>1. PICK k \in Nat : \A i \in 1..Len(todo'[t]) :
               IF i + k \in 1..Len(calls)
                 THEN todo'[t][i] = calls[i + k]
                 ELSE /\ i + k - Len(calls) + 1 \in 2..Len(todo[t])
                      /\ todo'[t][i] = todo[t][i + k - Len(calls) + 1]
  BY StackMoves
<1>2. /\ Len(calls) \in Nat /\ Len(todo[t]) \in Nat \ {0} /\ Len(todo'[t]) \in Nat
      /\ Top(t) = todo[t][1]
  <2>1. StackTypes'
    BY StackMoves
  <2> QED
    BY <2>1, TopIsCall DEF StackTypes
<1> SUFFICES ASSUME NEW i \in 1..Len(todo'[t]), NEW j \in 1..Len(todo'[t]), i < j, todo'[t][j] \in Unlocks
             PROVE  Rank(todo'[t][j]) <= Level(todo'[t][i].op)
  BY DEF Ordered
<1> DEFINE p == i + k
           q == j + k
           c == Len(calls)
<1>3. p \in Nat \ {0} /\ q \in Nat \ {0} /\ p < q /\ c \in Nat
  BY <1>2
<1>7. IF p \in 1..c THEN todo'[t][i] = calls[p]
      ELSE p - c + 1 \in 2..Len(todo[t]) /\ todo'[t][i] = todo[t][p - c + 1]
  BY <1>1
<1>8. IF q \in 1..c THEN todo'[t][j] = calls[q]
      ELSE q - c + 1 \in 2..Len(todo[t]) /\ todo'[t][j] = todo[t][q - c + 1]
  BY <1>1
<1> HIDE DEF p, q
<1>4. CASE q \in 1..c
  <2>1. p \in 1..c
    BY <1>3, <1>7, <1>8, <1>4
  <2> QED
    BY <1>3, <1>7, <1>8, <1>4, <2>1 DEF Ordered
<1>5. CASE q \notin 1..c /\ p \in 1..c
  <2>1. /\ q - c + 1 \in 1..Len(todo[t]) /\ 1 < q - c + 1 /\ 1 \in 1..Len(todo[t])
        /\ todo'[t][j] = todo[t][q - c + 1]
    <3>1. q - c + 1 \in 2..Len(todo[t]) /\ todo'[t][j] = todo[t][q - c + 1]
      BY <1>5, <1>8
    <3> QED
      BY <1>2, <3>1
  <2>2. Rank(todo'[t][j]) <= Level(Top(t).op)
    BY <1>2, <2>1 DEF Ordered
  <2>3. Level(Top(t).op) <= Level(todo'[t][i].op)
    BY <1>3, <1>7, <1>8, <1>5 DEF Above
  <2> QED
    BY <2>2, <2>3, LevelsAreIntegers
<1>6. CASE q \notin 1..c /\ p \notin 1..c
  <2>1. /\ p - c + 1 \in 1..Len(todo[t]) /\ q - c + 1 \in 1..Len(todo[t]) /\ p - c + 1 < q - c + 1
        /\ todo'[t][i] = todo[t][p - c + 1] /\ todo'[t][j] = todo[t][q - c + 1]
    <3>1. p - c + 1 \in 2..Len(todo[t]) /\ todo'[t][i] = todo[t][p - c + 1]
      BY <1>6, <1>7
    <3>2. q - c + 1 \in 2..Len(todo[t]) /\ todo'[t][j] = todo[t][q - c + 1]
      BY <1>6, <1>8
    <3> QED
      BY <1>2, <1>3, <3>1, <3>2
  <2> QED
    BY <2>1 DEF Ordered
<1> QED
  BY <1>4, <1>5, <1>6

\* The mutexes that a thread has after its step: some that it had, and some
\* that were free.
LEMMA MutexesMove ==
  ASSUME StackTypes, NEW t \in Threads, NEW calls, Steps(t, calls), Fits(t, calls)
  PROVE  /\ \A u \in Threads \ {t} : todo'[u] = todo[u]
         /\ \A m \in Unlocks : Holds(t, m)' => Holds(t, m) \/ MayLock(t, m)
         /\ ~Entangled' /\ Ordered(todo[t]) => Ordered(todo'[t])
<1>1. calls \in Seq(Calls) /\ Free(t, calls) /\ (~Entangled' => Ordered(calls) /\ Above(t, calls))
  BY DEF Fits
<1>2. CASE todo[t] # <<>> /\ GoesOn(t, calls)
  <2>1. PICK k \in Nat : \A i \in 1..Len(todo'[t]) :
               IF i + k \in 1..Len(calls)
                 THEN todo'[t][i] = calls[i + k]
                 ELSE /\ i + k - Len(calls) + 1 \in 2..Len(todo[t])
                      /\ todo'[t][i] = todo[t][i + k - Len(calls) + 1]
    BY <1>1, <1>2, StackMoves
  <2>2. \A u \in Threads \ {t} : todo'[u] = todo[u]
    BY <1>1, <1>2, StackMoves
  <2>3. ASSUME NEW m \in Unlocks, Holds(t, m)'
        PROVE  Holds(t, m) \/ MayLock(t, m)
    <3>1. PICK i \in 1..Len(todo'[t]) : todo'[t][i] = m
      BY <2>3 DEF Holds
    <3>2. CASE i + k \in 1..Len(calls)
      BY <1>1, <2>1, <3>1, <3>2 DEF Free
    <3>3. CASE i + k \notin 1..Len(calls)
      <4> DEFINE j == i + k - Len(calls) + 1
      <4>1. j \in 2..Len(todo[t]) /\ todo[t][j] = m
        BY <2>1, <3>1, <3>3
      <4> HIDE DEF j
      <4>2. j \in 1..Len(todo[t])
        BY <4>1
      <4> QED
        BY <4>1, <4>2 DEF Holds
    <3> QED
      BY <3>2, <3>3
  <2>4. ~Entangled' /\ Ordered(todo[t]) => Ordered(todo'[t])
    BY <1>1, <1>2, OrderGoesOn
  <2> QED
    BY <2>2, <2>3, <2>4
<1>3. CASE todo[t] = <<>> /\ Begins(t, calls)
  <2>1. todo'[t] = calls /\ \A u \in Threads \ {t} : todo'[u] = todo[u]
    BY <1>3 DEF Begins, StackTypes
  <2> QED
    BY <1>1, <2>1 DEF Holds, Free
<1> QED
  BY <1>2, <1>3 DEF Steps

\* Few calls that fit.
Good(t, a) == /\ todo[t] # <<>> => Level(Top(t).op) <= Level(a.op)
              /\ a \in Unlocks => MayLock(t, a)
Over(a, b) == b \in Unlocks => Rank(b) <= Level(a.op)

LEMMA FewFit ==
  ASSUME NEW t, NEW a \in Calls, NEW b \in Calls, NEW c \in Calls
  PROVE  /\ Fits(t, <<>>)
         /\ Good(t, a) => Fits(t, <<a>>)
         /\ Good(t, a) /\ Good(t, b) /\ Over(a, b) => Fits(t, <<a, b>>)
         /\ Good(t, a) /\ Good(t, b) /\ Good(t, c) /\ Over(a, b) /\ Over(a, c) /\ Over(b, c) => Fits(t, <<a, b, c>>)
<1>1. <<>> \in Seq(Calls) /\ <<a>> \in Seq(Calls) /\ <<a, b>> \in Seq(Calls) /\ <<a, b, c>> \in Seq(Calls)
  OBVIOUS
<1>2. Len(<<>>) = 0 /\ Len(<<a>>) = 1 /\ Len(<<a, b>>) = 2 /\ Len(<<a, b, c>>) = 3
  OBVIOUS
<1>3. Fits(t, <<>>)
  BY <1>1, <1>2 DEF Fits, Free, Ordered, Above
<1>4. ASSUME Good(t, a) PROVE Fits(t, <<a>>)
  <2>1. \A i \in 1..1 : <<a>>[i] = a
    OBVIOUS
  <2>2. ~(\E i, j \in 1..1 : i < j)
    OBVIOUS
  <2> QED
    BY <1>1, <1>2, <1>4, <2>1, <2>2 DEF Fits, Free, Ordered, Above, Good
<1>5. ASSUME Good(t, a), Good(t, b), Over(a, b) PROVE Fits(t, <<a, b>>)
  <2> DEFINE s == <<a, b>>
  <2>1. s[1] = a /\ s[2] = b /\ Len(s) = 2 /\ \A i \in 1..2 : i = 1 \/ i = 2
    OBVIOUS
  <2>2. \A i, j \in 1..2 : i < j => i = 1 /\ j = 2
    OBVIOUS
  <2>3. s \in Seq(Calls)
    BY <1>1
  <2> HIDE DEF s
  <2>4. Free(t, s) /\ Above(t, s)
    BY <1>5, <2>1 DEF Free, Above, Good
  <2>5. Ordered(s)
    BY <1>5, <2>1, <2>2 DEF Ordered, Over
  <2>6. Fits(t, s)
    BY <2>3, <2>4, <2>5 DEF Fits
  <2> QED
    BY <2>6 DEF s
<1>6. ASSUME Good(t, a), Good(t, b), Good(t, c), Over(a, b), Over(a, c), Over(b, c) PROVE Fits(t, <<a, b, c>>)
  <2> DEFINE s == <<a, b, c>>
  <2>1. s[1] = a /\ s[2] = b /\ s[3] = c /\ Len(s) = 3 /\ \A i \in 1..3 : i = 1 \/ i = 2 \/ i = 3
    OBVIOUS
  <2>2. \A i, j \in 1..3 : i < j => (i = 1 /\ j = 2) \/ (i = 1 /\ j = 3) \/ (i = 2 /\ j = 3)
    OBVIOUS
  <2>3. s \in Seq(Calls)
    BY <1>1
  <2> HIDE DEF s
  <2>4. Free(t, s) /\ Above(t, s)
    BY <1>6, <2>1 DEF Free, Above, Good
  <2>5. Ordered(s)
    BY <1>6, <2>1, <2>2 DEF Ordered, Over
  <2>6. Fits(t, s)
    BY <2>3, <2>4, <2>5 DEF Fits
  <2> QED
    BY <2>6 DEF s
<1> QED
  BY <1>3, <1>4, <1>5, <1>6

\* A call of level n at least, made by a thread whose innermost call has it.
LEMMA FrameIsGood ==
  ASSUME NEW t, NEW o \in Ops \ {"unlockQueue", "unlockWorkers", "unlockPool"}, NEW w \in Names
  PROVE  /\ Frame(o, w) \in Calls /\ Frame(o, w) \notin Unlocks /\ Frame(o, w).op = o
         /\ (todo[t] # <<>> => Level(Top(t).op) <= Level(o)) => Good(t, Frame(o, w))
<1>1. Frame(o, w) \in Calls /\ Frame(o, w).op = o
  BY FrameIsCall
<1>2. Frame(o, w) \notin Unlocks
  BY <1>1, UnlocksDiffer
<1> QED
  BY <1>1, <1>2 DEF Good

\* An unlock of a mutex that is free, behind a call whose level is not below.
LEMMA UnlockIsGood ==
  ASSUME NEW t, NEW m \in Unlocks, MayLock(t, m)
  PROVE  m \in Calls /\ Good(t, m)
<1>1. Level(m.op) = 3 /\ m \in Calls
  BY UnlocksDiffer, UnlockIsCall
<1> QED
  BY <1>1, LevelsAreIntegers DEF Good

\* While workers are swept from the queue of the pool, or run on additional
\* threads, nothing is said of the order.
LEMMA EntangledFits ==
  ASSUME NEW t, NEW calls \in Seq(Calls), Free(t, calls), Entangled'
  PROVE  Fits(t, calls)
BY DEF Fits

LEMMA CallFits ==
  ASSUME WorkerTypes, QueueTypes, StackTypes, NEW t \in Threads, Call(t), ~Sweep(t)
  PROVE  todo[t] # <<>> /\ \E calls : GoesOn(t, calls) /\ Fits(t, calls)
<1>0. todo[t] # <<>> /\ Top(t) \in Calls /\ Top(t).worker \in Names /\ Top(t).about \in Names
  <2>1. todo[t] # <<>>
    BY DEF Call, AddEvent, Broadcast, Tell, Push, AfterHandleEvent, RemoveWorker, Extras, Join, JoinPool, jobFence, Wake, Doing
  <2> QED
    BY <2>1, TopIsCall DEF Calls
<1> DEFINE w == Top(t).worker
<1>e. Fits(t, <<>>)
  BY <1>0, FewFit
<1>1. CASE AddEvent(t)
  <2>1. GoesOn(t, <<Frame("after", w), unlockQueue>>) \/ GoesOn(t, <<Frame("broadcast", w), unlockQueue>>)
    BY <1>1 DEF AddEvent
  <2>2. Top(t).op = "post" /\ MayLock(t, unlockQueue)
    BY <1>1 DEF AddEvent, Doing, Top
  <2>3. /\ Level("post") = 0 /\ Level("after") = 1 /\ Level("broadcast") = 1
        /\ {"after", "broadcast"} \subseteq Ops \ {"unlockQueue", "unlockWorkers", "unlockPool"}
    BY DEF Level, Ops
  <2>4. \A o \in {"after", "broadcast"} :
           Frame(o, w) \in Calls /\ Frame(o, w).op = o /\ Good(t, Frame(o, w))
    BY <1>0, <2>2, <2>3, FrameIsGood
  <2>5. unlockQueue \in Calls /\ Good(t, unlockQueue)
    BY <2>2, UnlockIsGood DEF Unlocks
  <2>6. \A o \in {"after", "broadcast"} : Over(Frame(o, w), unlockQueue)
    BY <2>3, <2>4, UnlocksDiffer DEF Over
  <2>7. \A o \in {"after", "broadcast"} : Fits(t, <<Frame(o, w), unlockQueue>>)
    BY <2>4, <2>5, <2>6, FewFit
  <2> QED
    BY <1>0, <2>1, <2>7
<1>2. CASE Broadcast(t)
  <2>1. GoesOn(t, <<Frame("tell", w), unlockWorkers>>) \/ GoesOn(t, <<>>)
    BY <1>2 DEF Broadcast
  <2>2. Top(t).op = "broadcast" /\ MayLock(t, unlockWorkers)
    BY <1>2 DEF Broadcast, Doing, Top
  <2>3. /\ Level("broadcast") = 1 /\ Level("tell") = 1
        /\ "tell" \in Ops \ {"unlockQueue", "unlockWorkers", "unlockPool"}
    BY DEF Level, Ops
  <2>4. Frame("tell", w) \in Calls /\ Frame("tell", w).op = "tell" /\ Good(t, Frame("tell", w))
    BY <1>0, <2>2, <2>3, FrameIsGood
  <2>5. unlockWorkers \in Calls /\ Good(t, unlockWorkers)
    BY <2>2, UnlockIsGood DEF Unlocks
  <2>6. Over(Frame("tell", w), unlockWorkers)
    BY <2>3, <2>4, UnlocksDiffer DEF Over
  <2>7. Fits(t, <<Frame("tell", w), unlockWorkers>>)
    BY <2>4, <2>5, <2>6, FewFit
  <2> QED
    BY <1>0, <1>e, <2>1, <2>7
<1>3. CASE Tell(t)
  <2>1. CASE Top(t).index > Len(workerlist)
    BY <1>0, <1>3, <1>e, <2>1 DEF Tell
  <2>2. CASE ~(Top(t).index > Len(workerlist))
    <3> DEFINE i == Top(t).index
               next == [Top(t) EXCEPT !.index = i + 1]
               call == AddCall(workerlist[i], Top(t).about)
    <3>1. GoesOn(t, <<call, next>>)
      BY <1>3, <2>2 DEF Tell
    <3>2. i \in Nat \ {0} /\ Len(workerlist) \in Nat /\ Top(t).op = "tell"
      BY <1>0, <1>3 DEF Calls, QueueTypes, Tell, Doing, Top
    <3>3. next \in Calls /\ next.op = "tell"
      BY <1>0, <3>2 DEF Calls
    <3>4. i \in 1..Len(workerlist) /\ workerlist[i] \in Workers
      BY <2>2, <3>2 DEF QueueTypes
    <3>5. workerlist[i] \in Names
      BY <3>4 DEF Names, Threads
    <3>6. call \in Calls /\ call.op \in {"after", "push"}
      BY <1>0, <3>5, AddCallIsCall DEF AddCall, Frame
    <3> HIDE DEF next, i, call
    <3>7. call \notin Unlocks /\ next \notin Unlocks
      BY <3>3, <3>6, UnlocksDiffer
    <3>8. Good(t, call) /\ Good(t, next) /\ Over(call, next)
      BY <3>2, <3>3, <3>6, <3>7 DEF Good, Over, Level
    <3>9. Fits(t, <<call, next>>)
      BY <3>3, <3>6, <3>8, FewFit
    <3> QED
      BY <1>0, <3>1, <3>9
  <2> QED
    BY <2>1, <2>2
<1>4. CASE Push(t) \/ Join(t) \/ JoinPool(t) \/ Wake(t)
  BY <1>0, <1>4, <1>e DEF Push, Join, JoinPool, Wake
<1>5. CASE AfterHandleEvent(t)
  <2>1. GoesOn(t, <<Frame("remove", w)>>) \/ GoesOn(t, <<>>)
    BY <1>5 DEF AfterHandleEvent
  <2>2. Top(t).op = "after"
    BY <1>5 DEF AfterHandleEvent, Doing, Top
  <2>3. /\ Level("after") = 1 /\ Level("remove") = 1
        /\ "remove" \in Ops \ {"unlockQueue", "unlockWorkers", "unlockPool"}
    BY DEF Level, Ops
  <2>4. Frame("remove", w) \in Calls /\ Good(t, Frame("remove", w))
    BY <1>0, <2>2, <2>3, FrameIsGood
  <2>5. Fits(t, <<Frame("remove", w)>>)
    BY <2>4, FewFit
  <2> QED
    BY <1>0, <1>e, <2>1, <2>5
<1>6. CASE RemoveWorker(t)
  <2>1. GoesOn(t, <<Frame("sweep", w), Frame("extras", w), unlockWorkers>>)
    BY <1>6 DEF RemoveWorker
  <2>2. Top(t).op = "remove" /\ MayLock(t, unlockWorkers)
    BY <1>6 DEF RemoveWorker, Doing, Top
  <2>3. /\ Level("remove") = 1 /\ Level("sweep") = 2 /\ Level("extras") = 3
        /\ {"sweep", "extras"} \subseteq Ops \ {"unlockQueue", "unlockWorkers", "unlockPool"}
    BY DEF Level, Ops
  <2>4. \A o \in {"sweep", "extras"} :
           /\ Frame(o, w) \in Calls /\ Frame(o, w).op = o /\ Good(t, Frame(o, w))
           /\ Frame(o, w) \notin Unlocks
    BY <1>0, <2>2, <2>3, FrameIsGood
  <2>5. unlockWorkers \in Calls /\ Good(t, unlockWorkers)
    BY <2>2, UnlockIsGood DEF Unlocks
  <2>6. /\ Over(Frame("sweep", w), unlockWorkers) /\ Over(Frame("extras", w), unlockWorkers)
        /\ Over(Frame("sweep", w), Frame("extras", w))
    BY <2>3, <2>4, UnlocksDiffer DEF Over
  <2>7. Fits(t, <<Frame("sweep", w), Frame("extras", w), unlockWorkers>>)
    BY <2>4, <2>5, <2>6, FewFit
  <2> QED
    BY <1>0, <2>1, <2>7
<1>7. CASE Extras(t)
  <2>1. CASE GoesOn(t, <<>>)
    BY <1>0, <1>e, <2>1
  <2>2. ASSUME NEW v \in Workers, place[v] = "extra", GoesOn(t, <<Frame("fence", v), Frame("join", v), Top(t)>>)
        PROVE  \E calls : GoesOn(t, calls) /\ Fits(t, calls)
    <3> DEFINE a == Frame("fence", v)
               b == Frame("join", v)
               s == <<a, b, Top(t)>>
    <3>1. /\ v \in Names /\ Top(t).op = "extras"
          /\ {"fence", "join"} \subseteq Ops \ {"unlockQueue", "unlockWorkers", "unlockPool"}
      BY <1>7 DEF Names, Threads, Ops, Extras, Doing, Top
    <3>2. a \in Calls /\ b \in Calls /\ a \notin Unlocks /\ b \notin Unlocks
      BY <3>1, FrameIsGood
    <3>3. Top(t) \notin Unlocks
      BY <3>1, UnlocksDiffer
    <3> HIDE DEF a, b
    <3>4. s \in Seq(Calls) /\ \A i \in 1..Len(s) : s[i] \notin Unlocks
      BY <1>0, <3>2, <3>3
    <3>5. Entangled'
      BY <1>7, <2>2 DEF Extras, jobVars, Entangled
    <3>6. Fits(t, s)
      BY <3>4, <3>5, EntangledFits DEF Free
    <3> QED
      BY <2>2, <3>6 DEF a, b
  <2> QED
    BY <1>0, <1>7, <2>1, <2>2 DEF Extras, JobsOf
<1>8. CASE jobFence(t)
  <2>1. GoesOn(t, <<Frame("post", w), Frame("wake", w)>>)
    BY <1>8 DEF jobFence
  <2>2. Top(t).op = "fence"
    BY <1>8 DEF jobFence, Doing, Top
  <2>3. /\ Level("fence") = 0 /\ Level("post") = 0 /\ Level("wake") = 3
        /\ {"post", "wake"} \subseteq Ops \ {"unlockQueue", "unlockWorkers", "unlockPool"}
    BY DEF Level, Ops
  <2>4. \A o \in {"post", "wake"} :
           Frame(o, w) \in Calls /\ Good(t, Frame(o, w)) /\ Frame(o, w) \notin Unlocks
    BY <1>0, <2>2, <2>3, FrameIsGood
  <2>5. Fits(t, <<Frame("post", w), Frame("wake", w)>>)
    BY <2>4, FewFit DEF Over
  <2> QED
    BY <1>0, <2>1, <2>5
<1> QED
  BY <1>1, <1>2, <1>3, <1>4, <1>5, <1>6, <1>7, <1>8 DEF Call

LEMMA SweepFits ==
  ASSUME WorkerTypes, QueueTypes, StackTypes, NEW t \in Threads, Sweep(t)
  PROVE  todo[t] # <<>> /\ \E calls : GoesOn(t, calls) /\ Fits(t, calls)
<1> DEFINE Q == {v \in JobsOf(Top(t).worker) : place[v] = "queued"}
<1>1. todo[t] # <<>> /\ Top(t).op = "sweep" /\ MayLock(t, unlockPool)
  BY DEF Sweep, Doing, Top
<1>2. Q \subseteq Workers /\ Cardinality(Q) \in Nat
  <2>1. Q \subseteq Workers
    BY DEF JobsOf
  <2> HIDE DEF Q
  <2> QED
    BY <2>1, WorkersAssumption, FS_Subset, FS_CardinalityType
<1>3. place' = [v \in Workers |-> IF v \in Q THEN "swept" ELSE place[v]]
  BY DEF Sweep
<1>4. PICK q \in SetToSeqs(Q) :
         GoesOn(t, [i \in 1..Cardinality(Q) |-> Frame("fence", q[i])] \o <<unlockPool>>)
  BY DEF Sweep
<1> HIDE DEF Q
<1> DEFINE n == Cardinality(Q)
           fs == [i \in 1..n |-> Frame("fence", q[i])]
           c == fs \o <<unlockPool>>
<1>5. q \in [1..n -> Q]
  BY <1>4 DEF SetToSeqs
<1>6. \A i \in 1..n : fs[i] \in Calls /\ fs[i] \notin Unlocks
  <2>1. "fence" \in Ops \ {"unlockQueue", "unlockWorkers", "unlockPool"} /\ Q \subseteq Names
    BY <1>2 DEF Ops, Names, Threads
  <2> QED
    BY <1>5, <2>1, FrameIsGood
<1>7. n \in Nat /\ fs \in Seq(Calls) /\ Len(fs) = n
  BY <1>2, <1>6
<1>8. Q = {} => n = 0
  BY FS_EmptySet
<1> HIDE DEF n, fs
<1>9. unlockPool \in Calls /\ unlockPool \in Unlocks /\ Level(unlockPool.op) = 3
  BY UnlockIsCall, UnlocksDiffer DEF Unlocks
<1>10. /\ c \in Seq(Calls) /\ Len(c) = n + 1
       /\ \A i \in 1..n : c[i] = fs[i]
       /\ c[n + 1] = unlockPool
  BY <1>7, <1>9
<1>11. GoesOn(t, c)
  BY <1>4 DEF n, fs
<1> HIDE DEF c
<1>12. Free(t, c)
  <2>1. ASSUME NEW i \in 1..Len(c), c[i] \in Unlocks PROVE i = n + 1
    <3>1. i \in 1..n \/ i = n + 1
      BY <1>7, <1>10
    <3> QED
      BY <1>6, <1>10, <2>1, <3>1
  <2> QED
    BY <1>1, <1>10, <2>1 DEF Free
<1>13. CASE Q = {}
  <2>1. Len(c) = 1 /\ c[1] = unlockPool
    BY <1>8, <1>10, <1>13
  <2>2. Ordered(c)
    BY <2>1 DEF Ordered
  <2>3. Above(t, c)
    BY <1>9, <2>1, LevelsAreIntegers DEF Above
  <2>4. Fits(t, c)
    BY <1>10, <1>12, <2>2, <2>3 DEF Fits
  <2> QED
    BY <1>1, <1>11, <2>4
<1>14. CASE Q # {}
  <2>1. Entangled'
    BY <1>2, <1>3, <1>14 DEF Entangled
  <2> QED
    BY <1>1, <1>10, <1>11, <1>12, <2>1, EntangledFits
<1> QED
  BY <1>13, <1>14

\* What the threads do, one at a time.
LEMMA ThreadsStack ==
  ASSUME WorkerTypes, QueueTypes, StackTypes, MainIdle, Next
  PROVE  Stacks
<1>o. {"after", "post", "remove", "abortrest", "sweep", "joinpool", "extras", "fence"}
         \subseteq Ops \ {"unlockQueue", "unlockWorkers", "unlockPool"}
  BY DEF Ops
<1>m. Workers \subseteq Names /\ Vm \in Names /\ Main \in Names /\ Plain \in Names /\ Vm \in Threads
      /\ Main \in Threads /\ Workers \subseteq Threads
  BY DEF Names, Threads
<1>c. ASSUME NEW t \in Threads, todo[t] = <<>>, NEW a \in Calls, a \notin Unlocks, Begins(t, <<a>>)
      PROVE  Stacks
  <2>1. Fits(t, <<a>>)
    BY <1>c, FewFit DEF Good
  <2> QED
    BY <1>c, <2>1 DEF Stacks, Steps
<1>f. ASSUME NEW t \in Threads, todo[t] = <<>>, NEW o \in {"after", "post", "remove", "fence"}, NEW n \in Names,
             Begins(t, <<Frame(o, n)>>)
      PROVE  Stacks
  <2>1. Frame(o, n) \in Calls /\ Frame(o, n) \notin Unlocks
    BY <1>o, FrameIsGood
  <2> QED
    BY <1>c, <1>f, <2>1
<1>u. ASSUME UNCHANGED todo PROVE Stacks
  BY <1>u DEF Stacks
<1>1. ASSUME NEW t \in Threads, Call(t) PROVE Stacks
  <2>1. todo[t] # <<>> /\ \E calls : GoesOn(t, calls) /\ Fits(t, calls)
    BY <1>1, CallFits, SweepFits
  <2> QED
    BY <2>1 DEF Stacks, Steps
<1>2. ASSUME NEW w \in Workers, WorkerStep(w) PROVE Stacks
  <2>1. CASE TakeJob(w) \/ Dropped(w) \/ CreateParser(w) \/ TestAborting(w) \/ Parsed(w) \/ LoopHead(w) \/ Wait(w) \/ GiveUp(w)
    BY <1>u, <2>1 DEF TakeJob, Dropped, CreateParser, TestAborting, Parsed, LoopHead, Wait, GiveUp
  <2>2. CASE AddWorker(w)
    <3>1. Begins(w, <<Frame("post", w)>>) /\ todo[w] = <<>>
      BY <2>2 DEF AddWorker, At
    <3> QED
      BY <1>f, <1>m, <3>1
  <2>3. CASE Handled(w)
    <3>1. CASE Begins(w, <<Frame("after", cur[w])>>)
      <4>1. cur[w] \in Names /\ todo[w] = <<>>
        BY <2>3 DEF Handled, At, QueueTypes
      <4> QED
        BY <1>f, <1>m, <3>1, <4>1
    <3> QED
      BY <1>u, <2>3, <3>1 DEF Handled
  <2>4. CASE AfterEvent(w)
    <3>1. CASE Begins(w, <<Frame("after", Head(events[w]))>>) /\ events[w] # <<>>
      <4>1. Head(events[w]) \in Names /\ todo[w] = <<>>
        BY <2>4, <3>1 DEF AfterEvent, At, QueueTypes
      <4> QED
        BY <1>f, <1>m, <3>1, <4>1
    <3> QED
      BY <1>u, <2>4, <3>1 DEF AfterEvent
  <2>5. CASE Return(w)
    <3>1. Begins(w, <<Frame("fence", w)>>) /\ todo[w] = <<>>
      BY <2>5 DEF Return, At
    <3> QED
      BY <1>f, <1>m, <3>1
  <2> QED
    BY <1>2, <2>1, <2>2, <2>3, <2>4, <2>5 DEF WorkerStep
<1>3. ASSUME NEW t \in Workers \union {Vm}, NEW w \in Workers, Start(t, w) \/ Terminate(t, w) \/ Send(t, w)
      PROVE  Stacks
  <2>1. t \in Threads
    BY DEF Threads
  <2>2. CASE Terminate(t, w)
    <3>1. Begins(t, <<Frame("remove", w)>>) /\ todo[t] = <<>>
      BY <2>2 DEF Terminate, RunsScript
    <3> QED
      BY <1>f, <1>m, <2>1, <3>1
  <2>3. CASE Send(t, w)
    <3>1. Begins(t, <<AddCall(w, Plain)>>) /\ todo[t] = <<>>
      BY <2>3 DEF Send, RunsScript
    <3>2. AddCall(w, Plain) \in Calls /\ AddCall(w, Plain).op \in {"after", "push"}
      BY <1>m, AddCallIsCall DEF AddCall, Frame
    <3>3. AddCall(w, Plain) \notin Unlocks
      BY <3>2, UnlocksDiffer
    <3> QED
      BY <1>c, <2>1, <3>1, <3>2, <3>3
  <2>4. CASE Start(t, w)
    <3>1. CASE UNCHANGED todo
      BY <1>u, <3>1
    <3>2. CASE stopFlag
      <4> DEFINE a == Frame("fence", w)
                 s == <<a, unlockPool>>
      <4>1. /\ Begins(t, s) /\ place' = [place EXCEPT ![w] = "swept"] /\ todo[t] = <<>>
            /\ MayLock(t, unlockPool)
        BY <2>4, <3>2 DEF Start, RunsScript
      <4>2. Entangled'
        BY <4>1 DEF Entangled, WorkerTypes
      <4>3. a \in Calls /\ a \notin Unlocks /\ unlockPool \in Calls
        BY <1>m, <1>o, FrameIsGood, UnlockIsCall DEF Unlocks
      <4> HIDE DEF a
      <4>4. s \in Seq(Calls) /\ Len(s) = 2 /\ s[1] = a /\ s[2] = unlockPool
        BY <4>3
      <4> HIDE DEF s
      <4>5. Free(t, s)
        <5>1. \A i \in 1..2 : i = 1 \/ i = 2
          OBVIOUS
        <5> QED
          BY <4>1, <4>3, <4>4, <5>1 DEF Free
      <4>6. Fits(t, s)
        BY <4>2, <4>4, <4>5, EntangledFits
      <4> QED
        BY <2>1, <4>1, <4>6 DEF Stacks, Steps
    <3> QED
      BY <2>4, <3>1, <3>2 DEF Start
  <2> QED
    BY <1>3, <2>2, <2>3, <2>4
<1>4. CASE VmHandles
  <2>1. Begins(Vm, <<Frame("after", Head(vmQueue))>>) /\ todo[Vm] = <<>> /\ Head(vmQueue) \in Names
    BY <1>4 DEF VmHandles, QueueTypes
  <2> QED
    BY <1>f, <1>m, <2>1
<1>5. CASE VmShutdown
  <2> DEFINE a == Frame("remove", Vm)
             b == Frame("abortrest", Vm)
  <2>1. Begins(Vm, <<a, b>>) /\ todo[Vm] = <<>>
    BY <1>5 DEF VmShutdown
  <2>2. a \in Calls /\ b \in Calls /\ a \notin Unlocks /\ b \notin Unlocks
    BY <1>m, <1>o, FrameIsGood
  <2> HIDE DEF a, b
  <2>3. Fits(Vm, <<a, b>>)
    BY <2>1, <2>2, FewFit DEF Good, Over
  <2> QED
    BY <1>m, <2>1, <2>3 DEF Stacks, Steps
<1>6. CASE AbortRest
  <2>1. GoesOn(Vm, <<>>) /\ todo[Vm] # <<>> /\ Top(Vm) \in Calls
    BY <1>6, <1>m, TopIsCall DEF AbortRest, Doing
  <2>2. Fits(Vm, <<>>)
    BY <2>1, FewFit
  <2> QED
    BY <1>m, <2>1, <2>2 DEF Stacks, Steps
<1>7. CASE ForceStop
  <2> DEFINE a == Frame("sweep", Main)
             b == Frame("joinpool", Main)
             c == Frame("extras", Main)
  <2>1. Begins(Main, <<a, b, c>>) /\ todo[Main] = <<>>
    BY <1>7 DEF ForceStop, MainIdle
  <2>2. /\ a \in Calls /\ b \in Calls /\ c \in Calls
        /\ a \notin Unlocks /\ b \notin Unlocks /\ c \notin Unlocks
    BY <1>m, <1>o, FrameIsGood
  <2> HIDE DEF a, b, c
  <2>3. Fits(Main, <<a, b, c>>)
    BY <2>1, <2>2, FewFit DEF Good, Over
  <2> QED
    BY <1>m, <2>1, <2>3 DEF Stacks, Steps
<1> QED
  BY <1>1, <1>2, <1>3, <1>4, <1>5, <1>6, <1>7 DEF Next, Script

\* A worker that was swept, or is on an additional thread, stays so.
LEMMA EntangledStays ==
  ASSUME WorkerTypes, Next, Entangled
  PROVE  Entangled'
<1>1. PICK w \in Workers : place[w] \in {"swept", "extra"}
  BY DEF Entangled
<1>2. place'[w] = place[w] => Entangled'
  BY <1>1 DEF Entangled
<1> USE DEF queueVars, jobVars, runVars, flagVars, vmVars
<1>3. ASSUME NEW t \in Threads, Call(t) PROVE place'[w] = place[w]
  <2>1. CASE Sweep(t)
    BY <1>1, <2>1 DEF Sweep
  <2>2. CASE ~Sweep(t)
    BY <1>3, <2>2 DEF Call, AddEvent, Broadcast, Tell, Push, AfterHandleEvent, RemoveWorker, Extras, Join, JoinPool, jobFence, Wake
  <2> QED
    BY <2>1, <2>2
<1>4. ASSUME NEW v \in Workers, WorkerStep(v) PROVE place'[w] = place[w]
  <2>1. CASE TakeJob(v)
    <3>1. place[v] = "queued" /\ place' = [place EXCEPT ![v] = "pool"]
      BY <2>1 DEF TakeJob
    <3> QED
      BY <1>1, <3>1 DEF WorkerTypes
  <2>2. CASE ~TakeJob(v)
    BY <1>4, <2>2 DEF WorkerStep, Dropped, CreateParser, AddWorker, TestAborting, Parsed, LoopHead, Wait, Handled, GiveUp, AfterEvent, Return
  <2> QED
    BY <2>1, <2>2
<1>5. ASSUME NEW t \in Workers \union {Vm}, NEW v \in Workers, Start(t, v) \/ Terminate(t, v) \/ Send(t, v)
      PROVE  place'[w] = place[w]
  <2>1. CASE Start(t, v)
    <3>1. place[v] = "new" /\ \E p : place' = [place EXCEPT ![v] = p]
      BY <2>1 DEF Start
    <3> QED
      BY <1>1, <3>1 DEF WorkerTypes
  <2>2. CASE Terminate(t, v) \/ Send(t, v)
    BY <2>2 DEF Terminate, Send
  <2> QED
    BY <1>5, <2>1, <2>2
<1>6. CASE VmHandles \/ VmShutdown \/ AbortRest \/ ForceStop
  BY <1>2, <1>6 DEF VmHandles, VmShutdown, AbortRest, ForceStop
<1> QED
  BY <1>2, <1>3, <1>4, <1>5, <1>6 DEF Next, Script

LockInv == MutualExclusion /\ OrderInv

LEMMA LockInvKept ==
  ASSUME WorkersInv, LockInv, [Next]_vars
  PROVE  LockInv'
<1>1. WorkerTypes /\ QueueTypes /\ StackTypes /\ MainIdle /\ MutualExclusion
  BY DEF WorkersInv, LockInv
<1>2. CASE UNCHANGED todo /\ (Entangled => Entangled')
  <2>1. MutualExclusion'
    BY <1>1, <1>2 DEF MutualExclusion, Holds
  <2>2. OrderInv'
    BY <1>2 DEF LockInv, OrderInv, Ordered
  <2> QED
    BY <2>1, <2>2 DEF LockInv
<1>3. CASE Next
  <2>1. Entangled => Entangled'
    BY <1>1, <1>3, EntangledStays
  <2>2. CASE UNCHANGED todo
    BY <1>2, <2>1, <2>2
  <2>3. ASSUME NEW t \in Threads, NEW calls, Steps(t, calls), Fits(t, calls)
        PROVE  LockInv'
    <3>1. /\ \A u \in Threads \ {t} : todo'[u] = todo[u]
          /\ \A m \in Unlocks : Holds(t, m)' => Holds(t, m) \/ MayLock(t, m)
          /\ ~Entangled' /\ Ordered(todo[t]) => Ordered(todo'[t])
      BY <1>1, <2>3, MutexesMove
    <3>2. \A u \in Threads \ {t}, m \in Unlocks : Holds(u, m)' <=> Holds(u, m)
      BY <3>1 DEF Holds
    <3>3. ASSUME NEW u \in Threads \ {t}, NEW m \in Unlocks, Holds(t, m)', Holds(u, m)'
          PROVE  FALSE
      <4>1. Holds(u, m)
        BY <3>2, <3>3
      <4>2. CASE Holds(t, m)
        BY <1>1, <4>1, <4>2 DEF MutualExclusion
      <4>3. CASE MayLock(t, m)
        BY <4>1, <4>3 DEF MayLock
      <4> QED
        BY <3>1, <3>3, <4>2, <4>3
    <3>4. MutualExclusion'
      <4> SUFFICES ASSUME NEW u \in Threads, NEW v \in Threads, NEW m \in Unlocks, Holds(u, m)', Holds(v, m)'
                   PROVE  u = v
        BY DEF MutualExclusion, Unlocks, unlockQueue, unlockWorkers, unlockPool, Frame
      <4>1. CASE u = t
        BY <3>3, <4>1
      <4>2. CASE v = t
        BY <3>3, <4>2
      <4>3. CASE u # t /\ v # t
        <5>1. Holds(u, m) /\ Holds(v, m)
          BY <3>2, <4>3
        <5> QED
          BY <1>1, <5>1 DEF MutualExclusion
      <4> QED
        BY <4>1, <4>2, <4>3
    <3>5. OrderInv'
      <4> SUFFICES ASSUME ~Entangled', NEW u \in Threads PROVE Ordered(todo'[u])
        BY DEF OrderInv, Ordered, Unlocks, unlockQueue, unlockWorkers, unlockPool, Frame
      <4>1. Ordered(todo[u])
        BY <2>1 DEF LockInv, OrderInv
      <4> QED
        BY <3>1, <4>1
    <3> QED
      BY <3>4, <3>5 DEF LockInv
  <2>4. Stacks
    BY <1>1, <1>3, ThreadsStack
  <2> QED
    BY <2>2, <2>3, <2>4 DEF Stacks
<1>4. CASE UNCHANGED vars
  <2>1. UNCHANGED todo /\ (Entangled => Entangled')
    BY <1>4 DEF vars, jobVars, Entangled
  <2> QED
    BY <1>2, <2>1
<1> QED
  BY <1>3, <1>4

LEMMA LockInvHolds == Spec => []LockInv
<1>1. Init => LockInv
  <2> SUFFICES ASSUME Init PROVE LockInv
    OBVIOUS
  <2>1. \A t \in Threads : todo[t] = <<>>
    BY DEF Init
  <2> QED
    BY <2>1 DEF LockInv, MutualExclusion, Holds, OrderInv, Ordered
<1>2. WorkersInv /\ LockInv /\ [Next]_vars => LockInv'
  BY LockInvKept
<1> QED
  BY <1>1, <1>2, WorkersInvHolds, PTL DEF Spec

\* The mutexes of the VM's event queue, of WorkerDomain::workerlist and of the
\* thread pool are each held by one thread at a time, through whatever calls of
\* jobFence(), addEvent(), removeWorker() and the sweep of the pool.
THEOREM OneHolder == Spec => []MutualExclusion
<1>1. LockInv => MutualExclusion
  BY DEF LockInv
<1> QED
  BY <1>1, LockInvHolds, PTL

\* A thread that holds a mutex and cannot go on waits for a mutex of a higher
\* rank, which another thread holds.
LEMMA WaitsForHigher ==
  ASSUME StackTypes, LockInv, ~Entangled, NEW t \in Threads, NEW m \in Unlocks, Holds(t, m), Blocked(t)
  PROVE  \E u \in Threads, n \in Unlocks : Holds(u, n) /\ Rank(m) < Rank(n)
<1>1. PICK i \in 1..Len(todo[t]) : todo[t][i] = m
  BY DEF Holds
<1>2. /\ todo[t] # <<>> /\ Top(t) = todo[t][1] /\ Len(todo[t]) \in Nat \ {0}
  <2>1. todo[t] # <<>>
    BY <1>1
  <2> QED
    BY <2>1, TopIsCall
<1>3. Doing(t, Top(t).op) /\ \A o : Doing(t, o) => o = Top(t).op
  BY <1>2 DEF Doing, Top
<1>4. Top(t).op \in {"post", "broadcast", "remove", "sweep", "join", "joinpool"}
  BY <1>3 DEF Blocked, Takes
<1>5. i # 1
  BY <1>1, <1>2, <1>4, UnlocksDiffer
<1>6. Rank(m) <= Level(Top(t).op)
  <2>1. 1 \in 1..Len(todo[t]) /\ 1 < i
    BY <1>1, <1>2, <1>5
  <2>2. Ordered(todo[t])
    BY DEF LockInv, OrderInv
  <2> QED
    BY <1>1, <1>2, <2>1, <2>2 DEF Ordered
<1>7. Top(t).op \notin {"join", "joinpool"}
  BY <1>6, LevelsAreIntegers DEF Level
<1>8. PICK n \in Unlocks : Takes(t, n) /\ ~MayLock(t, n)
  BY <1>3, <1>7 DEF Blocked
<1>9. Level(Top(t).op) = Rank(n)
  BY <1>3, <1>8, UnlocksDiffer DEF Takes, Level
<1>10. PICK u \in Threads \ {t} : Holds(u, n)
  BY <1>8 DEF MayLock
<1>11. m # n
  BY <1>10 DEF LockInv, MutualExclusion
<1>12. Rank(m) # Rank(n)
  BY <1>11, UnlocksDiffer DEF Unlocks
<1> QED
  BY <1>6, <1>9, <1>10, <1>12, LevelsAreIntegers

\* The VM thread, the workers and the thread that stops the pool never wait for
\* each other's mutexes in a circle, as long as no worker was swept from the
\* queue of the pool or is on an additional thread: of the threads that hold a
\* mutex there is one that can go on.
THEOREM NoCircleOfMutexes == Spec => []HolderGoesOn
<1>1. WorkersInv /\ LockInv => HolderGoesOn
  <2> SUFFICES ASSUME WorkersInv, LockInv, ~Entangled,
                      NEW t \in Threads, NEW m \in Unlocks, Holds(t, m),
                      \A u \in Threads : Blocked(u) \/ ~\E n \in Unlocks : Holds(u, n)
               PROVE  FALSE
    BY DEF HolderGoesOn
  <2>1. \A u \in Threads, n \in Unlocks :
           Holds(u, n) => \E v \in Threads, k \in Unlocks : Holds(v, k) /\ Rank(n) < Rank(k)
    BY WaitsForHigher DEF WorkersInv
  <2>2. PICK u \in Threads, n \in Unlocks : Holds(u, n) /\ Rank(m) < Rank(n)
    BY <2>1
  <2>3. PICK v \in Threads, k \in Unlocks : Holds(v, k) /\ Rank(n) < Rank(k)
    BY <2>1, <2>2
  <2>4. PICK w \in Threads, l \in Unlocks : Holds(w, l) /\ Rank(k) < Rank(l)
    BY <2>1, <2>3
  <2> QED
    BY <2>2, <2>3, <2>4, LevelsAreIntegers
<1> QED
  BY <1>1, WorkersInvHolds, LockInvHolds, PTL

(***************************************************************************)
(* The types that no other proof needs: what the calls are about, the      *)
(* events about workers, and the remaining flags.                          *)
(***************************************************************************)
Subjects == Workers \union {Plain}
TypedCalls ==
    {f \in Calls :
        /\ f.op \in {"post", "broadcast", "tell", "fence", "wake", "join"} =>
              f.worker \in Workers /\ f.about \in Workers
        /\ f.op = "push" => f.worker \in Workers /\ f.about \in Subjects
        /\ f.op = "after" => f.worker \in Subjects}

FlagTypes ==
    /\ started \in [Workers -> BOOLEAN] /\ missed \in [Workers -> BOOLEAN]
    /\ state \in [Workers -> {"new", "terminated"}] /\ from \in [Workers -> Threads]
    /\ shuttingdown \in BOOLEAN /\ terminated \in BOOLEAN /\ stopFlag \in BOOLEAN
    /\ plain \in 0..MaxPlain

SubjectTypes ==
    /\ events \in [Workers -> Seq(Subjects)] /\ cur \in [Workers -> Subjects]
    /\ vmQueue \in Seq(Workers)
    /\ todo \in [Threads -> Seq(TypedCalls)]

LEMMA FlagTypesKept ==
  ASSUME WorkerTypes, FlagTypes, Next
  PROVE  FlagTypes'
<1> USE DEF FlagTypes, queueVars, jobVars, runVars, flagVars, vmVars
<1>1. ASSUME NEW S, Abort(S) PROVE missed' \in [Workers -> BOOLEAN]
  BY <1>1 DEF Abort
<1>2. ASSUME NEW t \in Threads, Call(t) PROVE FlagTypes'
  <2>1. CASE AddEvent(t) \/ Broadcast(t) \/ Tell(t) \/ AfterHandleEvent(t) \/ RemoveWorker(t) \/ Join(t) \/ JoinPool(t)
    BY <2>1 DEF AddEvent, Broadcast, Tell, AfterHandleEvent, RemoveWorker, Join, JoinPool
  <2>2. CASE Push(t) \/ Wake(t)
    BY <2>2 DEF Push, Wake
  <2>3. CASE Sweep(t)
    BY <1>1, <2>3 DEF Sweep
  <2>4. CASE Extras(t)
    <3>1. missed' \in [Workers -> BOOLEAN]
      BY <1>1, <2>4 DEF Extras
    <3> QED
      BY <2>4, <3>1 DEF Extras
  <2>5. CASE jobFence(t)
    <3>1. state' = [state EXCEPT ![Top(t).worker] = "terminated"]
      BY <2>5 DEF jobFence
    <3>2. \A x : [state EXCEPT ![x] = "terminated"] \in [Workers -> {"new", "terminated"}]
      OBVIOUS
    <3>3. state' \in [Workers -> {"new", "terminated"}]
      BY <3>1, <3>2
    <3> QED
      BY <2>5, <3>3 DEF jobFence
  <2> QED
    BY <1>2, <2>1, <2>2, <2>3, <2>4, <2>5 DEF Call
<1>3. ASSUME NEW w \in Workers, WorkerStep(w) PROVE FlagTypes'
  BY <1>3 DEF WorkerStep, TakeJob, Dropped, CreateParser, AddWorker, TestAborting, Parsed, LoopHead, Wait, Handled,
              GiveUp, AfterEvent, Return
<1>4. ASSUME NEW t \in Workers \union {Vm}, NEW w \in Workers, Start(t, w) \/ Terminate(t, w) \/ Send(t, w)
      PROVE  FlagTypes'
  <2>1. t \in Threads
    BY DEF Threads
  <2>2. CASE Start(t, w)
    BY <2>1, <2>2 DEF Start
  <2>3. CASE Terminate(t, w)
    <3>1. started' \in [Workers -> BOOLEAN]
      BY <2>3 DEF Terminate
    <3>2. missed' = [missed EXCEPT ![w] = @ \/ pc[w] = "wait"]
      BY <2>3 DEF Terminate
    <3>3. (missed[w] \/ pc[w] = "wait") \in BOOLEAN
      OBVIOUS
    <3>4. missed' \in [Workers -> BOOLEAN]
      BY <3>2, <3>3, Zenon
    <3> QED
      BY <2>3, <3>1, <3>4 DEF Terminate
  <2>4. CASE Send(t, w)
    BY <2>4, WorkersAssumption DEF Send
  <2> QED
    BY <1>4, <2>2, <2>3, <2>4
<1>5. CASE VmHandles \/ VmShutdown \/ ForceStop
  BY <1>5 DEF VmHandles, VmShutdown, ForceStop
<1>6. CASE AbortRest
  BY <1>1, <1>6 DEF AbortRest
<1> QED
  BY <1>2, <1>3, <1>4, <1>5, <1>6 DEF Next, Script

\* The stacks keep a type that the new calls have.
LEMMA TypedStacks ==
  ASSUME NEW t \in Threads, NEW calls \in Seq(TypedCalls), todo \in [Threads -> Seq(TypedCalls)],
         Steps(t, calls)
  PROVE  todo' \in [Threads -> Seq(TypedCalls)]
<1>1. TypedCalls \subseteq Calls
  BY DEF TypedCalls
<1>2. CASE todo[t] = <<>> /\ Begins(t, calls)
  BY <1>2 DEF Begins
<1>3. CASE todo[t] # <<>> /\ GoesOn(t, calls)
  <2> DEFINE c == calls \o Tail(todo[t])
  <2>1. c \in Seq(TypedCalls)
    <3>1. Tail(todo[t]) \in Seq(TypedCalls)
      BY <1>3
    <3> QED
      BY <3>1
  <2>2. todo' = [todo EXCEPT ![t] = Unlocked(c)]
    BY <1>3 DEF GoesOn
  <2> HIDE DEF c
  <2>3. c \in Seq(Calls) /\ Len(c) \in Nat /\ \A i \in 1..Len(c) : c[i] \in TypedCalls
    BY <1>1, <2>1
  <2>4. Unlocked(c) \in Seq(Calls)
    BY <2>3, UnlockedIsSuffix
  <2>5. \A i \in 1..Len(Unlocked(c)) : Unlocked(c)[i] \in TypedCalls
    BY <2>3, UnlockedIsSuffix
  <2>6. Unlocked(c) \in Seq(TypedCalls)
    BY <2>4, <2>5
  <2> QED
    BY <2>2, <2>6
<1> QED
  BY <1>2, <1>3 DEF Steps

Typed(t) == \E calls \in Seq(TypedCalls) : Steps(t, calls)

\* A frame, by what it is about.
LEMMA TypedFrame ==
  /\ \A o \in {"post", "broadcast", "tell", "fence", "wake", "join"}, w \in Workers : Frame(o, w) \in TypedCalls
  /\ \A w \in Subjects : Frame("after", w) \in TypedCalls
  /\ \A o \in {"remove", "sweep", "extras", "joinpool", "abortrest"}, n \in Names : Frame(o, n) \in TypedCalls
  /\ Unlocks \subseteq TypedCalls
<1>1. Workers \subseteq Names /\ Subjects \subseteq Names
  BY DEF Names, Threads, Subjects
<1>2. \A o, w : Frame(o, w).op = o /\ Frame(o, w).worker = w /\ Frame(o, w).about = w
  BY DEF Frame
<1>3. ASSUME NEW o \in {"post", "broadcast", "tell", "fence", "wake", "join"}, NEW w \in Workers
      PROVE  Frame(o, w) \in TypedCalls
  <2>1. o \in Ops /\ w \in Names
    BY <1>1 DEF Ops
  <2>2. Frame(o, w) \in Calls
    BY <2>1, FrameIsCall
  <2> QED
    BY <1>2, <2>2 DEF TypedCalls
<1>4. ASSUME NEW w \in Subjects PROVE Frame("after", w) \in TypedCalls
  <2>1. "after" \in Ops /\ w \in Names
    BY <1>1 DEF Ops
  <2>2. Frame("after", w) \in Calls
    BY <2>1, FrameIsCall
  <2> QED
    BY <1>2, <2>2 DEF TypedCalls
<1>5. ASSUME NEW o \in {"remove", "sweep", "extras", "joinpool", "abortrest"}, NEW n \in Names
      PROVE  Frame(o, n) \in TypedCalls
  <2>1. o \in Ops
    BY DEF Ops
  <2>2. Frame(o, n) \in Calls
    BY <2>1, FrameIsCall
  <2> QED
    BY <1>2, <2>2 DEF TypedCalls
<1>6. Unlocks \subseteq TypedCalls
  <2>1. Unlocks \subseteq Calls
    BY UnlockIsCall
  <2>2. \A m \in Unlocks : m.op \in {"unlockQueue", "unlockWorkers", "unlockPool"}
    BY UnlocksDiffer
  <2> QED
    BY <2>1, <2>2 DEF TypedCalls
<1> QED
  BY <1>3, <1>4, <1>5, <1>6

LEMMA TypedAddCall ==
  ASSUME NEW v \in Workers, NEW a \in Subjects
  PROVE  AddCall(v, a) \in TypedCalls
<1> DEFINE p == [op |-> "push", worker |-> v, about |-> a, index |-> 1]
<1>1. v \in Names /\ a \in Names
  BY DEF Names, Threads, Subjects
<1>2. p \in TypedCalls
  BY <1>1 DEF TypedCalls, Calls, Ops
<1>3. AddCall(v, a) = Frame("after", a) \/ AddCall(v, a) = p
  BY DEF AddCall
<1> QED
  BY <1>2, <1>3, TypedFrame

\* Few typed calls.
LEMMA FewTyped ==
  ASSUME NEW a \in TypedCalls, NEW b \in TypedCalls, NEW c \in TypedCalls
  PROVE  /\ <<>> \in Seq(TypedCalls) /\ <<a>> \in Seq(TypedCalls) /\ <<a, b>> \in Seq(TypedCalls)
         /\ <<a, b, c>> \in Seq(TypedCalls)
OBVIOUS

\* What a call may read of the queues.
LEMMA QueueReads ==
  ASSUME SubjectTypes, QueueTypes, NEW t \in Threads, todo[t] # <<>>
  PROVE  /\ Top(t) \in TypedCalls /\ Top(t).op \in Ops /\ Top(t).worker \in Names
         /\ Top(t).about \in Names /\ Top(t).index \in Nat \ {0}
<1>1. todo[t] \in Seq(TypedCalls)
  BY DEF SubjectTypes
<1>2. Top(t) \in TypedCalls
  BY <1>1 DEF Top
<1>3. Top(t) \in Calls
  BY <1>2 DEF TypedCalls
<1> QED
  BY <1>2, <1>3 DEF Calls

LEMMA CallIsTyped ==
  ASSUME SubjectTypes, QueueTypes, NEW t \in Threads, Call(t)
  PROVE  Typed(t)
<1>0. todo[t] # <<>>
  BY DEF Call, AddEvent, Broadcast, Tell, Push, AfterHandleEvent, RemoveWorker, Sweep, Extras, Join, JoinPool, jobFence,
         Wake, Doing
<1> DEFINE f == Top(t)
           w == Top(t).worker
<1>1. f \in TypedCalls /\ w \in Names /\ f.index \in Nat \ {0}
  BY <1>0, QueueReads
<1>2. \A o : Doing(t, o) => f.op = o
  BY DEF Doing, Top
<1>3. /\ f.op \in {"post", "broadcast", "tell", "fence", "wake", "join"} => w \in Workers /\ f.about \in Workers
      /\ f.op = "push" => w \in Workers /\ f.about \in Subjects
      /\ f.op = "after" => w \in Subjects
  BY <1>1 DEF TypedCalls
<1>4. ASSUME NEW calls \in Seq(TypedCalls), GoesOn(t, calls) PROVE Typed(t)
  BY <1>0, <1>4 DEF Typed, Steps
<1> HIDE DEF f, w
<1>5. Workers \subseteq Subjects
  BY DEF Subjects
<1>u. unlockQueue \in TypedCalls /\ unlockWorkers \in TypedCalls /\ unlockPool \in TypedCalls
  BY TypedFrame DEF Unlocks
<1>e. GoesOn(t, <<>>) => Typed(t)
  BY <1>1, <1>4, FewTyped
<1>6. CASE AddEvent(t)
  <2>1. w \in Workers
    BY <1>2, <1>3, <1>6 DEF AddEvent
  <2>2. GoesOn(t, <<Frame("after", w), unlockQueue>>) \/ GoesOn(t, <<Frame("broadcast", w), unlockQueue>>)
    BY <1>6 DEF AddEvent, w
  <2>3. Frame("after", w) \in TypedCalls /\ Frame("broadcast", w) \in TypedCalls
    BY <1>5, <2>1, TypedFrame
  <2> QED
    BY <1>4, <1>u, <2>2, <2>3, FewTyped
<1>7. CASE Broadcast(t)
  <2>1. w \in Workers
    BY <1>2, <1>3, <1>7 DEF Broadcast
  <2>2. GoesOn(t, <<Frame("tell", w), unlockWorkers>>) \/ GoesOn(t, <<>>)
    BY <1>7 DEF Broadcast, w
  <2>3. Frame("tell", w) \in TypedCalls
    BY <2>1, TypedFrame
  <2> QED
    BY <1>4, <1>u, <1>e, <2>2, <2>3, FewTyped
<1>8. CASE Tell(t)
  <2> DEFINE i == f.index
             next == [f EXCEPT !.index = i + 1]
             call == AddCall(workerlist[i], f.about)
  <2>1. f.op = "tell" /\ f.about \in Workers /\ w \in Workers
    BY <1>2, <1>3, <1>8 DEF Tell
  <2>2. CASE f.index > Len(workerlist)
    BY <1>e, <1>8, <2>2 DEF Tell, f
  <2>3. CASE ~(f.index > Len(workerlist))
    <3>1. GoesOn(t, <<call, next>>)
      BY <1>8, <2>3 DEF Tell, f
    <3>2. next \in TypedCalls
      <4>1. next \in Calls /\ next.op = "tell" /\ next.worker = f.worker /\ next.about = f.about
        BY <1>1, <2>1 DEF TypedCalls, Calls
      <4> QED
        BY <2>1, <4>1 DEF TypedCalls, w, f
    <3>3. i \in 1..Len(workerlist) /\ workerlist[i] \in Workers
      BY <1>1, <2>3 DEF QueueTypes
    <3>4. call \in TypedCalls
      BY <1>5, <2>1, <3>3, TypedAddCall
    <3> HIDE DEF next, call
    <3> QED
      BY <1>4, <3>1, <3>2, <3>4, FewTyped
  <2> QED
    BY <2>2, <2>3
<1>9. CASE Push(t) \/ Join(t) \/ JoinPool(t) \/ Wake(t)
  BY <1>e, <1>9 DEF Push, Join, JoinPool, Wake
<1>10. CASE AfterHandleEvent(t)
  <2>1. GoesOn(t, <<Frame("remove", w)>>) \/ GoesOn(t, <<>>)
    BY <1>10 DEF AfterHandleEvent, w
  <2>2. Frame("remove", w) \in TypedCalls
    BY <1>1, TypedFrame
  <2> QED
    BY <1>4, <1>e, <2>1, <2>2, FewTyped
<1>11. CASE RemoveWorker(t)
  <2>1. GoesOn(t, <<Frame("sweep", w), Frame("extras", w), unlockWorkers>>)
    BY <1>11 DEF RemoveWorker, w
  <2>2. Frame("sweep", w) \in TypedCalls /\ Frame("extras", w) \in TypedCalls
    BY <1>1, TypedFrame
  <2> QED
    BY <1>4, <1>u, <2>1, <2>2, FewTyped
<1>12. CASE Sweep(t)
  <2> DEFINE Q == {v \in JobsOf(Top(t).worker) : place[v] = "queued"}
  <2>1. Q \subseteq Workers
    BY DEF JobsOf
  <2>2. PICK q \in SetToSeqs(Q) :
           GoesOn(t, [i \in 1..Cardinality(Q) |-> Frame("fence", q[i])] \o <<unlockPool>>)
    BY <1>12 DEF Sweep
  <2> HIDE DEF Q
  <2>3. Cardinality(Q) \in Nat
    BY <2>1, WorkersAssumption, FS_Subset, FS_CardinalityType
  <2>4. q \in [1..Cardinality(Q) -> Q]
    BY <2>2 DEF SetToSeqs
  <2> DEFINE n == Cardinality(Q)
             fs == [i \in 1..n |-> Frame("fence", q[i])]
  <2>5. \A i \in 1..n : fs[i] \in TypedCalls
    BY <2>1, <2>4, TypedFrame
  <2>6. fs \in Seq(TypedCalls)
    BY <2>3, <2>5
  <2> HIDE DEF n, fs
  <2>7. fs \o <<unlockPool>> \in Seq(TypedCalls)
    BY <1>u, <2>6
  <2> QED
    BY <1>4, <2>2, <2>7 DEF n, fs
<1>13. CASE Extras(t)
  <2>1. CASE GoesOn(t, <<>>)
    BY <1>e, <2>1
  <2>2. ASSUME NEW v \in Workers, GoesOn(t, <<Frame("fence", v), Frame("join", v), Top(t)>>)
        PROVE  Typed(t)
    <3>1. Frame("fence", v) \in TypedCalls /\ Frame("join", v) \in TypedCalls /\ Top(t) \in TypedCalls
      BY <1>1, TypedFrame DEF f
    <3> QED
      BY <1>4, <2>2, <3>1, FewTyped
  <2> QED
    BY <1>13, <2>1, <2>2 DEF Extras, JobsOf
<1>14. CASE jobFence(t)
  <2>1. w \in Workers
    BY <1>2, <1>3, <1>14 DEF jobFence
  <2>2. GoesOn(t, <<Frame("post", w), Frame("wake", w)>>)
    BY <1>14 DEF jobFence, w
  <2>3. Frame("post", w) \in TypedCalls /\ Frame("wake", w) \in TypedCalls
    BY <2>1, TypedFrame
  <2> QED
    BY <1>4, <2>2, <2>3, FewTyped
<1> QED
  BY <1>6, <1>7, <1>8, <1>9, <1>10, <1>11, <1>12, <1>13, <1>14 DEF Call

LEMMA NextIsTyped ==
  ASSUME SubjectTypes, QueueTypes, MainIdle, Next
  PROVE  UNCHANGED todo \/ \E t \in Threads : Typed(t)
<1>m. /\ Workers \subseteq Threads /\ Vm \in Threads /\ Main \in Threads /\ Workers \subseteq Subjects
      /\ Plain \in Subjects /\ Workers \subseteq Names /\ Vm \in Names /\ Main \in Names
  BY DEF Threads, Subjects, Names
<1>b. ASSUME NEW t \in Threads, todo[t] = <<>>, NEW calls \in Seq(TypedCalls), Begins(t, calls)
      PROVE  Typed(t)
  BY <1>b DEF Typed, Steps
<1>1. ASSUME NEW w \in Workers, WorkerStep(w)
      PROVE  UNCHANGED todo \/ Typed(w)
  <2>1. CASE TakeJob(w) \/ Dropped(w) \/ CreateParser(w) \/ TestAborting(w) \/ Parsed(w) \/ LoopHead(w) \/ Wait(w) \/ GiveUp(w)
    BY <2>1 DEF TakeJob, Dropped, CreateParser, TestAborting, Parsed, LoopHead, Wait, GiveUp
  <2>2. CASE AddWorker(w)
    <3>1. Begins(w, <<Frame("post", w)>>) /\ todo[w] = <<>>
      BY <2>2 DEF AddWorker, At
    <3>2. Frame("post", w) \in TypedCalls
      BY TypedFrame
    <3> QED
      BY <1>b, <1>m, <3>1, <3>2, FewTyped
  <2>3. CASE Handled(w)
    <3>1. CASE Begins(w, <<Frame("after", cur[w])>>)
      <4>1. cur[w] \in Subjects /\ todo[w] = <<>>
        BY <2>3 DEF Handled, At, SubjectTypes
      <4>2. Frame("after", cur[w]) \in TypedCalls
        BY <4>1, TypedFrame
      <4> QED
        BY <1>b, <1>m, <3>1, <4>1, <4>2, FewTyped
    <3> QED
      BY <2>3, <3>1 DEF Handled
  <2>4. CASE AfterEvent(w)
    <3>1. CASE Begins(w, <<Frame("after", Head(events[w]))>>) /\ events[w] # <<>>
      <4>1. Head(events[w]) \in Subjects /\ todo[w] = <<>>
        BY <2>4, <3>1 DEF AfterEvent, At, SubjectTypes
      <4>2. Frame("after", Head(events[w])) \in TypedCalls
        BY <4>1, TypedFrame
      <4> QED
        BY <1>b, <1>m, <3>1, <4>1, <4>2, FewTyped
    <3> QED
      BY <2>4, <3>1 DEF AfterEvent
  <2>5. CASE Return(w)
    <3>1. Begins(w, <<Frame("fence", w)>>) /\ todo[w] = <<>>
      BY <2>5 DEF Return, At
    <3>2. Frame("fence", w) \in TypedCalls
      BY TypedFrame
    <3> QED
      BY <1>b, <1>m, <3>1, <3>2, FewTyped
  <2> QED
    BY <1>1, <2>1, <2>2, <2>3, <2>4, <2>5 DEF WorkerStep
<1>2. ASSUME NEW t \in Workers \union {Vm}, NEW w \in Workers, Start(t, w) \/ Terminate(t, w) \/ Send(t, w)
      PROVE  UNCHANGED todo \/ Typed(t)
  <2>0. t \in Threads /\ todo[t] = <<>>
    BY <1>2 DEF Threads, Start, Terminate, Send, RunsScript
  <2>1. CASE Start(t, w)
    <3>1. UNCHANGED todo \/ Begins(t, <<Frame("fence", w), unlockPool>>)
      BY <2>1 DEF Start
    <3>2. Frame("fence", w) \in TypedCalls /\ unlockPool \in TypedCalls
      BY TypedFrame DEF Unlocks
    <3> QED
      BY <1>b, <2>0, <3>1, <3>2, FewTyped
  <2>2. CASE Terminate(t, w)
    <3>1. Begins(t, <<Frame("remove", w)>>)
      BY <2>2 DEF Terminate
    <3>2. Frame("remove", w) \in TypedCalls
      BY <1>m, TypedFrame
    <3> QED
      BY <1>b, <2>0, <3>1, <3>2, FewTyped
  <2>3. CASE Send(t, w)
    <3>1. Begins(t, <<AddCall(w, Plain)>>)
      BY <2>3 DEF Send
    <3>2. AddCall(w, Plain) \in TypedCalls
      BY <1>m, TypedAddCall
    <3> QED
      BY <1>b, <2>0, <3>1, <3>2, FewTyped
  <2> QED
    BY <1>2, <2>1, <2>2, <2>3
<1>3. CASE VmHandles
  <2>1. Begins(Vm, <<Frame("after", Head(vmQueue))>>) /\ todo[Vm] = <<>> /\ Head(vmQueue) \in Subjects
    BY <1>3, <1>m DEF VmHandles, SubjectTypes
  <2>2. Frame("after", Head(vmQueue)) \in TypedCalls
    BY <2>1, TypedFrame
  <2> QED
    BY <1>b, <1>m, <2>1, <2>2, FewTyped
<1>4. CASE VmShutdown
  <2>1. Begins(Vm, <<Frame("remove", Vm), Frame("abortrest", Vm)>>) /\ todo[Vm] = <<>>
    BY <1>4 DEF VmShutdown
  <2>2. Frame("remove", Vm) \in TypedCalls /\ Frame("abortrest", Vm) \in TypedCalls
    BY <1>m, TypedFrame
  <2> QED
    BY <1>b, <1>m, <2>1, <2>2, FewTyped
<1>5. CASE AbortRest
  <2>1. GoesOn(Vm, <<>>) /\ todo[Vm] # <<>> /\ <<>> \in Seq(TypedCalls)
    BY <1>5 DEF AbortRest, Doing
  <2> QED
    BY <1>m, <2>1 DEF Typed, Steps
<1>6. CASE ForceStop
  <2>1. Begins(Main, <<Frame("sweep", Main), Frame("joinpool", Main), Frame("extras", Main)>>) /\ todo[Main] = <<>>
    BY <1>6 DEF ForceStop, MainIdle
  <2>2. Frame("sweep", Main) \in TypedCalls /\ Frame("joinpool", Main) \in TypedCalls /\ Frame("extras", Main) \in TypedCalls
    BY <1>m, TypedFrame
  <2> QED
    BY <1>b, <1>m, <2>1, <2>2, FewTyped
<1>7. ASSUME NEW t \in Threads, Call(t) PROVE Typed(t)
  BY <1>7, CallIsTyped
<1> QED
  BY <1>1, <1>2, <1>3, <1>4, <1>5, <1>6, <1>7, <1>m DEF Next, Script

LEMMA SubjectTypesKept ==
  ASSUME SubjectTypes, QueueTypes, MainIdle, Next
  PROVE  SubjectTypes'
<1> USE DEF queueVars, jobVars, runVars, flagVars, vmVars
<1>1. todo' \in [Threads -> Seq(TypedCalls)]
  <2>1. CASE UNCHANGED todo
    BY <2>1 DEF SubjectTypes
  <2>2. ASSUME NEW t \in Threads, Typed(t) PROVE todo' \in [Threads -> Seq(TypedCalls)]
    BY <2>2, TypedStacks DEF Typed, SubjectTypes
  <2> QED
    BY <2>1, <2>2, NextIsTyped
<1>2. ASSUME UNCHANGED <<events, cur, vmQueue>> PROVE SubjectTypes'
  BY <1>1, <1>2 DEF SubjectTypes
<1>3. ASSUME NEW t \in Threads, Call(t) PROVE SubjectTypes'
  <2>1. CASE AddEvent(t)
    <3>1. Top(t).op = "post" /\ todo[t] # <<>>
      BY <2>1 DEF AddEvent, Doing, Top
    <3>2. Top(t).worker \in Workers
      BY <3>1, QueueReads DEF TypedCalls
    <3>3. vmQueue' \in Seq(Workers) /\ UNCHANGED <<events, cur>>
      <4>1. (vmQueue' = Append(vmQueue, Top(t).worker) \/ UNCHANGED vmQueue) /\ UNCHANGED <<events, cur>>
        BY <2>1 DEF AddEvent
      <4>2. Append(vmQueue, Top(t).worker) \in Seq(Workers) /\ vmQueue \in Seq(Workers)
        BY <3>2 DEF SubjectTypes
      <4> QED
        BY <4>1, <4>2
    <3> QED
      BY <1>1, <3>3 DEF SubjectTypes
  <2>2. CASE Push(t)
    <3>1. Top(t).op = "push" /\ todo[t] # <<>>
      BY <2>2 DEF Push, Doing, Top
    <3>2. Top(t).worker \in Workers /\ Top(t).about \in Subjects
      BY <3>1, QueueReads DEF TypedCalls
    <3>3. events' = [events EXCEPT ![Top(t).worker] = Append(@, Top(t).about)] /\ UNCHANGED <<cur, vmQueue>>
      BY <2>2 DEF Push, Signal
    <3>4. events' \in [Workers -> Seq(Subjects)]
      BY <3>2, <3>3 DEF SubjectTypes
    <3> QED
      BY <1>1, <3>3, <3>4 DEF SubjectTypes
  <2>3. CASE Broadcast(t) \/ Tell(t) \/ AfterHandleEvent(t) \/ RemoveWorker(t) \/ Join(t) \/ JoinPool(t) \/ jobFence(t)
    BY <1>2, <2>3 DEF Broadcast, Tell, AfterHandleEvent, RemoveWorker, Join, JoinPool, jobFence
  <2>4. CASE Sweep(t) \/ Extras(t) \/ Wake(t)
    BY <1>2, <2>4 DEF Sweep, Extras, Wake, Abort, Signal
  <2> QED
    BY <1>3, <2>1, <2>2, <2>3, <2>4 DEF Call
<1>4. ASSUME NEW w \in Workers, WorkerStep(w) PROVE SubjectTypes'
  <2>1. CASE LoopHead(w)
    <3>1. CASE UNCHANGED <<cur, events>>
      BY <1>2, <2>1, <3>1 DEF LoopHead
    <3>2. CASE /\ events[w] # <<>> /\ cur' = [cur EXCEPT ![w] = Head(events[w])]
               /\ events' = [events EXCEPT ![w] = Tail(@)]
      <4>1. Head(events[w]) \in Subjects /\ Tail(events[w]) \in Seq(Subjects)
        BY <3>2 DEF SubjectTypes
      <4>2. cur' \in [Workers -> Subjects] /\ events' \in [Workers -> Seq(Subjects)] /\ UNCHANGED vmQueue
        BY <2>1, <3>2, <4>1 DEF SubjectTypes, LoopHead
      <4> QED
        BY <1>1, <4>2 DEF SubjectTypes
    <3> QED
      BY <2>1, <3>1, <3>2 DEF LoopHead
  <2>2. CASE AfterEvent(w)
    <3>1. CASE UNCHANGED events
      BY <1>2, <2>2, <3>1 DEF AfterEvent
    <3>2. CASE events[w] # <<>> /\ events' = [events EXCEPT ![w] = Tail(@)]
      <4>1. Tail(events[w]) \in Seq(Subjects)
        BY <3>2 DEF SubjectTypes
      <4>2. events' \in [Workers -> Seq(Subjects)] /\ UNCHANGED <<cur, vmQueue>>
        BY <2>2, <3>2, <4>1 DEF SubjectTypes, AfterEvent
      <4> QED
        BY <1>1, <4>2 DEF SubjectTypes
    <3> QED
      BY <2>2, <3>1, <3>2 DEF AfterEvent
  <2>3. CASE ~LoopHead(w) /\ ~AfterEvent(w)
    BY <1>2, <1>4, <2>3 DEF WorkerStep, TakeJob, Dropped, CreateParser, AddWorker, TestAborting, Parsed, Wait, Handled,
              GiveUp, Return
  <2> QED
    BY <2>1, <2>2, <2>3
<1>5. ASSUME NEW t \in Workers \union {Vm}, NEW w \in Workers, Start(t, w) \/ Terminate(t, w) \/ Send(t, w)
      PROVE  SubjectTypes'
  BY <1>2, <1>5 DEF Start, Terminate, Send
<1>6. CASE VmHandles
  <2>1. vmQueue' \in Seq(Workers) /\ UNCHANGED <<events, cur>>
    BY <1>6 DEF VmHandles, SubjectTypes
  <2> QED
    BY <1>1, <2>1 DEF SubjectTypes
<1>7. CASE VmShutdown \/ AbortRest \/ ForceStop
  BY <1>2, <1>7 DEF VmShutdown, AbortRest, ForceStop, Abort, Signal
<1> QED
  BY <1>3, <1>4, <1>5, <1>6, <1>7 DEF Next, Script

LEMMA TypesInit == Init => FlagTypes /\ SubjectTypes
<1> SUFFICES ASSUME Init PROVE FlagTypes /\ SubjectTypes
  OBVIOUS
<1>1. FlagTypes
  <2>1. Vm \in Threads /\ 0 \in 0..MaxPlain
    BY WorkersAssumption DEF Threads
  <2> QED
    BY <2>1 DEF Init, FlagTypes
<1>2. SubjectTypes
  <2>1. <<>> \in Seq(Subjects) /\ <<>> \in Seq(Workers) /\ <<>> \in Seq(TypedCalls) /\ Plain \in Subjects
    BY DEF Subjects
  <2> QED
    BY <2>1 DEF Init, SubjectTypes
<1> QED
  BY <1>1, <1>2

\* The types of the workers, of the calls the threads are in and of the events
\* that wait: whatever is posted, fenced, pushed or woken is a worker, so that
\* no handler reads or writes the members of another object.
THEOREM WorkersTypeCorrect == Spec => []TypeOK
<1>1. WorkersInv /\ FlagTypes /\ SubjectTypes /\ [Next]_vars => FlagTypes' /\ SubjectTypes'
  <2> SUFFICES ASSUME WorkersInv, FlagTypes, SubjectTypes, [Next]_vars PROVE FlagTypes' /\ SubjectTypes'
    OBVIOUS
  <2>1. CASE Next
    BY <2>1, FlagTypesKept, SubjectTypesKept DEF WorkersInv
  <2>2. CASE UNCHANGED vars
    BY <2>2 DEF vars, queueVars, jobVars, runVars, flagVars, vmVars, FlagTypes, SubjectTypes
  <2> QED
    BY <2>1, <2>2
<1>2. WorkersInv /\ FlagTypes /\ SubjectTypes => TypeOK
  <2> SUFFICES ASSUME WorkersInv, FlagTypes, SubjectTypes PROVE TypeOK
    OBVIOUS
  <2>1. {started, threadAborting, told, quit, missed} \subseteq [Workers -> BOOLEAN]
    BY DEF WorkersInv, WorkerTypes, FlagTypes
  <2>2. \A t \in Threads : \A i \in 1..Len(todo[t]) : todo[t][i].op \in Ops
    <3>1. ASSUME NEW t \in Threads, NEW i \in 1..Len(todo[t]) PROVE todo[t][i] \in Calls
      BY DEF WorkersInv, StackTypes
    <3> QED
      BY <3>1 DEF Calls
  <2>3. \A w \in Workers : events[w] \in Seq(Workers \union {Plain})
    BY DEF SubjectTypes, Subjects
  <2>4. cur \in [Workers -> Workers \union {Plain}] /\ vmQueue \in Seq(Workers)
    BY DEF SubjectTypes, Subjects
  <2>5. /\ parser \in [Workers -> {"none", "there", "told"}]
        /\ place \in [Workers -> {"new", "queued", "swept", "pool", "extra"}]
        /\ pc \in [Workers -> {"none", "begin", "enlist", "test", "parse", "loop", "wait", "asleep",
                               "handle", "handled", "leave", "ended"}]
        /\ late \in [Workers -> Nat] /\ fences \in [Workers -> Nat] /\ workerlist \in Seq(Workers)
    BY DEF WorkersInv, WorkerTypes, QueueTypes, PcValues
  <2>6. /\ state \in [Workers -> {"new", "terminated"}] /\ from \in [Workers -> Threads]
        /\ {shuttingdown, terminated, stopFlag} \subseteq BOOLEAN /\ plain \in 0..MaxPlain
    BY DEF FlagTypes
  <2> QED
    BY <2>1, <2>2, <2>3, <2>4, <2>5, <2>6 DEF TypeOK
<1> QED
  BY <1>1, <1>2, TypesInit, WorkersInvHolds, PTL DEF Spec
=============================================================================
