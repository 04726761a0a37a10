-------------------------- MODULE VmEventQueueProofs --------------------------
(***************************************************************************)
(* Proofs about VmEventQueue, for any threads, events and programs.  The   *)
(* inductive invariant is IInv.  An enqueueing operation is summed up by   *)
(* one lemma, so that the steps of the threads need not look into it.      *)
(***************************************************************************)
EXTENDS VmEventQueue, FiniteSetTheorems, SequenceTheorems, TLAPS

\* Handling or removing the front of a sequence leaves a sequence.
LEMMA TailType ==
  ASSUME NEW S, NEW s \in Seq(S), s # <<>>
  PROVE  /\ Head(s) \in S /\ Tail(s) \in Seq(S) /\ Len(Tail(s)) = Len(s) - 1
         /\ s[1] \in S /\ s[1] = Head(s)
         /\ Tail(s) # <<>> => Tail(s)[Len(Tail(s))] = s[Len(s)]
  BY HeadTailProperties

\* A call of handleEvent pushes a frame in front of the frames there are.
LEMMA PushType ==
  ASSUME NEW S, NEW s \in Seq(S), NEW x \in S
  PROVE  /\ <<x>> \o s \in Seq(S) /\ <<x>> \o s # <<>>
         /\ (<<x>> \o s)[Len(<<x>> \o s)] = IF s = <<>> THEN x ELSE s[Len(s)]
<1>1. <<x>> \in Seq(S) /\ Len(<<x>>) = 1
  OBVIOUS
<1> QED
  BY <1>1, ConcatProperties

\* Removing one element from a sequence leaves a sequence.
LEMMA WithoutType ==
  ASSUME NEW S, NEW q \in Seq(S), NEW i \in DOMAIN q
  PROVE  Without(q, i) \in Seq(S)
<1>1. SubSeq(q, 1, i - 1) \in Seq(S)
  BY SubSeqProperties
<1>2. SubSeq(q, i + 1, Len(q)) \in Seq(S)
  BY SubSeqProperties
<1> QED
  BY <1>1, <1>2, ConcatProperties DEF Without

\* What an action leaves alone keeps its type.
LEMMA TypeFrames ==
  /\ QueueType /\ UNCHANGED queueVars => QueueType'
  /\ FlagType /\ UNCHANGED flagVars => FlagType'
  /\ VmType /\ UNCHANGED vmVars => VmType'
  /\ EventType /\ UNCHANGED eventVars => EventType'
  /\ PostType /\ UNCHANGED postVars => PostType'
  /\ SysType /\ UNCHANGED sysVars => SysType'
<1>1. QueueType /\ UNCHANGED queueVars => QueueType'
  BY DEF QueueType, queueVars
<1>2. FlagType /\ UNCHANGED flagVars => FlagType'
  BY DEF FlagType, flagVars
<1>3. VmType /\ UNCHANGED vmVars => VmType'
  BY DEF VmType, vmVars
<1>4. EventType /\ UNCHANGED eventVars => EventType'
  BY DEF EventType, eventVars
<1>5. PostType /\ UNCHANGED postVars => PostType'
  BY DEF PostType, postVars
<1>6. SysType /\ UNCHANGED sysVars => SysType'
  BY DEF SysType, sysVars
<1> QED
  BY <1>1, <1>2, <1>3, <1>4, <1>5, <1>6

-----------------------------------------------------------------------------
\* What an enqueueing operation may do: it wakes the VM thread but moves it
\* nowhere else, never takes an event out of events_queue, and leaves the
\* queue of a VM that is shutting down alone.
Enqueued ==
  /\ QueueType'
  /\ fate' \in [Events -> Fates] /\ handled' \in [Events -> BOOLEAN]
  /\ vpc' = vpc \/ (vpc = "asleep" /\ vpc' = "loop")
  /\ events_queue # <<>> => events_queue' # <<>>
  /\ shuttingdown => events_queue' = events_queue

LEMMA RefuseEnqueues ==
  ASSUME NEW e \in Events, QueueType, EventType,
         Refuse(e) \/ RefuseSilently(e) \/ Reroute(e)
  PROVE  Enqueued
<1>1. fate' \in [Events -> Fates]
  BY DEF EventType, Fates, Refuse, RefuseSilently, Reroute
<1>2. handled' \in [Events -> BOOLEAN]
  BY DEF EventType, Refuse, RefuseSilently, Reroute
<1> QED
  BY <1>1, <1>2 DEF Enqueued, QueueType, queueVars, Refuse, RefuseSilently, Reroute

LEMMA AcceptTypes ==
  ASSUME NEW e \in Events, EventType, Accept(e)
  PROVE  fate' \in [Events -> Fates] /\ handled' \in [Events -> BOOLEAN]
  BY DEF EventType, Fates, Accept

LEMMA PushBackType ==
  ASSUME NEW e \in Events, QueueType, EventType, PushBack(e),
         UNCHANGED <<idleevents_queue, event_buffer>>
  PROVE  /\ QueueType' /\ (events_queue # <<>> => events_queue' # <<>>)
         /\ fate' \in [Events -> Fates] /\ handled' \in [Events -> BOOLEAN]
<1>1. Append(events_queue, e) \in Seq(Events) /\ Append(events_queue, e) # <<>>
  BY AppendProperties DEF QueueType
<1>2. events_queue' \in Seq(Events) /\ (events_queue # <<>> => events_queue' # <<>>)
  BY <1>1 DEF PushBack, QueueType
<1>3. half' \in Events \cup {NoEvent}
  BY DEF PushBack, QueueType
<1>4. fate' \in [Events -> Fates]
  BY DEF PushBack, Overwritten, EventType, Fates
<1> QED
  BY <1>2, <1>3, <1>4 DEF QueueType, PushBack, EventType

LEMMA AddEventEnqueues ==
  ASSUME NEW e \in Events, QueueType, EventType, AddEvent(e)
  PROVE  Enqueued
<1>1. CASE e \in Routed \/ ~NewEventsAccepted
  BY <1>1, RefuseEnqueues DEF AddEvent
<1>2. CASE ~(e \in Routed \/ ~NewEventsAccepted)
  <2>1. PushBack(e) /\ NotifyVm /\ UNCHANGED <<idleevents_queue, event_buffer>>
    BY <1>2 DEF AddEvent
  <2>2. QueueType' /\ (events_queue # <<>> => events_queue' # <<>>)
    BY <2>1, PushBackType
  <2>3. fate' \in [Events -> Fates] /\ handled' \in [Events -> BOOLEAN]
    BY <2>1, PushBackType
  <2>4. ~shuttingdown
    BY <1>2 DEF NewEventsAccepted
  <2>5. vpc' = vpc \/ (vpc = "asleep" /\ vpc' = "loop")
    BY <2>1 DEF NotifyVm
  <2> QED
    BY <2>2, <2>3, <2>4, <2>5 DEF Enqueued
<1> QED
  BY <1>1, <1>2

LEMMA PrependEventEnqueues ==
  ASSUME NEW e \in Events, QueueType, EventType, PrependEvent(e)
  PROVE  Enqueued
<1>1. CASE ~NewEventsAccepted
  BY <1>1, RefuseEnqueues DEF PrependEvent
<1>2. CASE NewEventsAccepted
  <2>1. NotifyVm /\ UNCHANGED <<idleevents_queue, event_buffer>>
    BY <1>2 DEF PrependEvent
  <2>3. ~shuttingdown
    BY <1>2 DEF NewEventsAccepted
  <2>4. vpc' = vpc \/ (vpc = "asleep" /\ vpc' = "loop")
    BY <2>1 DEF NotifyVm
  <2>5. /\ QueueType' /\ (events_queue # <<>> => events_queue' # <<>>)
        /\ fate' \in [Events -> Fates] /\ handled' \in [Events -> BOOLEAN]
    <3>1. CASE AtFront(e)
      <4>1. events_queue' = <<e>> \o events_queue /\ half' = half /\ Accept(e)
        BY <1>2, <3>1 DEF PrependEvent, PushFront
      <4>2. events_queue' \in Seq(Events) /\ events_queue' # <<>>
        BY <4>1, PushType DEF QueueType
      <4> QED
        BY <2>1, <4>1, <4>2, AcceptTypes DEF QueueType
    <3>2. CASE ~AtFront(e)
      <4>1. PushBack(e)
        BY <1>2, <3>2 DEF PrependEvent
      <4> QED
        BY <2>1, <4>1, PushBackType
    <3> QED
      BY <3>1, <3>2
  <2> QED
    BY <2>3, <2>4, <2>5 DEF Enqueued
<1> QED
  BY <1>1, <1>2

LEMMA AddIdleEventEnqueues ==
  ASSUME NEW e \in Events, QueueType, EventType, AddIdleEvent(e)
  PROVE  Enqueued
<1>1. CASE ~NewEventsAccepted \/ e \in Routed
  BY <1>1, RefuseEnqueues DEF AddIdleEvent
<1>2. CASE NewEventsAccepted /\ e \notin Routed
  <2>1. UNCHANGED <<events_queue, event_buffer, half, vpc>>
    BY <1>2 DEF AddIdleEvent
  <2>2. CASE /\ idleevents_queue' = Append(idleevents_queue, e)
             /\ Accept(e)
    BY <1>2, <2>1, <2>2, AcceptTypes, AppendProperties DEF Enqueued, QueueType
  <2>3. CASE \E i \in FirstSimilar(e) :
               /\ idleevents_queue' = Append(Without(idleevents_queue, i), e)
               /\ fate' = [fate EXCEPT ![e] = "queued", ![idleevents_queue[i]] = "replaced"]
               /\ UNCHANGED handled
    <3>1. PICK i \in FirstSimilar(e) :
               /\ idleevents_queue' = Append(Without(idleevents_queue, i), e)
               /\ fate' = [fate EXCEPT ![e] = "queued", ![idleevents_queue[i]] = "replaced"]
               /\ UNCHANGED handled
      BY <2>3
    <3>2. i \in DOMAIN idleevents_queue /\ idleevents_queue \in Seq(Events)
      BY <3>1 DEF FirstSimilar, QueueType
    <3>3. idleevents_queue' \in Seq(Events)
      BY <3>1, <3>2, WithoutType, AppendProperties
    <3>4. fate' \in [Events -> Fates] /\ handled' \in [Events -> BOOLEAN]
      BY <3>1, <3>2 DEF EventType, Fates
    <3> QED
      BY <2>1, <3>3, <3>4 DEF Enqueued, QueueType
  <2> QED
    BY <1>2, <2>2, <2>3 DEF AddIdleEvent
<1> QED
  BY <1>1, <1>2

LEMMA AddBufferEventEnqueues ==
  ASSUME NEW e \in Events, QueueType, EventType, AddBufferEvent(e)
  PROVE  Enqueued
<1>1. CASE ~NewEventsAccepted
  BY <1>1, RefuseEnqueues DEF AddBufferEvent
<1>2. CASE NewEventsAccepted
  <2>1. Accept(e) /\ UNCHANGED <<events_queue, idleevents_queue, half, vpc>>
    BY <1>2 DEF AddBufferEvent
  <2>2. /\ <<e>> \o event_buffer \in Seq(Events)
        /\ Append(event_buffer, e) \in Seq(Events)
    BY PushType, AppendProperties DEF QueueType
  <2>3. event_buffer' \in Seq(Events)
    BY <1>2, <2>2 DEF AddBufferEvent
  <2> QED
    BY <2>1, <2>3, AcceptTypes DEF Enqueued, QueueType
<1> QED
  BY <1>1, <1>2

LEMMA CallEnqueues ==
  ASSUME NEW e \in Events, QueueType, EventType, Call(e)
  PROVE  Enqueued
<1>1. Method[e] \in Methods
  BY EventsAssumption
<1> QED
  BY <1>1, AddEventEnqueues, PrependEventEnqueues, AddIdleEventEnqueues,
     AddBufferEventEnqueues DEF Call, Methods

-----------------------------------------------------------------------------
LEMMA ToPostType ==
  ASSUME NEW t \in Threads, PostType, HasNext(t)
  PROVE  ToPost(t) \in Events
<1>1. Program[t] \in Seq(Events)
  BY ThreadsAssumption
<1>2. next[t] \in 1 .. Len(Program[t])
  BY <1>1 DEF PostType, HasNext
<1> QED
  BY <1>1, <1>2 DEF ToPost

\* A broadcast of the main signal only moves threads to their next check.
LEMMA AfterSignalType ==
  ASSUME PostType
  PROVE  /\ Awake \in [Posters -> PosterPositions]
         /\ AfterSignal \in [Posters -> PosterPositions]
<1>1. Awake \in [Posters -> PosterPositions]
  BY DEF PostType, Awake, PosterPositions
<1> QED
  BY <1>1 DEF AfterSignal, PostType

\* The event being handled is an event.
LEMMA CurType ==
  ASSUME VmType, cur # <<>>
  PROVE  /\ cur[1] \in Frame /\ cur[1].ev \in Events
         /\ Tail(cur) \in Seq(Frame)
<1>1. cur \in Seq(Frame)
  BY DEF VmType
<1>2. cur[1] \in Frame /\ Tail(cur) \in Seq(Frame)
  BY <1>1, TailType
<1> QED
  BY <1>2 DEF Frame

LEMMA SignalWaiterType ==
  ASSUME NEW e \in Events, EventType, SignalWaiter(e)
  PROVE  handled' \in [Events -> BOOLEAN]
  BY DEF EventType, SignalWaiter, Signal

LEMMA FateType ==
  ASSUME NEW e \in Events, NEW v \in Fates, EventType
  PROVE  [fate EXCEPT ![e] = v] \in [Events -> Fates]
  BY DEF EventType

LEMMA NextType ==
  ASSUME NEW t \in Threads, PostType
  PROVE  [next EXCEPT ![t] = @ + 1] \in [Threads -> Nat \ {0}]
<1>1. next[t] + 1 \in Nat \ {0}
  BY DEF PostType
<1> QED
  BY <1>1 DEF PostType

LEMMA ShutdownOnErrorType ==
  ASSUME TypeOK, NEW t \in Threads, ShutdownOnError(t)
  PROVE  TypeOK'
<1> USE DEF TypeOK
<1>1. EventType'
  <2>1. PICK e \in Events : e = ToPost(t)
    BY ToPostType DEF ShutdownOnError
  <2>2. [fate EXCEPT ![e] = "elsewhere"] \in [Events -> Fates]
    BY FateType DEF Fates
  <2> QED
    BY <2>1, <2>2 DEF ShutdownOnError, EventType
<1>2. PostType'
  BY NextType DEF ShutdownOnError, PostType
<1>3. SysType'
  BY DEF ShutdownOnError, SysType
<1> QED
  BY <1>1, <1>2, <1>3, TypeFrames DEF ShutdownOnError

LEMMA PosterTypeStep ==
  ASSUME TypeOK, NEW p \in Posters, PosterStep(p)
  PROVE  TypeOK'
<1> USE DEF TypeOK
<1>1. p \in Threads /\ Program[p] \in Seq(Events)
  BY ThreadsAssumption DEF Threads
<1>2. CASE BeginTick(p)
  <2>1. FlagType'
    BY <1>2 DEF BeginTick, FlagType
  <2>2. ppc' \in [Posters -> PosterPositions]
    BY <1>2 DEF BeginTick, PostType, PosterPositions
  <2>3. next' \in [Threads -> Nat \ {0}]
    BY <1>1, <1>2 DEF BeginTick, PostType
  <2> QED
    BY <1>2, <2>1, <2>2, <2>3, TypeFrames DEF BeginTick, PostType
<1>3. CASE Post(p)
  <2>1. PICK e \in Events : e = ToPost(p)
    BY <1>1, <1>3, ToPostType DEF Post
  <2>2. Enqueued
    BY <1>3, <2>1, CallEnqueues DEF Post
  <2>3. VmType'
    BY <1>3, <2>2 DEF Post, Enqueued, VmType, VmPositions
  <2>4. EventType'
    BY <1>3, <2>2 DEF Post, Enqueued, EventType
  <2>5. ppc' \in [Posters -> PosterPositions]
    BY <1>3, AfterSignalType DEF Post, PosterPositions
  <2>6. next' \in [Threads -> Nat \ {0}]
    BY <1>1, <1>3, NextType DEF Post
  <2> QED
    BY <1>3, <2>2, <2>3, <2>4, <2>5, <2>6, TypeFrames DEF Post, Enqueued, PostType
<1>4. CASE ShutdownOnError(p)
  BY <1>1, <1>4, ShutdownOnErrorType
<1>5. CASE TickSignal(p)
  <2>1. PostType'
    BY <1>5, AfterSignalType DEF TickSignal, PostType, PosterPositions
  <2> QED
    BY <1>5, <2>1, TypeFrames DEF TickSignal
<1>6. CASE Check(p)
  <2>1. PostType'
    BY <1>6 DEF Check, PostType, PosterPositions
  <2> QED
    BY <1>6, <2>1, TypeFrames DEF Check
<1>7. CASE Enter(p)
  <2>1. PostType'
    BY <1>7 DEF Enter, PostType, PosterPositions
  <2> QED
    BY <1>7, <2>1, TypeFrames DEF Enter
<1> QED
  BY <1>2, <1>3, <1>4, <1>5, <1>6, <1>7 DEF PosterStep

LEMMA HandleFrontEventType ==
  ASSUME TypeOK, events_queue # <<>>, HandleFrontEvent
  PROVE  TypeOK'
<1> USE DEF TypeOK
<1>1. PICK e \in Events : e = Head(events_queue)
  BY TailType DEF QueueType
<1>2. QueueType'
  BY TailType DEF HandleFrontEvent, QueueType
<1>3. fate' \in [Events -> Fates]
  <2>1. \A v \in {"dropped", "handling"} : [fate EXCEPT ![e] = v] \in [Events -> Fates]
    BY FateType DEF Fates
  <2> QED
    BY <1>1, <2>1 DEF HandleFrontEvent
<1>4. cur' \in Seq(Frame)
  <2>1. Guarded(e) \in Frame /\ cur \in Seq(Frame)
    BY DEF Guarded, Frame, VmType
  <2>2. <<Guarded(e)>> \o cur \in Seq(Frame)
    BY <2>1, PushType
  <2> QED
    BY <1>1, <2>1, <2>2 DEF HandleFrontEvent
<1>5. VmType'
  BY <1>4 DEF HandleFrontEvent, VmType, VmPositions
<1>6. EventType'
  BY <1>3 DEF HandleFrontEvent, EventType
<1> QED
  BY <1>2, <1>5, <1>6, TypeFrames DEF HandleFrontEvent

\* What setError and setShutdownFlag do to the flags of the player.
LEMMA SetErrorType ==
  ASSUME SysType
  PROVE  /\ RaiseShutdown => shutdown' \in BOOLEAN /\ terminated' \in Nat
         /\ SetError => error' \in BOOLEAN /\ shutdown' \in BOOLEAN /\ terminated' \in Nat
<1>1. RaiseShutdown => shutdown' \in BOOLEAN /\ terminated' \in Nat
  BY DEF RaiseShutdown, SysType
<1>2. UNCHANGED <<shutdown, terminated>> => shutdown' \in BOOLEAN /\ terminated' \in Nat
  BY DEF SysType
<1> QED
  BY <1>1, <1>2 DEF SetError

\* Where an exception that leaves a handler takes the VM thread, and what
\* tryHandleEvent does to the flags of the player.
LEMMA UnwindOutcome ==
  ASSUME VmType, FlagType, SysType, Unwind
  PROVE  /\ vpc' \in {"loop", "handle", "drain", "report", "unwind"}
         /\ vpc' = "loop" => cur' = <<>>
         /\ vpc' = "unwind" => ~cur[1].try
         /\ vpc' = "handle" => cur' # <<>> \/ ~cur[1].try
         /\ exc' \in {"none"} \cup Exceptions /\ halted' \in BOOLEAN
         /\ error' \in BOOLEAN /\ shutdown' \in BOOLEAN /\ terminated' \in Nat
<1>1. CASE cur[1].try
  <2>1. exc' = "none" /\ (Limited \/ Failed \/ Erred \/ Hurled)
    BY <1>1 DEF Unwind
  <2>2. /\ vpc' \in {"loop", "handle", "drain", "report"}
        /\ vpc' = "loop" => cur' = <<>>
        /\ vpc' = "handle" => cur' # <<>>
    BY <2>1 DEF Limited, Failed, Erred, Hurled, Resume
  <2>3. halted' \in BOOLEAN /\ error' \in BOOLEAN /\ shutdown' \in BOOLEAN /\ terminated' \in Nat
    <3>1. CASE Limited \/ Hurled
      BY <3>1 DEF Limited, Hurled, FlagType, SysType
    <3>2. CASE Failed
      BY <3>2, SetErrorType DEF Failed, FlagType
    <3>3. CASE Erred
      BY <3>3, SetErrorType DEF Erred, FlagType, SysType
    <3> QED
      BY <2>1, <3>1, <3>2, <3>3
  <2> QED
    BY <2>1, <2>2, <2>3
<1>2. CASE ~cur[1].try
  <2>1. /\ CaughtByScript \/ UNCHANGED <<vpc, exc>>
        /\ UNCHANGED <<halted, error, shutdown, terminated>>
    BY <1>2 DEF Unwind
  <2>2. vpc' \in {"handle", "unwind"} /\ exc' \in {"none"} \cup Exceptions
    BY <2>1 DEF CaughtByScript, Unwind, VmType
  <2> QED
    BY <1>2, <2>1, <2>2 DEF FlagType, SysType
<1> QED
  BY <1>1, <1>2

LEMMA HandleTypeStep ==
  ASSUME TypeOK, HandlerStack, HandleStep
  PROVE  TypeOK'
<1> USE DEF TypeOK
<1>1. CASE HandlePlain
  <2>1. VmType'
    BY <1>1 DEF HandlePlain, VmType, VmPositions
  <2> QED
    BY <1>1, <2>1, TypeFrames DEF HandlePlain
<1>2. CASE HandleIdle
  <2>1. PICK i \in Idles :
          /\ events_queue' = WithIdleEvents(events_queue, i)
          /\ behind' = [behind EXCEPT ![i] = Range(events_queue) \cup Range(idleevents_queue)]
          /\ fate' = [fate EXCEPT ![GcOf[i]] = "queued"]
          /\ idleevents_queue' = <<>> /\ isIdle' = TRUE /\ vpc' = "finish"
          /\ UNCHANGED <<event_buffer, half, shuttingdown, halted, status, cur, exc, front,
                         handled, postVars, sysVars>>
    BY <1>2 DEF HandleIdle
  <2>2. GcOf[i] \in Events
    BY HandlingAssumption
  <2>3. events_queue' \in Seq(Events)
    <3>1. <<GcOf[i]>> \in Seq(Events) /\ events_queue \in Seq(Events) /\ idleevents_queue \in Seq(Events)
      BY <2>2 DEF QueueType
    <3>2. events_queue \o idleevents_queue \in Seq(Events)
      BY <3>1, ConcatProperties
    <3>3. (events_queue \o idleevents_queue) \o <<GcOf[i]>> \in Seq(Events)
      BY <3>1, <3>2, ConcatProperties
    <3> QED
      BY <2>1, <3>3 DEF WithIdleEvents, GcLast
  <2>4. QueueType'
    BY <2>1, <2>3 DEF QueueType
  <2>5. FlagType' /\ VmType'
    BY <2>1 DEF FlagType, VmType, VmPositions
  <2>6. Range(events_queue) \cup Range(idleevents_queue) \in SUBSET Events
    BY DEF QueueType, Range
  <2>7. behind' \in [Idles -> SUBSET Events]
    BY <2>1, <2>6 DEF EventType
  <2>8. fate' \in [Events -> Fates]
    BY <2>1, <2>2, FateType DEF Fates
  <2>9. EventType'
    BY <2>1, <2>7, <2>8 DEF EventType
  <2> QED
    BY <2>1, <2>4, <2>5, <2>9, TypeFrames
<1>3. CASE HandleFlushBuffer
  <2>1. /\ events_queue \o event_buffer \in Seq(Events)
        /\ event_buffer \o events_queue \in Seq(Events)
    BY ConcatProperties DEF QueueType
  <2>2. QueueType'
    BY <1>3, <2>1 DEF HandleFlushBuffer, ClearBuffer, QueueType
  <2>3. VmType'
    BY <1>3 DEF HandleFlushBuffer, VmType, VmPositions
  <2> QED
    BY <1>3, <2>2, <2>3, TypeFrames DEF HandleFlushBuffer
<1>4. CASE ShutdownStore
  <2>1. QueueType'
    BY <1>4, TailType DEF ShutdownStore, QueueType
  <2>2. VmType'
    BY <1>4 DEF ShutdownStore, VmType, VmPositions
  <2> QED
    BY <1>4, <2>1, <2>2, TypeFrames DEF ShutdownStore
<1>5. CASE ShutdownCount
  <2>1. idleevents_queue' \in Seq(Events)
    <3>1. SubSeq(idleevents_queue, 2, Len(idleevents_queue)) \in Seq(Events)
      BY SubSeqProperties DEF QueueType
    <3> QED
      BY <1>5, <3>1 DEF ShutdownCount
  <2>2. events_queue' \in Seq(Events)
    <3>1. half # NoEvent => Append(events_queue, half) \in Seq(Events)
      BY AppendProperties DEF QueueType
    <3> QED
      BY <1>5, <3>1 DEF ShutdownCount, QueueType
  <2>3. QueueType'
    BY <1>5, <2>1, <2>2 DEF ShutdownCount, QueueType
  <2>4. VmType'
    BY <1>5 DEF ShutdownCount, VmType, VmPositions
  <2>5. EventType'
    BY <1>5 DEF ShutdownCount, AfterMove, EventType, Fates
  <2> QED
    BY <1>5, <2>3, <2>4, <2>5, TypeFrames DEF ShutdownCount
<1>6. CASE ShutdownMoved
  <2>1. VmType'
    BY <1>6 DEF ShutdownMoved, VmType, VmPositions
  <2> QED
    BY <1>6, <2>1, TypeFrames DEF ShutdownMoved
<1>7. CASE ShutdownFlag
  <2>1. VmType' /\ FlagType'
    BY <1>7 DEF ShutdownFlag, VmType, VmPositions, FlagType
  <2> QED
    BY <1>7, <2>1, TypeFrames DEF ShutdownFlag
<1>8. CASE SignalTerminated
  <2>1. VmType' /\ SysType'
    BY <1>8 DEF SignalTerminated, VmType, VmPositions, SysType
  <2> QED
    BY <1>8, <2>1, TypeFrames DEF SignalTerminated
<1>9. CASE Finish
  <2>1. cur # <<>>
    BY <1>9 DEF Finish, HandlerStack
  <2>2. PICK e \in Events : e = cur[1].ev
    BY <2>1, CurType
  <2>3. cur' \in Seq(Frame)
    BY <1>9, <2>1, CurType DEF Finish
  <2>4. VmType'
    BY <1>9, <2>3 DEF Finish, Resume, VmType, VmPositions
  <2>5. EventType'
    BY <1>9, <2>2, SignalWaiterType, FateType DEF Finish, EventType, Fates
  <2>6. PostType'
    BY <1>9, AfterSignalType DEF Finish, PostType
  <2> QED
    BY <1>9, <2>4, <2>5, <2>6, TypeFrames DEF Finish
<1>10. CASE Throw
  <2>1. cur # <<>>
    BY <1>10 DEF Throw, HandlerStack
  <2>2. exc' \in Exceptions
    BY <1>10, <2>1, CurType, HandlingAssumption DEF Throw
  <2>3. VmType'
    BY <1>10, <2>2 DEF Throw, VmType, VmPositions
  <2> QED
    BY <1>10, <2>3, TypeFrames DEF Throw
<1>11. CASE Unwind
  <2>1. cur # <<>>
    BY <1>11 DEF Unwind, HandlerStack
  <2>2. PICK e \in Events : e = cur[1].ev
    BY <2>1, CurType
  <2>3. cur' \in Seq(Frame)
    BY <1>11, <2>1, CurType DEF Unwind
  <2>4. VmType'
    <3>1. /\ vpc' \in {"loop", "handle", "drain", "report", "unwind"}
          /\ exc' \in {"none"} \cup Exceptions
      BY <1>11, UnwindOutcome DEF VmType
    <3> QED
      BY <1>11, <2>3, <3>1 DEF Unwind, VmType, VmPositions
  <2>5. EventType'
    BY <1>11, <2>2, SignalWaiterType, FateType DEF Unwind, PassOn, EventType, Fates
  <2>6. PostType'
    BY <1>11, AfterSignalType DEF Unwind, PostType
  <2>7. FlagType' /\ SysType'
    BY <1>11, UnwindOutcome DEF Unwind, FlagType, SysType, VmType
  <2> QED
    BY <1>11, <2>4, <2>5, <2>6, <2>7, TypeFrames DEF Unwind
<1>12. CASE CheckExternalCallEvent
  BY <1>12, HandleFrontEventType DEF CheckExternalCallEvent
<1>13. CASE VmPost
  <2>1. VM \in Threads
    BY DEF Threads
  <2>2. PICK e \in Events : e = ToPost(VM)
    BY <1>13, <2>1, ToPostType DEF VmPost
  <2>3. next' \in [Threads -> Nat \ {0}]
    BY <1>13, <2>1, NextType DEF VmPost
  <2>4. CASE Waitable(e) /\ Method[e] \in {"add", "prepend", "force"}
    <3>1. /\ fate' = [fate EXCEPT ![e] = "handling"]
          /\ cur' = <<Unguarded(e)>> \o cur
          /\ UNCHANGED <<queueVars, handled, ppc, vpc>>
      BY <1>13, <2>2, <2>4 DEF VmPost
    <3>2. Unguarded(e) \in Frame /\ cur \in Seq(Frame)
      BY DEF Unguarded, Frame, VmType
    <3>3. cur' \in Seq(Frame)
      BY <3>1, <3>2, PushType
    <3>4. fate' \in [Events -> Fates]
      BY <3>1, FateType DEF Fates
    <3>5. VmType' /\ EventType' /\ PostType'
      BY <1>13, <2>3, <3>1, <3>3, <3>4 DEF VmPost, VmType, EventType, PostType
    <3> QED
      BY <1>13, <3>1, <3>5, TypeFrames DEF VmPost
  <2>5. CASE ~(Waitable(e) /\ Method[e] \in {"add", "prepend", "force"})
    <3>1. Call(e) /\ ppc' = AfterSignal /\ cur' = cur
      BY <1>13, <2>2, <2>5 DEF VmPost
    <3>2. Enqueued
      BY <3>1, CallEnqueues
    <3>3. VmType' /\ EventType'
      BY <1>13, <3>1, <3>2 DEF VmPost, Enqueued, VmType, VmPositions, EventType
    <3>4. PostType'
      BY <2>3, <3>1, AfterSignalType DEF PostType
    <3> QED
      BY <1>13, <3>2, <3>3, <3>4, TypeFrames DEF VmPost, Enqueued
  <2> QED
    BY <2>4, <2>5
<1>14. CASE ShutdownOnError(VM)
  BY <1>14, ShutdownOnErrorType DEF Threads
<1>15. CASE ReportToVm
  <2>1. Enqueued
    BY <1>15, AddEventEnqueues, HandlingAssumption DEF ReportToVm
  <2>2. VmType' /\ EventType'
    BY <1>15, <2>1 DEF ReportToVm, Enqueued, VmType, VmPositions, EventType
  <2>3. PostType'
    BY <1>15, AfterSignalType DEF ReportToVm, PostType
  <2> QED
    BY <1>15, <2>1, <2>2, <2>3, TypeFrames DEF ReportToVm, Enqueued
<1>16. CASE Report \/ Record \/ GiveUp
  <2>1. VmType'
    BY <1>16 DEF Report, Record, GiveUp, Resume, VmType, VmPositions
  <2>2. SysType'
    <3>1. error' \in BOOLEAN /\ shutdown' \in BOOLEAN /\ terminated' \in Nat
      <4>1. CASE Report
        BY <4>1, SetErrorType DEF Report, SysType
      <4>2. CASE Record
        BY <4>2, SetErrorType DEF Record
      <4>3. CASE GiveUp
        BY <4>3, SetErrorType DEF GiveUp, SysType
      <4> QED
        BY <1>16, <4>1, <4>2, <4>3
    <3> QED
      BY <1>16, <3>1 DEF Report, Record, GiveUp, SysType
  <2> QED
    BY <1>16, <2>1, <2>2, TypeFrames DEF Report, Record, GiveUp
<1> QED
  BY <1>1, <1>2, <1>3, <1>4, <1>5, <1>6, <1>7, <1>8, <1>9, <1>10, <1>11, <1>12, <1>13,
     <1>14, <1>15, <1>16 DEF HandleStep

LEMMA VmTypeStep ==
  ASSUME TypeOK, HandlerStack, FrontThere, VmStep
  PROVE  TypeOK'
<1> USE DEF TypeOK
<1>1. CASE InitVm
  <2>1. VmType' /\ FlagType'
    BY <1>1 DEF InitVm, VmType, VmPositions, FlagType
  <2> QED
    BY <1>1, <2>1, TypeFrames DEF InitVm
<1>2. CASE Sleep
  <2>1. VmType'
    BY <1>2 DEF Sleep, VmType, VmPositions
  <2> QED
    BY <1>2, <2>1, TypeFrames DEF Sleep
<1>3. CASE Take
  BY <1>3, HandleFrontEventType DEF Take
<1>4. CASE HandleStep
  BY <1>4, HandleTypeStep
<1>5. CASE DrainFront
  <2>1. VmType'
    BY <1>5, TailType DEF DrainFront, VmType, VmPositions, QueueType
  <2> QED
    BY <1>5, <2>1, TypeFrames DEF DrainFront
<1>6. CASE DrainPop
  <2>1. events_queue # <<>> /\ front \in Events
    BY <1>6 DEF DrainPop, FrontThere, VmType
  <2>2. PICK e \in Events : e = Head(events_queue)
    BY <2>1, TailType DEF QueueType
  <2>3. QueueType'
    BY <1>6, <2>1, TailType DEF DrainPop, QueueType
  <2>4. VmType'
    BY <1>6 DEF DrainPop, VmType, VmPositions
  <2>5. fate' \in [Events -> Fates]
    BY <1>6, <2>2, FateType DEF DrainPop, DropFate, Fates
  <2>6. handled' \in [Events -> BOOLEAN]
    BY <1>6, <2>1, SignalWaiterType DEF DrainPop
  <2>7. EventType'
    BY <1>6, <2>5, <2>6 DEF DrainPop, EventType
  <2>8. PostType'
    BY <1>6, AfterSignalType DEF DrainPop, PostType
  <2> QED
    BY <1>6, <2>3, <2>4, <2>7, <2>8, TypeFrames DEF DrainPop
<1>7. CASE DrainEnd
  <2>1. VmType'
    BY <1>7 DEF DrainEnd, Resume, VmType, VmPositions
  <2> QED
    BY <1>7, <2>1, TypeFrames DEF DrainEnd
<1>8. CASE StopOnEmptyQueue
  <2>1. VmType' /\ FlagType'
    BY <1>8 DEF StopOnEmptyQueue, VmType, VmPositions, FlagType
  <2> QED
    BY <1>8, <2>1, TypeFrames DEF StopOnEmptyQueue
<1>9. CASE ShutdownVM
  <2>1. VmType' /\ SysType'
    BY <1>9 DEF ShutdownVM, SecondSignal, VmType, VmPositions, SysType
  <2> QED
    BY <1>9, <2>1, TypeFrames DEF ShutdownVM
<1> QED
  BY <1>1, <1>2, <1>3, <1>4, <1>5, <1>6, <1>7, <1>8, <1>9 DEF VmStep

LEMMA TerminatedType ==
  ASSUME TypeOK, NEW from, NEW to \in MainPositions, Terminated(from, to)
  PROVE  TypeOK'
<1>1. SysType'
  BY DEF Terminated, TypeOK, SysType
<1> QED
  BY <1>1, TypeFrames DEF Terminated, TypeOK

LEMMA MainTypeStep ==
  ASSUME TypeOK, PostedOnce, MainStep
  PROVE  TypeOK'
<1> USE DEF TypeOK
<1>1. CASE AwaitTermination \/ AwaitAgain
  BY <1>1, TerminatedType DEF AwaitTermination, AwaitAgain, MainPositions
<1>2. CASE JoinPosters
  <2>1. SysType'
    BY <1>2 DEF JoinPosters, SysType, MainPositions
  <2> QED
    BY <1>2, <2>1, TypeFrames DEF JoinPosters
<1>3. CASE StopEngines
  <2>1. SysType'
    BY <1>3 DEF StopEngines, SysType, MainPositions
  <2> QED
    BY <1>3, <2>1, TypeFrames DEF StopEngines
<1>4. CASE ShutdownBegin
  <2>1. FlagType' /\ VmType' /\ SysType'
    BY <1>4 DEF ShutdownBegin, NotifyVm, FlagType, VmType, VmPositions, SysType, MainPositions
  <2> QED
    BY <1>4, <2>1, TypeFrames DEF ShutdownBegin
<1>5. CASE ShutdownSkip
  <2>1. SysType'
    BY <1>5 DEF ShutdownSkip, AfterShutdown, SysType, MainPositions
  <2> QED
    BY <1>5, <2>1, TypeFrames DEF ShutdownSkip
<1>6. CASE JoinVm
  <2>1. FlagType' /\ SysType'
    BY <1>6 DEF JoinVm, FlagType, SysType, MainPositions
  <2> QED
    BY <1>6, <2>1, TypeFrames DEF JoinVm
<1>7. CASE ShutdownEnd
  <2>1. SysType'
    BY <1>7 DEF ShutdownEnd, AfterShutdown, SysType, MainPositions
  <2> QED
    BY <1>7, <2>1, TypeFrames DEF ShutdownEnd
<1>8. CASE PostShutdown
  <2>1. Main \in Threads /\ HasNext(Main)
    BY <1>8, ThreadsAssumption DEF PostShutdown, PostedOnce, HasNext, Threads
  <2>2. PICK e \in Events : e = ToPost(Main)
    BY <2>1, ToPostType
  <2>3. Enqueued
    BY <1>8, <2>2, AddEventEnqueues DEF PostShutdown
  <2>4. VmType' /\ EventType'
    BY <1>8, <2>3 DEF PostShutdown, Enqueued, VmType, VmPositions, EventType
  <2>5. PostType'
    BY <1>8, <2>1, NextType, AfterSignalType DEF PostShutdown, PostType
  <2>6. SysType'
    BY <1>8 DEF PostShutdown, SysType, MainPositions
  <2> QED
    BY <1>8, <2>3, <2>4, <2>5, <2>6, TypeFrames DEF PostShutdown, Enqueued
<1> QED
  BY <1>1, <1>2, <1>3, <1>4, <1>5, <1>6, <1>7, <1>8 DEF MainStep

LEMMA TypeStep ==
  ASSUME TypeOK, HandlerStack, FrontThere, PostedOnce, Next
  PROVE  TypeOK'
  BY PosterTypeStep, VmTypeStep, MainTypeStep DEF Next

-----------------------------------------------------------------------------
\* What the other threads may do to the VM thread and its queue.
Undisturbed ==
  /\ cur' = cur /\ front' = front
  /\ vpc' = vpc \/ (vpc = "asleep" /\ vpc' = "loop")
  /\ events_queue # <<>> => events_queue' # <<>>
  /\ shuttingdown => shuttingdown' /\ events_queue' = events_queue

LEMMA PosterUndisturbing ==
  ASSUME TypeOK, NEW p \in Posters, PosterStep(p)
  PROVE  Undisturbed
<1>1. CASE Post(p)
  <2>1. PICK e \in Events : e = ToPost(p)
    BY <1>1, ToPostType DEF Post, TypeOK, Threads
  <2>2. Enqueued
    BY <1>1, <2>1, CallEnqueues DEF Post, TypeOK
  <2> QED
    BY <1>1, <2>2 DEF Post, Enqueued, Undisturbed, flagVars
<1>2. CASE BeginTick(p) \/ ShutdownOnError(p) \/ TickSignal(p) \/ Check(p) \/ Enter(p)
  BY <1>2 DEF BeginTick, ShutdownOnError, TickSignal, Check, Enter, Undisturbed, queueVars,
     vmVars, flagVars
<1> QED
  BY <1>1, <1>2 DEF PosterStep

LEMMA MainUndisturbing ==
  ASSUME TypeOK, PostedOnce, MainStep
  PROVE  Undisturbed
<1>1. CASE PostShutdown
  <2>1. HasNext(Main)
    BY <1>1, ThreadsAssumption DEF PostShutdown, PostedOnce, HasNext, Threads
  <2>2. PICK e \in Events : e = ToPost(Main)
    BY <2>1, ToPostType DEF TypeOK, Threads
  <2>3. Enqueued
    BY <1>1, <2>2, AddEventEnqueues DEF PostShutdown, TypeOK
  <2> QED
    BY <1>1, <2>3 DEF PostShutdown, Enqueued, Undisturbed, flagVars
<1>2. CASE ShutdownBegin
  BY <1>2 DEF ShutdownBegin, NotifyVm, Undisturbed, queueVars
<1>3. CASE AwaitTermination \/ JoinPosters \/ StopEngines \/ ShutdownSkip \/ ShutdownEnd
           \/ AwaitAgain \/ JoinVm
  BY <1>3 DEF AwaitTermination, AwaitAgain, Terminated, JoinPosters, StopEngines,
     ShutdownSkip, ShutdownEnd, JoinVm, Undisturbed, queueVars, vmVars, flagVars
<1> QED
  BY <1>1, <1>2, <1>3 DEF MainStep

LEMMA UndisturbedKeeps ==
  ASSUME HandlerStack, QueueClosed, FrontThere, Undisturbed
  PROVE  HandlerStack' /\ QueueClosed' /\ FrontThere'
<1>1. HandlerStack'
  BY DEF HandlerStack, Undisturbed
<1>2. QueueClosed'
  BY DEF QueueClosed, Undisturbed
<1>3. FrontThere'
  BY DEF FrontThere, Undisturbed
<1> QED
  BY <1>1, <1>2, <1>3

\* Taking an event pushes a frame of tryHandleEvent.
LEMMA HandleFrontEventStack ==
  ASSUME TypeOK, HandlerStack, events_queue # <<>>, HandleFrontEvent,
         vpc = "loop" \/ vpc = "handle"
  PROVE  HandlerStack'
<1>1. PICK e \in Events : e = Head(events_queue)
  BY TailType DEF TypeOK, QueueType
<1>2. CASE UNCHANGED <<vpc, cur>>
  BY <1>2 DEF HandlerStack
<1>3. CASE cur' = <<Guarded(e)>> \o cur /\ vpc' = "handle"
  <2>1. Guarded(e) \in Frame /\ cur \in Seq(Frame) /\ Guarded(e).try
    BY DEF Guarded, Frame, TypeOK, VmType
  <2>2. /\ <<Guarded(e)>> \o cur # <<>>
        /\ (<<Guarded(e)>> \o cur)[Len(<<Guarded(e)>> \o cur)]
             = IF cur = <<>> THEN Guarded(e) ELSE cur[Len(cur)]
    BY <2>1, PushType
  <2> QED
    BY <1>3, <2>1, <2>2 DEF HandlerStack
<1> QED
  BY <1>1, <1>2, <1>3 DEF HandleFrontEvent

\* Leaving a handler uncovers the frames below it.
LEMMA PopStack ==
  ASSUME VmType, HandlerStack, cur # <<>>, cur' = Tail(cur), cur' # <<>>
  PROVE  cur'[Len(cur')].try
  BY TailType DEF VmType, HandlerStack

LEMMA VmStackStep ==
  ASSUME TypeOK, HandlerStack, VmStep
  PROVE  HandlerStack'
<1>1. CASE Take \/ CheckExternalCallEvent
  BY <1>1, HandleFrontEventStack DEF Take, CheckExternalCallEvent, Runs
<1>2. CASE Finish
  <2>1. cur # <<>> /\ cur' = Tail(cur)
    BY <1>2 DEF Finish, HandlerStack
  <2>2. cur' # <<>> => cur'[Len(cur')].try
    BY <2>1, PopStack DEF TypeOK
  <2>3. vpc' = IF cur' = <<>> THEN "loop" ELSE "handle"
    BY <1>2 DEF Finish, Resume
  <2> QED
    BY <2>2, <2>3 DEF HandlerStack
<1>3. CASE Unwind
  <2>1. cur # <<>> /\ cur' = Tail(cur)
    BY <1>3 DEF Unwind, HandlerStack
  <2>2. cur' # <<>> => cur'[Len(cur')].try
    BY <2>1, PopStack DEF TypeOK
  <2>5. /\ vpc' \in {"loop", "handle", "drain", "report", "unwind"}
        /\ vpc' = "loop" => cur' = <<>>
        /\ vpc' = "unwind" => ~cur[1].try
        /\ vpc' = "handle" => cur' # <<>> \/ ~cur[1].try
    BY <1>3, UnwindOutcome DEF TypeOK
  <2>3. CASE cur[1].try
    BY <2>2, <2>3, <2>5 DEF HandlerStack
  <2>4. CASE ~cur[1].try
    <3>1. vpc' \in {"handle", "unwind"}
      BY <1>3, <2>4 DEF Unwind, CaughtByScript
    <3>2. Len(cur) # 1
      BY <2>1, <2>4 DEF HandlerStack
    <3>3. cur \in Seq(Frame) /\ Len(cur) \in Nat /\ Len(cur) # 0
      BY <2>1, EmptySeq, LenProperties DEF TypeOK, VmType
    <3>4. Len(cur') = Len(cur) - 1
      BY <2>1, <3>3, TailType
    <3>5. cur' # <<>>
      BY <3>2, <3>3, <3>4
    <3> QED
      BY <2>2, <3>1, <3>5 DEF HandlerStack
  <2> QED
    BY <2>3, <2>4
<1>4. CASE VmPost
  <2>1. vpc = "handle" /\ cur # <<>> /\ HasNext(VM)
    BY <1>4 DEF VmPost, Runs, HandlerStack
  <2>2. PICK e \in Events : e = ToPost(VM)
    BY <2>1, ToPostType DEF Threads, TypeOK
  <2>3. CASE cur' = <<Unguarded(e)>> \o cur /\ vpc' = vpc
    <3>1. Unguarded(e) \in Frame /\ cur \in Seq(Frame)
      BY DEF Unguarded, Frame, TypeOK, VmType
    <3>2. cur' # <<>> /\ cur'[Len(cur')] = cur[Len(cur)]
      BY <2>1, <2>3, <3>1, PushType
    <3> QED
      BY <2>1, <2>3, <3>2 DEF HandlerStack
  <2>4. CASE Call(e) /\ cur' = cur
    <3>1. vpc' = vpc
      BY <2>1, <2>4, CallEnqueues DEF TypeOK, Enqueued
    <3> QED
      BY <2>4, <3>1 DEF HandlerStack
  <2> QED
    BY <1>4, <2>2, <2>3, <2>4 DEF VmPost
<1>5. CASE HandlePlain \/ HandleIdle \/ HandleFlushBuffer \/ ShutdownStore \/ ShutdownCount
           \/ ShutdownMoved \/ ShutdownFlag \/ SignalTerminated \/ Throw
  <2> DEFINE Moves == /\ cur' = cur
                      /\ vpc \in {"handle", "move", "flag", "terminate"}
                      /\ vpc' \in {"handle", "move", "flag", "terminate", "finish", "unwind"}
  <2>1. HandlePlain => Moves
    BY DEF HandlePlain
  <2>2. HandleIdle => Moves
    BY DEF HandleIdle, Handling
  <2>3. HandleFlushBuffer => Moves
    BY DEF HandleFlushBuffer
  <2>4. ShutdownStore => Moves
    BY DEF ShutdownStore
  <2>5. ShutdownCount => Moves
    BY DEF ShutdownCount
  <2>6. ShutdownMoved => Moves
    BY DEF ShutdownMoved
  <2>7. ShutdownFlag => Moves
    BY DEF ShutdownFlag
  <2>8. SignalTerminated => Moves
    BY DEF SignalTerminated
  <2>9. Throw => Moves
    BY DEF Throw
  <2>10. Moves
    BY <1>5, <2>1, <2>2, <2>3, <2>4, <2>5, <2>6, <2>7, <2>8, <2>9
  <2> QED
    BY <2>10 DEF HandlerStack
<1>8. CASE ShutdownOnError(VM)
  BY <1>8 DEF ShutdownOnError, HandlerStack, vmVars
<1>9. CASE ReportToVm
  <2>1. vpc' = "report" /\ cur' = cur
    BY <1>9, AddEventEnqueues, HandlingAssumption DEF ReportToVm, Enqueued, TypeOK
  <2> QED
    BY <2>1 DEF HandlerStack
<1>10. CASE Report \/ Record \/ GiveUp
  BY <1>10 DEF Report, Record, GiveUp, Resume, HandlerStack
<1>6. CASE InitVm \/ Sleep \/ StopOnEmptyQueue \/ ShutdownVM
  BY <1>6 DEF InitVm, Sleep, StopOnEmptyQueue, ShutdownVM, HandlerStack
<1>7. CASE DrainFront \/ DrainPop \/ DrainEnd
  BY <1>7 DEF DrainFront, DrainPop, DrainEnd, Resume, HandlerStack
<1> QED
  BY <1>1, <1>2, <1>3, <1>4, <1>5, <1>6, <1>7, <1>8, <1>9, <1>10 DEF VmStep, HandleStep

\* Only a VM that shuts down ends, and a VM that ended takes no step that
\* reaches its queue.
LEMMA VmClosedStep ==
  ASSUME TypeOK, HandlerStack, QueueClosed, VmStep
  PROVE  QueueClosed'
<1>1. CASE vpc \in {"closing", "stopped"}
  <2>1. ShutdownVM \/ ShutdownOnError(VM) \/ VmPost \/ CheckExternalCallEvent \/ HandleIdle
    BY <1>1 DEF VmStep, HandleStep, InitVm, Sleep, Take, DrainFront, DrainPop, DrainEnd,
       StopOnEmptyQueue, HandlePlain, HandleFlushBuffer, ShutdownStore, ShutdownCount,
       ShutdownMoved, ShutdownFlag, SignalTerminated, Finish, Throw, Unwind, ReportToVm,
       Report, Record, GiveUp
  <2>2. ShutdownVM
    BY <1>1, <2>1 DEF ShutdownOnError, VmPost, CheckExternalCallEvent, HandleIdle, Handling, Runs
  <2> QED
    BY <1>1, <2>2 DEF ShutdownVM, QueueClosed, queueVars, flagVars
<1>2. CASE vpc \notin {"closing", "stopped"}
  <2>1. CASE StopOnEmptyQueue
    BY <2>1 DEF StopOnEmptyQueue, QueueClosed, queueVars
  <2>2. CASE ~StopOnEmptyQueue
    <3>1. vpc' \notin {"closing", "stopped"}
      <4>1. CASE InitVm \/ Sleep \/ Take \/ DrainFront \/ DrainPop \/ DrainEnd \/ ShutdownVM
        BY <1>2, <4>1 DEF InitVm, Sleep, Take, HandleFrontEvent, DrainFront, DrainPop,
           DrainEnd, Resume, ShutdownVM
      <4>2. CASE HandlePlain \/ HandleIdle \/ HandleFlushBuffer \/ ShutdownStore
                 \/ ShutdownCount \/ ShutdownMoved \/ ShutdownFlag \/ SignalTerminated
        BY <4>2 DEF HandlePlain, HandleIdle, HandleFlushBuffer, ShutdownStore, ShutdownCount,
           ShutdownMoved, ShutdownFlag, SignalTerminated
      <4>3. CASE Finish \/ Throw \/ Unwind
        BY <1>2, <4>3, UnwindOutcome DEF Finish, Throw, Resume, TypeOK
      <4>6. CASE ReportToVm \/ Report \/ Record \/ GiveUp
        BY <1>2, <4>6, AddEventEnqueues, HandlingAssumption DEF ReportToVm, Enqueued, Report,
           Record, GiveUp, Resume, TypeOK
      <4>4. CASE CheckExternalCallEvent \/ ShutdownOnError(VM)
        BY <1>2, <4>4 DEF CheckExternalCallEvent, HandleFrontEvent, ShutdownOnError, vmVars
      <4>5. CASE VmPost
        <5>1. PICK e \in Events : e = ToPost(VM)
          BY <4>5, ToPostType DEF VmPost, Threads, TypeOK
        <5>2. vpc' = vpc \/ Call(e)
          BY <4>5, <5>1 DEF VmPost
        <5> QED
          BY <1>2, <5>2, CallEnqueues DEF Enqueued, TypeOK
      <4> QED
        BY <2>2, <4>1, <4>2, <4>3, <4>4, <4>5, <4>6 DEF VmStep, HandleStep
    <3> QED
      BY <3>1 DEF QueueClosed
  <2> QED
    BY <2>1, <2>2
<1> QED
  BY <1>1, <1>2

\* signalEventWaiters pops the queue right after it has seen an event in it.
LEMMA VmFrontStep ==
  ASSUME TypeOK, HandlerStack, FrontThere, VmStep
  PROVE  FrontThere'
<1>1. CASE DrainFront
  <2>1. Head(events_queue) \in Events /\ events_queue' # <<>>
    BY <1>1, TailType DEF DrainFront, TypeOK, QueueType, queueVars
  <2> QED
    BY <1>1, <2>1, EventsAssumption DEF DrainFront, FrontThere
<1>2. CASE ~DrainFront
  <2>1. vpc' # "drop"
    <3>1. CASE InitVm \/ Sleep \/ Take \/ DrainPop \/ DrainEnd \/ StopOnEmptyQueue \/ ShutdownVM
      BY <3>1 DEF InitVm, Sleep, Take, HandleFrontEvent, DrainPop, DrainEnd, Resume,
         StopOnEmptyQueue, ShutdownVM
    <3>2. CASE HandlePlain \/ HandleIdle \/ HandleFlushBuffer \/ ShutdownStore
               \/ ShutdownCount \/ ShutdownMoved \/ ShutdownFlag \/ SignalTerminated
      BY <3>2 DEF HandlePlain, HandleIdle, HandleFlushBuffer, ShutdownStore, ShutdownCount,
         ShutdownMoved, ShutdownFlag, SignalTerminated
    <3>3. CASE Finish \/ Throw \/ Unwind
      BY <3>3, UnwindOutcome DEF Finish, Throw, Resume, TypeOK
    <3>6. CASE ReportToVm \/ Report \/ Record \/ GiveUp
      BY <3>6, AddEventEnqueues, HandlingAssumption DEF ReportToVm, Enqueued, Report, Record,
         GiveUp, Resume, TypeOK
    <3>4. CASE CheckExternalCallEvent \/ ShutdownOnError(VM)
      BY <3>4 DEF CheckExternalCallEvent, HandleFrontEvent, ShutdownOnError, Runs, vmVars
    <3>5. CASE VmPost
      <4>1. vpc = "handle"
        BY <3>5 DEF VmPost, Runs
      <4>2. PICK e \in Events : e = ToPost(VM)
        BY <3>5, ToPostType DEF VmPost, Threads, TypeOK
      <4>3. vpc' = vpc \/ Call(e)
        BY <3>5, <4>2 DEF VmPost
      <4> QED
        BY <4>1, <4>3, CallEnqueues DEF Enqueued, TypeOK
    <3> QED
      BY <1>2, <3>1, <3>2, <3>3, <3>4, <3>5, <3>6 DEF VmStep, HandleStep
  <2> QED
    BY <2>1 DEF FrontThere
<1> QED
  BY <1>1, <1>2

LEMMA PostedOnceStep ==
  ASSUME TypeOK, PostedOnce, Next
  PROVE  PostedOnce'
<1>1. Main \notin Posters /\ Main # VM /\ Main \in Threads /\ Posters \subseteq Threads
      /\ VM \in Threads
  BY ThreadsAssumption DEF Threads
<1>2. next \in [Threads -> Nat \ {0}]
  BY DEF TypeOK, PostType
<1>3. CASE VmStep \/ \E p \in Posters : PosterStep(p)
  <2>1. mpc' = mpc /\ engines' = engines
    <3>1. VmStep => mpc' = mpc /\ engines' = engines
      BY DEF VmStep, HandleStep, InitVm, Sleep, Take, HandleFrontEvent, DrainFront, DrainPop,
         DrainEnd, StopOnEmptyQueue, ShutdownVM, HandlePlain, HandleIdle, HandleFlushBuffer,
         ShutdownStore, ShutdownCount, ShutdownMoved, ShutdownFlag, SignalTerminated, Finish,
         Throw, Unwind, ReportToVm, Report, Record, GiveUp, CheckExternalCallEvent, VmPost,
         ShutdownOnError, sysVars
    <3>2. (\E p \in Posters : PosterStep(p)) => mpc' = mpc /\ engines' = engines
      BY DEF PosterStep, BeginTick, Post, ShutdownOnError, TickSignal, Check, Enter, sysVars
    <3> QED
      BY <1>3, <3>1, <3>2
  <2>2. next'[Main] = next[Main]
    <3>1. VmStep => next' = next \/ next' = [next EXCEPT ![VM] = @ + 1]
      BY DEF VmStep, HandleStep, InitVm, Sleep, Take, HandleFrontEvent, DrainFront, DrainPop,
         DrainEnd, StopOnEmptyQueue, ShutdownVM, HandlePlain, HandleIdle, HandleFlushBuffer,
         ShutdownStore, ShutdownCount, ShutdownMoved, ShutdownFlag, SignalTerminated, Finish,
         Throw, Unwind, ReportToVm, Report, Record, GiveUp, CheckExternalCallEvent, VmPost,
         ShutdownOnError, postVars
    <3>2. ASSUME NEW p \in Posters, PosterStep(p)
          PROVE  \/ next' = next
                 \/ \E n : next' = [next EXCEPT ![p] = n]
      BY <3>2 DEF PosterStep, BeginTick, Post, ShutdownOnError, TickSignal, Check, Enter
    <3> QED
      BY <1>1, <1>2, <1>3, <3>1, <3>2
  <2> QED
    BY <2>1, <2>2 DEF PostedOnce
<1>4. CASE MainStep
  <2>1. CASE AwaitTermination \/ AwaitAgain
    BY <2>1 DEF AwaitTermination, AwaitAgain, Terminated, PostedOnce, postVars
  <2>2. CASE JoinPosters \/ StopEngines \/ ShutdownBegin \/ JoinVm
    BY <2>2 DEF JoinPosters, StopEngines, ShutdownBegin, JoinVm, PostedOnce, postVars
  <2>3. CASE ShutdownSkip \/ ShutdownEnd
    BY <2>3 DEF ShutdownSkip, ShutdownEnd, AfterShutdown, PostedOnce, postVars
  <2>4. CASE PostShutdown
    BY <2>4 DEF PostShutdown, PostedOnce
  <2> QED
    BY <1>4, <2>1, <2>2, <2>3, <2>4 DEF MainStep
<1> QED
  BY <1>3, <1>4 DEF Next

-----------------------------------------------------------------------------
LEMMA InitInvariant == Init => IInv
<1> SUFFICES ASSUME Init PROVE IInv
  OBVIOUS
<1>1. QueueType /\ FlagType /\ VmType
  <2>1. <<>> \in Seq(Events) /\ <<>> \in Seq(Frame)
    BY EmptySeq
  <2>2. QueueType
    BY <2>1 DEF Init, QueueType
  <2>3. FlagType
    BY DEF Init, FlagType
  <2>4. VmType
    BY <2>1 DEF Init, VmType, VmPositions
  <2> QED
    BY <2>2, <2>3, <2>4
<1>2. EventType /\ PostType /\ SysType
  <2>1. EventType
    BY DEF Init, EventType, Fates
  <2>2. PostType
    BY DEF Init, PostType, PosterPositions
  <2>3. SysType
    BY DEF Init, SysType, MainPositions
  <2> QED
    BY <2>1, <2>2, <2>3
<1>3. HandlerStack /\ QueueClosed /\ FrontThere
  BY DEF Init, HandlerStack, QueueClosed, FrontThere
<1>4. PostedOnce
  BY DEF Init, PostedOnce, Threads
<1> QED
  BY <1>1, <1>2, <1>3, <1>4 DEF IInv, TypeOK

LEMMA NextInvariant == IInv /\ [Next]_vars => IInv'
<1> SUFFICES ASSUME IInv, [Next]_vars PROVE IInv'
  OBVIOUS
<1> USE DEF IInv
<1>1. CASE Next
  <2>1. TypeOK' /\ PostedOnce'
    BY <1>1, TypeStep, PostedOnceStep
  <2>2. HandlerStack' /\ QueueClosed' /\ FrontThere'
    <3>1. CASE VmStep
      BY <3>1, VmStackStep, VmClosedStep, VmFrontStep
    <3>2. CASE MainStep
      BY <3>2, MainUndisturbing, UndisturbedKeeps
    <3>3. CASE \E p \in Posters : PosterStep(p)
      BY <3>3, PosterUndisturbing, UndisturbedKeeps
    <3> QED
      BY <1>1, <3>1, <3>2, <3>3 DEF Next
  <2> QED
    BY <2>1, <2>2
<1>2. CASE UNCHANGED vars
  <2>1. TypeOK'
    BY <1>2, TypeFrames DEF TypeOK, vars
  <2>2. HandlerStack' /\ QueueClosed' /\ FrontThere' /\ PostedOnce'
    BY <1>2 DEF HandlerStack, QueueClosed, FrontThere, PostedOnce, vars, queueVars, flagVars,
       vmVars, postVars, sysVars
  <2> QED
    BY <2>1, <2>2
<1> QED
  BY <1>1, <1>2

\* The inductive invariant holds, whatever the threads post and in whatever
\* order their calls and the steps of the VM thread and destroy come.
THEOREM Invariant == Spec => []IInv
  BY InitInvariant, NextInvariant, PTL DEF Spec

\* Every variable of the queues, the VM thread and destroy keeps its type.
THEOREM TypeCorrect == Spec => []TypeOK
<1>1. IInv => TypeOK
  BY DEF IInv
<1> QED
  BY <1>1, Invariant, PTL

\* The VM thread of ABCVm::Run ends with an empty events_queue, and nothing
\* comes into it afterwards: no event that was in it stays behind.
THEOREM NothingStranded == Spec => []NoEventStranded
<1>1. IInv => NoEventStranded
  BY DEF IInv, QueueClosed, NoEventStranded
<1> QED
  BY <1>1, Invariant, PTL

\* An exception thrown in a nested handleEvent is always caught by a
\* tryHandleEvent of the same thread and never ends the VM thread.
THEOREM ExceptionsCaught == Spec => []ExceptionCaught
<1>1. IInv => ExceptionCaught
  <2> SUFFICES ASSUME IInv, vpc = "unwind" PROVE \E i \in DOMAIN cur : cur[i].try
    BY DEF ExceptionCaught
  <2>1. cur \in Seq(Frame) /\ cur # <<>> /\ cur[Len(cur)].try
    BY DEF IInv, TypeOK, VmType, HandlerStack
  <2>2. Len(cur) \in DOMAIN cur
    BY <2>1, EmptySeq, LenProperties
  <2> QED
    BY <2>1, <2>2
<1> QED
  BY <1>1, Invariant, PTL

(***************************************************************************)
(* Where the events are.  SHUTDOWN moves the idle events without the       *)
(* mutex, and what a thread posts meanwhile can be lost; until then the    *)
(* queues are regular.                                                     *)
(***************************************************************************)
Distinct(q)       == \A i, k \in DOMAIN q : q[i] = q[k] => i = k
Precedes(q, a, b) == \A i, k \in DOMAIN q : q[i] = a /\ q[k] = b => i < k

IdleMethods   == {"addIdle", "replaceIdle"}
BufferMethods == {"buffer", "bufferHead"}

\* A SHUTDOWN event was begun and there were events for the idle queue: only
\* then the VM thread moves idle events without the mutex.
IdleMoved == /\ \E s \in Events : Kind[s] = "shutdown" /\ Begun(s)
             /\ \E e \in Events : Method[e] \in IdleMethods /\ fate[e] # "new"

\* What is still to be posted is new, and what the VM has got is not.
Unposted ==
    \A t \in Threads : \A i \in DOMAIN Program[t] : i >= next[t] => fate[Program[t][i]] = "new"
Known ==
    /\ \A e \in Range(events_queue) \cup Range(idleevents_queue) \cup Range(event_buffer) :
         fate[e] # "new"
    /\ half # NoEvent => fate[half] # "new" /\ Method[half] \in IdleMethods
    /\ \A i \in DOMAIN cur : fate[cur[i].ev] # "new"
    /\ \A e \in Range(idleevents_queue) : Method[e] \in IdleMethods
    /\ \A e \in Range(event_buffer) : Method[e] \in BufferMethods
Posting == Unposted /\ Known

InPlace(e) == e \in Range(events_queue) \/ e \in Range(idleevents_queue) \/ e \in Range(event_buffer)

\* The events that are queued, and no others, are in one place of one queue.
Placement ==
    /\ Distinct(events_queue) /\ Distinct(idleevents_queue) /\ Distinct(event_buffer)
    /\ \A e \in Range(events_queue) : e \notin Range(idleevents_queue) /\ e \notin Range(event_buffer)
    /\ \A e \in Events : fate[e] = "queued" <=> InPlace(e)
Queues == Placement /\ half = NoEvent /\ vpc # "move"

\* The events that are handled are the stack of the VM thread.
Handlers ==
    /\ \A i, k \in DOMAIN cur : cur[i].ev = cur[k].ev => i = k
    /\ \A e \in Events : fate[e] = "handling" <=> \E i \in DOMAIN cur : cur[i].ev = e

\* A collection is queued once, and what was there then is in front of it.
Collections ==
    \A d \in Idles :
        /\ fate[GcOf[d]] # "new" => fate[d] = "handled" \/ (vpc = "finish" /\ cur[1].ev = d)
        /\ fate[GcOf[d]] = "queued" => GcOf[d] \in Range(events_queue)
        /\ \A e \in behind[d] :
             /\ fate[e] # "new"
             /\ fate[e] = "queued" => /\ e \in Range(events_queue) /\ fate[GcOf[d]] = "queued"
                                      /\ Precedes(events_queue, e, GcOf[d])

\* Who waits for an event that is over has been signalled, unless
\* signalEventWaiters popped it in the place of another.
Served ==
    \A e \in Events : Waitable(e) /\ fate[e] \in {"handled", "dropped"} => handled[e]

Waiting == {"signal", "check", "enter", "asleep"}
Live    == {"queued", "handling", "handled", "dropped", "mistaken"}
Waiter(p) ==
    ppc[p] \in Waiting => /\ next[p] - 1 \in DOMAIN Program[p] /\ Waitable(Waited(p))
                          /\ handled[Waited(p)] \/ fate[Waited(p)] \in Live
Waiters == \A p \in Posters : Waiter(p)

Regular == Queues /\ Handlers /\ Collections /\ Served /\ Waiters

QueueInv == IInv /\ Posting /\ (IdleMoved \/ Regular)

(***************************************************************************)
(* Sequences without repetition, and the order of their elements.          *)
(***************************************************************************)
LEMMA RangeIndex ==
  ASSUME NEW S, NEW q \in Seq(S)
  PROVE  /\ DOMAIN q = 1 .. Len(q) /\ Len(q) \in Nat /\ Range(q) \subseteq S
         /\ \A x : x \in Range(q) <=> \E i \in 1 .. Len(q) : q[i] = x
  BY LenProperties DEF Range

LEMMA ConcatKeeps ==
  ASSUME NEW S, NEW q \in Seq(S), NEW r \in Seq(S)
  PROVE  /\ Range(q \o r) = Range(q) \cup Range(r)
         /\ Distinct(q) /\ Distinct(r) /\ Range(q) \cap Range(r) = {} => Distinct(q \o r)
         /\ \A a, b : Precedes(q, a, b) /\ a \notin Range(r) => Precedes(q \o r, a, b)
         /\ \A a, b : Precedes(r, a, b) /\ b \notin Range(q) => Precedes(q \o r, a, b)
         /\ \A a, b : a \notin Range(r) /\ b \notin Range(q) => Precedes(q \o r, a, b)
<1> DEFINE c == q \o r
<1>1. /\ c \in Seq(S) /\ Len(c) = Len(q) + Len(r) /\ Len(q) \in Nat /\ Len(r) \in Nat
      /\ \A i \in 1 .. Len(c) : c[i] = IF i <= Len(q) THEN q[i] ELSE r[i - Len(q)]
  BY ConcatProperties, LenProperties
<1>2. DOMAIN c = 1 .. Len(c) /\ DOMAIN q = 1 .. Len(q) /\ DOMAIN r = 1 .. Len(r)
  BY <1>1, RangeIndex
<1> HIDE DEF c
<1>3. \A i \in 1 .. Len(c) : \/ i \in 1 .. Len(q) /\ c[i] = q[i]
                             \/ i > Len(q) /\ i - Len(q) \in 1 .. Len(r) /\ c[i] = r[i - Len(q)]
  <2> TAKE i \in 1 .. Len(c)
  <2>1. CASE i <= Len(q)
    BY <1>1, <2>1
  <2>2. CASE i > Len(q)
    <3>1. i - Len(q) \in 1 .. Len(r)
      BY <1>1, <2>2
    <3>2. c[i] = r[i - Len(q)]
      BY <1>1, <2>2
    <3> QED
      BY <2>2, <3>1, <3>2
  <2> QED
    BY <1>1, <2>1, <2>2
<1>4. \A i \in 1 .. Len(q) : i \in 1 .. Len(c) /\ c[i] = q[i]
  BY <1>1
<1>5. \A i \in 1 .. Len(r) : Len(q) + i \in 1 .. Len(c) /\ c[Len(q) + i] = r[i]
  <2> TAKE i \in 1 .. Len(r)
  <2>1. Len(q) + i \in 1 .. Len(c) /\ ~(Len(q) + i <= Len(q)) /\ (Len(q) + i) - Len(q) = i
    BY <1>1
  <2>2. c[Len(q) + i] = r[(Len(q) + i) - Len(q)]
    BY <1>1, <2>1
  <2> QED
    BY <2>1, <2>2
<1>q. \A i \in 1 .. Len(q) : q[i] \in Range(q)
  BY RangeIndex
<1>r. \A i \in 1 .. Len(r) : r[i] \in Range(r)
  BY RangeIndex
<1>6. Range(c) = Range(q) \cup Range(r)
  <2>1. ASSUME NEW x \in Range(c) PROVE x \in Range(q) \cup Range(r)
    <3>1. PICK i \in 1 .. Len(c) : c[i] = x
      BY <1>1, RangeIndex
    <3> QED
      BY <1>3, <1>q, <1>r, <3>1
  <2>2. ASSUME NEW x \in Range(q) PROVE x \in Range(c)
    <3>1. PICK i \in 1 .. Len(q) : q[i] = x
      BY <2>2, RangeIndex
    <3> QED
      BY <1>1, <1>4, <3>1, RangeIndex
  <2>3. ASSUME NEW x \in Range(r) PROVE x \in Range(c)
    <3>1. PICK i \in 1 .. Len(r) : r[i] = x
      BY <2>3, RangeIndex
    <3>2. Len(q) + i \in 1 .. Len(c) /\ c[Len(q) + i] = x
      BY <1>5, <3>1
    <3> QED
      BY <1>1, <3>2, RangeIndex
  <2> QED
    BY <2>1, <2>2, <2>3
<1>7. ASSUME Distinct(q), Distinct(r), Range(q) \cap Range(r) = {} PROVE Distinct(c)
  <2> SUFFICES ASSUME NEW i \in 1 .. Len(c), NEW k \in 1 .. Len(c), c[i] = c[k] PROVE i = k
    BY <1>2 DEF Distinct
  <2>1. CASE i <= Len(q) /\ k <= Len(q)
    BY <1>2, <1>3, <1>7, <2>1 DEF Distinct
  <2>2. CASE i > Len(q) /\ k > Len(q)
    <3>1. i - Len(q) \in 1 .. Len(r) /\ c[i] = r[i - Len(q)]
      BY <1>1, <1>3, <2>2
    <3>2. k - Len(q) \in 1 .. Len(r) /\ c[k] = r[k - Len(q)]
      BY <1>1, <1>3, <2>2
    <3>3. i - Len(q) = k - Len(q)
      BY <1>2, <1>7, <3>1, <3>2 DEF Distinct
    <3> QED
      BY <1>1, <3>3
  <2>3. ASSUME NEW m \in 1 .. Len(c), NEW n \in 1 .. Len(c), m <= Len(q), n > Len(q) PROVE c[m] # c[n]
    <3>1. c[m] \in Range(q)
      BY <1>1, <1>3, <1>q, <2>3
    <3>2. c[n] \in Range(r)
      BY <1>1, <1>3, <1>r, <2>3
    <3> QED
      BY <1>7, <3>1, <3>2
  <2> QED
    BY <1>1, <2>1, <2>2, <2>3
<1>8. ASSUME NEW a, NEW b, Precedes(q, a, b), a \notin Range(r) PROVE Precedes(c, a, b)
  BY <1>1, <1>2, <1>3, <1>r, <1>8 DEF Precedes
<1>9. ASSUME NEW a, NEW b, Precedes(r, a, b), b \notin Range(q) PROVE Precedes(c, a, b)
  <2> SUFFICES ASSUME NEW i \in 1 .. Len(c), NEW k \in 1 .. Len(c), c[i] = a, c[k] = b PROVE i < k
    BY <1>2 DEF Precedes
  <2>1. k > Len(q) /\ k - Len(q) \in 1 .. Len(r) /\ b = r[k - Len(q)]
    BY <1>3, <1>9, <1>q
  <2>2. CASE i <= Len(q)
    BY <1>1, <2>1, <2>2
  <2>3. CASE i > Len(q)
    <3>1. i - Len(q) \in 1 .. Len(r) /\ a = r[i - Len(q)]
      BY <1>1, <1>3, <2>3
    <3>2. i - Len(q) < k - Len(q)
      BY <1>2, <1>9, <2>1, <3>1 DEF Precedes
    <3> QED
      BY <1>1, <3>2
  <2> QED
    BY <1>1, <2>2, <2>3
<1>10. ASSUME NEW a, NEW b, a \notin Range(r), b \notin Range(q) PROVE Precedes(c, a, b)
  BY <1>1, <1>2, <1>3, <1>q, <1>r, <1>10 DEF Precedes
<1> QED
  BY <1>6, <1>7, <1>8, <1>9, <1>10 DEF c

LEMMA SingleFacts ==
  ASSUME NEW S, NEW e \in S
  PROVE  <<e>> \in Seq(S) /\ Range(<<e>>) = {e} /\ Distinct(<<e>>)
<1>1. <<e>> \in Seq(S) /\ Len(<<e>>) = 1 /\ <<e>>[1] = e /\ DOMAIN <<e>> = {1}
  OBVIOUS
<1> QED
  BY <1>1 DEF Range, Distinct

LEMMA AppendKeeps ==
  ASSUME NEW S, NEW q \in Seq(S), NEW e \in S
  PROVE  /\ Range(Append(q, e)) = Range(q) \cup {e}
         /\ Distinct(q) /\ e \notin Range(q) => Distinct(Append(q, e))
         /\ \A a, b : Precedes(q, a, b) /\ a # e => Precedes(Append(q, e), a, b)
         /\ q # <<>> => Head(Append(q, e)) = Head(q)
<1>1. Append(q, e) = q \o <<e>>
  BY SingleFacts, AppendIsConcat
<1>2. q # <<>> => Head(Append(q, e)) = Head(q)
  BY AppendProperties, HeadTailProperties
<1>3. <<e>> \in Seq(S) /\ Range(<<e>>) = {e} /\ Distinct(<<e>>)
  BY SingleFacts
<1> DEFINE x == <<e>>
<1> HIDE DEF x
<1>4. /\ Range(q \o x) = Range(q) \cup {e}
      /\ Distinct(q) /\ e \notin Range(q) => Distinct(q \o x)
      /\ \A a, b : Precedes(q, a, b) /\ a # e => Precedes(q \o x, a, b)
  <2>1. x \in Seq(S) /\ Range(x) = {e} /\ Distinct(x)
    BY <1>3 DEF x
  <2> QED
    BY <2>1, ConcatKeeps
<1> QED
  BY <1>1, <1>2, <1>4 DEF x

LEMMA PrependKeeps ==
  ASSUME NEW S, NEW q \in Seq(S), NEW e \in S
  PROVE  /\ Range(<<e>> \o q) = Range(q) \cup {e}
         /\ Distinct(q) /\ e \notin Range(q) => Distinct(<<e>> \o q)
         /\ \A a, b : Precedes(q, a, b) /\ b # e => Precedes(<<e>> \o q, a, b)
         /\ Head(<<e>> \o q) = e
<1>1. Head(<<e>> \o q) = e
  BY SingleFacts, ConcatProperties
<1> DEFINE x == <<e>>
<1>2. x \in Seq(S) /\ Range(x) = {e} /\ Distinct(x)
  BY SingleFacts
<1> HIDE DEF x
<1>3. /\ Range(x \o q) = Range(q) \cup {e}
      /\ Distinct(q) /\ e \notin Range(q) => Distinct(x \o q)
      /\ \A a, b : Precedes(q, a, b) /\ b # e => Precedes(x \o q, a, b)
  BY <1>2, ConcatKeeps
<1> QED
  BY <1>1, <1>3 DEF x

LEMMA TailKeeps ==
  ASSUME NEW S, NEW q \in Seq(S), q # <<>>
  PROVE  /\ Range(Tail(q)) \subseteq Range(q) /\ Head(q) \in Range(q)
         /\ Distinct(q) => Distinct(Tail(q)) /\ Range(Tail(q)) = Range(q) \ {Head(q)}
         /\ \A a, b : Precedes(q, a, b) => Precedes(Tail(q), a, b)
         /\ \A a, b : Precedes(q, a, b) /\ a \in Range(q) /\ Distinct(q) => b # Head(q)
<1> DEFINE t == Tail(q)
<1>1. /\ t \in Seq(S) /\ Len(t) = Len(q) - 1 /\ Head(q) = q[1] /\ Len(q) \in Nat /\ Len(q) > 0
      /\ \A i \in 1 .. Len(t) : t[i] = q[i + 1]
  BY HeadTailProperties, LenProperties, EmptySeq
<1>2. DOMAIN t = 1 .. Len(t) /\ DOMAIN q = 1 .. Len(q)
  BY <1>1, RangeIndex
<1> HIDE DEF t
<1>3. \A i \in 1 .. Len(t) : i + 1 \in 1 .. Len(q) /\ t[i] = q[i + 1]
  BY <1>1
<1>4. \A i \in 1 .. Len(q) : i # 1 => i - 1 \in 1 .. Len(t) /\ t[i - 1] = q[i]
  BY <1>1
<1>5. Range(t) \subseteq Range(q) /\ Head(q) \in Range(q)
  BY <1>1, <1>3, RangeIndex
<1>6. ASSUME Distinct(q) PROVE Distinct(t) /\ Range(t) = Range(q) \ {Head(q)}
  <2>1. Distinct(t)
    <3> SUFFICES ASSUME NEW i \in 1 .. Len(t), NEW k \in 1 .. Len(t), t[i] = t[k] PROVE i = k
      BY <1>2 DEF Distinct
    <3>1. i + 1 = k + 1
      BY <1>2, <1>3, <1>6 DEF Distinct
    <3> QED
      BY <3>1
  <2>2. ASSUME NEW x \in Range(t) PROVE x # Head(q)
    <3>1. PICK i \in 1 .. Len(t) : t[i] = x
      BY <1>1, RangeIndex
    <3> QED
      BY <1>1, <1>2, <1>3, <1>6, <3>1 DEF Distinct
  <2>3. ASSUME NEW x \in Range(q), x # Head(q) PROVE x \in Range(t)
    <3>1. PICK i \in 1 .. Len(q) : q[i] = x
      BY RangeIndex
    <3> QED
      BY <1>1, <1>4, <2>3, <3>1, RangeIndex
  <2> QED
    BY <1>5, <2>1, <2>2, <2>3
<1>7. ASSUME NEW a, NEW b, Precedes(q, a, b) PROVE Precedes(t, a, b)
  BY <1>1, <1>2, <1>3, <1>7 DEF Precedes
<1>8. ASSUME NEW a, NEW b, Precedes(q, a, b), a \in Range(q), Distinct(q) PROVE b # Head(q)
  <2>1. PICK i \in 1 .. Len(q) : q[i] = a
    BY <1>8, RangeIndex
  <2> QED
    BY <1>1, <1>2, <1>8, <2>1 DEF Precedes
<1> QED
  BY <1>5, <1>6, <1>7, <1>8 DEF t

LEMMA WithoutKeeps ==
  ASSUME NEW S, NEW q \in Seq(S), NEW i \in DOMAIN q
  PROVE  /\ Range(Without(q, i)) \subseteq Range(q)
         /\ Distinct(q) => Distinct(Without(q, i)) /\ Range(Without(q, i)) = Range(q) \ {q[i]}
<1> DEFINE a == SubSeq(q, 1, i - 1)
           b == SubSeq(q, i + 1, Len(q))
<1>1. i \in 1 .. Len(q) /\ DOMAIN q = 1 .. Len(q) /\ Len(q) \in Nat
  BY RangeIndex
<1>2. a \in Seq(S) /\ Len(a) = i - 1 /\ \A k \in 1 .. i - 1 : a[k] = q[k]
  BY <1>1, SubSeqProperties
<1>3. b \in Seq(S) /\ Len(b) = Len(q) - i /\ \A k \in 1 .. Len(q) - i : b[k] = q[i + k]
  BY <1>1, SubSeqProperties
<1>4. DOMAIN a = 1 .. (i - 1) /\ DOMAIN b = 1 .. (Len(q) - i)
  BY <1>2, <1>3, RangeIndex
<1>5. Without(q, i) = a \o b
  BY DEF Without
<1> HIDE DEF a, b
<1>6. \A x : x \in Range(a) <=> \E k \in 1 .. (i - 1) : q[k] = x
  BY <1>2, RangeIndex
<1>7. \A x : x \in Range(b) <=> \E k \in 1 .. (Len(q) - i) : q[i + k] = x
  <2>1. \A x : x \in Range(b) <=> \E k \in 1 .. Len(b) : b[k] = x
    BY <1>3, RangeIndex
  <2> QED
    BY <1>3, <2>1
<1>8. \A x : x \in Range(a) \cup Range(b) <=> \E k \in 1 .. Len(q) : k # i /\ q[k] = x
  <2>1. ASSUME NEW x, NEW k \in 1 .. Len(q), k # i, q[k] = x PROVE x \in Range(a) \cup Range(b)
    <3>1. CASE k < i
      BY <1>1, <1>6, <2>1, <3>1
    <3>2. CASE k > i
      <4>1. k - i \in 1 .. (Len(q) - i) /\ i + (k - i) = k
        BY <1>1, <3>2
      <4> QED
        BY <1>7, <2>1, <4>1
    <3> QED
      BY <1>1, <2>1, <3>1, <3>2
  <2>2. ASSUME NEW x \in Range(a) \cup Range(b) PROVE \E k \in 1 .. Len(q) : k # i /\ q[k] = x
    <3>1. ASSUME NEW k \in 1 .. (Len(q) - i), q[i + k] = x PROVE \E m \in 1 .. Len(q) : m # i /\ q[m] = x
      <4>1. i + k \in 1 .. Len(q) /\ i + k # i
        BY <1>1
      <4> QED
        BY <3>1, <4>1
    <3>2. ASSUME NEW k \in 1 .. (i - 1), q[k] = x PROVE \E m \in 1 .. Len(q) : m # i /\ q[m] = x
      BY <1>1, <3>2
    <3> QED
      BY <1>6, <1>7, <2>2, <3>1, <3>2
  <2> QED
    BY <2>1, <2>2
<1>9. Range(a \o b) = Range(a) \cup Range(b)
  BY <1>2, <1>3, ConcatKeeps
<1>10. Range(a \o b) \subseteq Range(q)
  BY <1>8, <1>9, RangeIndex
<1>11. ASSUME Distinct(q) PROVE Distinct(a \o b) /\ Range(a \o b) = Range(q) \ {q[i]}
  <2>1. Distinct(a)
    BY <1>1, <1>2, <1>4, <1>11 DEF Distinct
  <2>5. Distinct(b)
    <3> SUFFICES ASSUME NEW k \in 1 .. (Len(q) - i), NEW m \in 1 .. (Len(q) - i), b[k] = b[m] PROVE k = m
      BY <1>4 DEF Distinct
    <3>1. q[i + k] = q[i + m] /\ i + k \in 1 .. Len(q) /\ i + m \in 1 .. Len(q)
      BY <1>1, <1>3
    <3>2. i + k = i + m
      BY <1>1, <1>11, <3>1 DEF Distinct
    <3> QED
      BY <1>1, <3>2
  <2>2. Range(a) \cap Range(b) = {}
    <3>1. ASSUME NEW x \in Range(a), x \in Range(b) PROVE FALSE
      <4>1. PICK k \in 1 .. (i - 1) : q[k] = x
        BY <1>6
      <4>2. PICK m \in 1 .. (Len(q) - i) : q[i + m] = x
        BY <1>7, <3>1
      <4>3. k \in 1 .. Len(q) /\ i + m \in 1 .. Len(q) /\ k # i + m
        BY <1>1
      <4> QED
        BY <1>1, <1>11, <4>1, <4>2, <4>3 DEF Distinct
    <3> QED
      BY <3>1
  <2>3. Distinct(a \o b)
    BY <1>2, <1>3, <2>1, <2>5, <2>2, ConcatKeeps
  <2>4. Range(a \o b) = Range(q) \ {q[i]}
    BY <1>1, <1>8, <1>9, <1>11, RangeIndex DEF Distinct
  <2> QED
    BY <2>3, <2>4
<1> QED
  BY <1>5, <1>10, <1>11

(***************************************************************************)
(* What an operation that is given the event e may do, in every state and  *)
(* while the queues are regular.                                           *)
(***************************************************************************)
Over == {"handling", "handled", "dropped", "mistaken"}

Moves(e) ==
    /\ fate'[e] # "new"
    /\ \A x \in Events : x # e => (fate'[x] = "new" <=> fate[x] = "new")
    /\ \A x \in Events : Kind[x] = "shutdown" /\ fate[x] \in Over => fate'[x] \in Over
    /\ Range(events_queue') \subseteq Range(events_queue) \cup {e}
    /\ Range(idleevents_queue') \subseteq Range(idleevents_queue) \cup {x \in {e} : Method[x] \in IdleMethods}
    /\ Range(event_buffer') \subseteq Range(event_buffer) \cup {x \in {e} : Method[x] \in BufferMethods}
    /\ half' \in {half, NoEvent}

Settles(e) ==
    /\ fate'[e] \in {"queued", "refused", "elsewhere"}
    /\ \A x \in Events : x # e => \/ fate'[x] = fate[x]
                                  \/ x \in Range(idleevents_queue) /\ fate'[x] = "replaced"
    /\ \A x \in Events : handled[x] => handled'[x]
    /\ Waitable(e) /\ Method[e] = "add" => fate'[e] = "queued" \/ handled'[e]

Orders(e) ==
    /\ Range(events_queue) \subseteq Range(events_queue')
    /\ \A a, b : a # e /\ b # e /\ Precedes(events_queue, a, b) => Precedes(events_queue', a, b)

Takes(e) == Settles(e) /\ Orders(e) /\ Placement' /\ half' = NoEvent

\* An event the VM has not seen is in none of its queues.
LEMMA NewNowhere ==
  ASSUME NEW e \in Events, Known, fate[e] = "new"
  PROVE  ~InPlace(e) /\ \A i \in DOMAIN cur : cur[i].ev # e
  BY DEF Known, InPlace

LEMMA QueueRanges ==
  ASSUME QueueType
  PROVE  /\ Range(events_queue) \subseteq Events /\ Range(idleevents_queue) \subseteq Events
         /\ Range(event_buffer) \subseteq Events
  BY RangeIndex DEF QueueType

LEMMA RefuseTakes ==
  ASSUME NEW e \in Events, QueueType, EventType, Known, fate[e] = "new",
         \/ Refuse(e)
         \/ RefuseSilently(e) /\ Method[e] # "add"
         \/ Reroute(e) /\ e \in Routed
  PROVE  Moves(e) /\ (Queues => Takes(e))
<1>1. \E v \in {"refused", "elsewhere"} : fate' = [fate EXCEPT ![e] = v]
  BY DEF Refuse, RefuseSilently, Reroute
<1>2. fate'[e] \in {"refused", "elsewhere"} /\ \A x \in Events : x # e => fate'[x] = fate[x]
  BY <1>1 DEF EventType
<1>3. UNCHANGED queueVars
  BY DEF Refuse, RefuseSilently, Reroute
<1>4. Moves(e)
  BY <1>2, <1>3 DEF Moves, Over, queueVars
<1>5. ASSUME Queues PROVE Takes(e)
  <2>1. Waitable(e) /\ Method[e] = "add" => handled'[e]
    BY ProgramsAssumption DEF Refuse, Reroute, RefuseSilently, Waitable, EventType
  <2>2. \A x \in Events : handled[x] => handled'[x]
    BY DEF Refuse, Reroute, RefuseSilently, EventType
  <2>3. Settles(e)
    BY <1>2, <2>1, <2>2 DEF Settles
  <2>4. Orders(e)
    BY <1>3 DEF Orders, queueVars
  <2>5. ~InPlace(e)
    BY NewNowhere
  <2>6. Placement'
    BY <1>2, <1>3, <1>5, <2>5 DEF Queues, Placement, InPlace, queueVars
  <2> QED
    BY <1>3, <1>5, <2>3, <2>4, <2>6 DEF Takes, Queues, queueVars
<1> QED
  BY <1>4, <1>5

LEMMA AcceptMoves ==
  ASSUME NEW e \in Events, EventType, Accept(e), fate[e] = "new"
  PROVE  /\ fate'[e] = "queued" /\ handled' = handled
         /\ \A x \in Events : x # e => fate'[x] = fate[x]
         /\ Settles(e)
<1>1. /\ fate'[e] = "queued" /\ handled' = handled
      /\ \A x \in Events : x # e => fate'[x] = fate[x]
  BY DEF EventType, Accept
<1> QED
  BY <1>1 DEF Settles

LEMMA PushBackTakes ==
  ASSUME NEW e \in Events, QueueType, EventType, Known, fate[e] = "new",
         PushBack(e), UNCHANGED <<idleevents_queue, event_buffer>>
  PROVE  Moves(e) /\ (Queues => Takes(e))
<1>0. half # NoEvent => half \in Events /\ half # e /\ Kind[half] # "shutdown" /\ fate[half] # "new"
  BY ProgramsAssumption DEF QueueType, Known, IdleMethods
<1>1. /\ fate'[e] \in {"queued", "lost"} /\ handled' = handled
      /\ \A x \in Events : x # e => fate'[x] = fate[x] \/ (x = half /\ fate'[x] = "lost")
  BY EventsAssumption DEF PushBack, Overwritten, EventType
<1>2. events_queue \in Seq(Events) /\ ~InPlace(e)
  BY NewNowhere DEF QueueType
<1>3. Range(Append(events_queue, e)) = Range(events_queue) \cup {e}
  BY <1>2, AppendKeeps
<1>4. Range(events_queue') \subseteq Range(events_queue) \cup {e}
  BY <1>3 DEF PushBack
<1>5. Moves(e)
  <2>1. fate'[e] # "new" /\ \A x \in Events : x # e => (fate'[x] = "new" <=> fate[x] = "new")
    BY <1>0, <1>1, EventsAssumption
  <2>2. \A x \in Events : Kind[x] = "shutdown" /\ fate[x] \in Over => fate'[x] \in Over
    BY <1>0, <1>1, EventsAssumption DEF Over
  <2> QED
    BY <1>4, <2>1, <2>2 DEF Moves, PushBack
<1>6. ASSUME Queues PROVE Takes(e)
  <2>1. events_queue' = Append(events_queue, e) /\ half' = NoEvent /\ half = NoEvent
    BY <1>6 DEF PushBack, Queues
  <2>5. fate'[e] = "queued" /\ \A x \in Events : x # e => fate'[x] = fate[x]
    BY <1>6, <2>1, EventsAssumption DEF PushBack, Queues, EventType
  <2>6. Settles(e)
    BY <1>1, <2>5 DEF Settles
  <2>2. Distinct(events_queue') /\ Range(events_queue') = Range(events_queue) \cup {e}
    BY <1>2, <1>3, <1>6, <2>1, AppendKeeps DEF Queues, Placement, InPlace
  <2>3. Orders(e)
    BY <1>2, <2>1, <2>2, AppendKeeps DEF Orders
  <2>4. Placement'
    BY <1>2, <1>6, <2>2, <2>5 DEF Queues, Placement, InPlace
  <2> QED
    BY <2>1, <2>3, <2>4, <2>6 DEF Takes
<1> QED
  BY <1>5, <1>6

LEMMA AddEventTakes ==
  ASSUME NEW e \in Events, QueueType, EventType, Known, fate[e] = "new", AddEvent(e)
  PROVE  Moves(e) /\ (Queues => Takes(e))
<1>1. CASE e \in Routed \/ ~NewEventsAccepted
  BY <1>1, RefuseTakes DEF AddEvent
<1>2. CASE ~(e \in Routed \/ ~NewEventsAccepted)
  BY <1>2, PushBackTakes DEF AddEvent
<1> QED
  BY <1>1, <1>2

LEMMA PrependEventTakes ==
  ASSUME NEW e \in Events, QueueType, EventType, Known, fate[e] = "new", PrependEvent(e),
         Method[e] # "add"
  PROVE  Moves(e) /\ (Queues => Takes(e))
<1>1. CASE ~NewEventsAccepted
  BY <1>1, RefuseTakes DEF PrependEvent
<1>2. CASE NewEventsAccepted /\ ~AtFront(e)
  BY <1>2, PushBackTakes DEF PrependEvent
<1>3. CASE NewEventsAccepted /\ AtFront(e)
  <2>1. /\ events_queue' = <<e>> \o events_queue /\ UNCHANGED <<idleevents_queue, event_buffer, half>>
        /\ Accept(e)
    BY <1>3 DEF PrependEvent, PushFront
  <2>2. /\ fate'[e] = "queued" /\ handled' = handled /\ Settles(e)
        /\ \A x \in Events : x # e => fate'[x] = fate[x]
    BY <2>1, AcceptMoves
  <2>3. events_queue \in Seq(Events) /\ ~InPlace(e)
    BY NewNowhere DEF QueueType
  <2>4. /\ Range(events_queue') = Range(events_queue) \cup {e} /\ Head(events_queue') = e
        /\ Distinct(events_queue) /\ e \notin Range(events_queue) => Distinct(events_queue')
        /\ \A a, b : Precedes(events_queue, a, b) /\ b # e => Precedes(events_queue', a, b)
    BY <2>1, <2>3, PrependKeeps
  <2>5. Moves(e)
    BY <2>1, <2>2, <2>4 DEF Moves, Over
  <2>6. ASSUME Queues PROVE Takes(e)
    <3>1. Orders(e)
      BY <2>4 DEF Orders
    <3>2. Placement'
      BY <2>1, <2>2, <2>3, <2>4, <2>6 DEF Queues, Placement, InPlace
    <3> QED
      BY <2>1, <2>2, <2>6, <3>1, <3>2 DEF Takes, Queues
  <2> QED
    BY <2>5, <2>6
<1> QED
  BY <1>1, <1>2, <1>3

LEMMA AddBufferEventTakes ==
  ASSUME NEW e \in Events, QueueType, EventType, Known, fate[e] = "new", AddBufferEvent(e),
         Method[e] \in BufferMethods
  PROVE  Moves(e) /\ (Queues => Takes(e))
<1>1. Method[e] # "add"
  BY DEF BufferMethods
<1>2. CASE ~NewEventsAccepted
  BY <1>1, <1>2, RefuseTakes DEF AddBufferEvent
<1>3. CASE NewEventsAccepted
  <2>1. UNCHANGED <<events_queue, idleevents_queue, half>> /\ Accept(e)
    BY <1>3 DEF AddBufferEvent
  <2>2. /\ fate'[e] = "queued" /\ handled' = handled /\ Settles(e)
        /\ \A x \in Events : x # e => fate'[x] = fate[x]
    BY <2>1, AcceptMoves
  <2>3. event_buffer \in Seq(Events) /\ ~InPlace(e)
    BY NewNowhere DEF QueueType
  <2>4. /\ Range(event_buffer') = Range(event_buffer) \cup {e}
        /\ Distinct(event_buffer) /\ e \notin Range(event_buffer) => Distinct(event_buffer')
    <3>1. event_buffer' = <<e>> \o event_buffer \/ event_buffer' = Append(event_buffer, e)
      BY <1>3 DEF AddBufferEvent
    <3>2. CASE event_buffer' = <<e>> \o event_buffer
      BY <2>3, <3>2, PrependKeeps
    <3>3. CASE event_buffer' = Append(event_buffer, e)
      BY <2>3, <3>3, AppendKeeps
    <3> QED
      BY <3>1, <3>2, <3>3
  <2>5. Moves(e)
    BY <2>1, <2>2, <2>4 DEF Moves, Over
  <2>6. ASSUME Queues PROVE Takes(e)
    <3>1. Orders(e)
      BY <2>1 DEF Orders
    <3>2. Placement'
      BY <2>1, <2>2, <2>3, <2>4, <2>6 DEF Queues, Placement, InPlace
    <3> QED
      BY <2>1, <2>2, <2>6, <3>1, <3>2 DEF Takes, Queues
  <2> QED
    BY <2>5, <2>6
<1> QED
  BY <1>2, <1>3

LEMMA AddIdleEventTakes ==
  ASSUME NEW e \in Events, QueueType, EventType, Known, fate[e] = "new", AddIdleEvent(e),
         Method[e] \in IdleMethods
  PROVE  Moves(e) /\ (Queues => Takes(e))
<1>1. Method[e] # "add" /\ ~Waitable(e)
  BY ProgramsAssumption DEF IdleMethods, Waitable
<1>2. CASE ~NewEventsAccepted \/ e \in Routed
  BY <1>1, <1>2, RefuseTakes DEF AddIdleEvent
<1>3. idleevents_queue \in Seq(Events) /\ ~InPlace(e)
  BY NewNowhere DEF QueueType
<1>4. CASE /\ NewEventsAccepted /\ e \notin Routed /\ FirstSimilar(e) = {}
           /\ idleevents_queue' = Append(idleevents_queue, e) /\ Accept(e)
  <2>1. UNCHANGED <<events_queue, event_buffer, half>>
    BY <1>4 DEF AddIdleEvent
  <2>2. /\ fate'[e] = "queued" /\ handled' = handled /\ Settles(e)
        /\ \A x \in Events : x # e => fate'[x] = fate[x]
    BY <1>4, AcceptMoves
  <2>3. /\ Range(idleevents_queue') = Range(idleevents_queue) \cup {e}
        /\ Distinct(idleevents_queue) /\ e \notin Range(idleevents_queue) => Distinct(idleevents_queue')
    BY <1>3, <1>4, AppendKeeps
  <2>4. Moves(e)
    BY <2>1, <2>2, <2>3 DEF Moves, Over
  <2>5. ASSUME Queues PROVE Takes(e)
    <3>1. Orders(e)
      BY <2>1 DEF Orders
    <3>2. Placement'
      BY <1>3, <2>1, <2>2, <2>3, <2>5 DEF Queues, Placement, InPlace
    <3> QED
      BY <2>1, <2>2, <2>5, <3>1, <3>2 DEF Takes, Queues
  <2> QED
    BY <2>4, <2>5
<1>5. ASSUME NEW i \in FirstSimilar(e),
             idleevents_queue' = Append(Without(idleevents_queue, i), e),
             fate' = [fate EXCEPT ![e] = "queued", ![idleevents_queue[i]] = "replaced"],
             handled' = handled, UNCHANGED <<events_queue, event_buffer, half>>
      PROVE Moves(e) /\ (Queues => Takes(e))
  <2> DEFINE r == idleevents_queue[i]
             w == Without(idleevents_queue, i)
  <2>1. i \in DOMAIN idleevents_queue
    BY <1>5 DEF FirstSimilar
  <2>2. r \in Range(idleevents_queue) /\ r \in Events
    BY <1>3, <2>1, RangeIndex
  <2>3. r # e
    BY <1>3, <2>2 DEF InPlace
  <2>4. w \in Seq(Events) /\ Range(w) \subseteq Range(idleevents_queue)
    BY <1>3, <2>1, WithoutType, WithoutKeeps
  <2>5. Distinct(idleevents_queue) => Distinct(w) /\ Range(w) = Range(idleevents_queue) \ {r}
    BY <1>3, <2>1, WithoutKeeps
  <2>f. fate' = [[fate EXCEPT ![e] = "queued"] EXCEPT ![r] = "replaced"]
    BY <1>5
  <2>i. idleevents_queue' = Append(w, e)
    BY <1>5
  <2> HIDE DEF r, w
  <2>6. /\ fate'[e] = "queued" /\ fate'[r] = "replaced"
        /\ \A x \in Events : x # e /\ x # r => fate'[x] = fate[x]
    BY <2>2, <2>3, <2>f DEF EventType
  <2>7. /\ Range(idleevents_queue') = Range(w) \cup {e}
        /\ Distinct(w) /\ e \notin Range(w) => Distinct(idleevents_queue')
    BY <2>4, <2>i, AppendKeeps
  <2>8. fate[r] # "new" /\ Kind[r] # "shutdown"
    BY <2>2, ProgramsAssumption DEF Known, IdleMethods
  <2>9. Moves(e)
    BY <1>5, <2>2, <2>4, <2>6, <2>7, <2>8 DEF Moves, Over
  <2>10. ASSUME Queues PROVE Takes(e)
    <3>1. Orders(e)
      BY <1>5 DEF Orders
    <3>2. Settles(e)
      BY <1>1, <1>5, <2>2, <2>6 DEF Settles
    <3>3. Range(idleevents_queue') = (Range(idleevents_queue) \ {r}) \cup {e} /\ Distinct(idleevents_queue')
      BY <1>3, <2>5, <2>7, <2>10 DEF Queues, Placement, InPlace
    <3>4. r \notin Range(events_queue) /\ r \notin Range(event_buffer)
      BY <2>2, <2>10 DEF Queues, Placement, Known, IdleMethods, BufferMethods
    <3>5. \A x \in Events : fate'[x] = "queued" <=> InPlace(x)'
      BY <1>3, <1>5, <2>2, <2>3, <2>6, <2>10, <3>3, <3>4 DEF Queues, Placement, InPlace
    <3>6. Placement'
      BY <1>3, <1>5, <2>10, <3>3, <3>5 DEF Queues, Placement, InPlace
    <3> QED
      BY <1>5, <2>10, <3>1, <3>2, <3>6 DEF Takes, Queues
  <2> QED
    BY <2>9, <2>10
<1> QED
  BY <1>2, <1>4, <1>5 DEF AddIdleEvent

LEMMA CallTakes ==
  ASSUME NEW e \in Events, QueueType, EventType, Known, fate[e] = "new", Call(e)
  PROVE  Moves(e) /\ (Queues => Takes(e))
<1>1. Method[e] \in Methods
  BY EventsAssumption
<1> QED
  BY <1>1, AddEventTakes, PrependEventTakes, AddIdleEventTakes, AddBufferEventTakes
     DEF Call, Methods, IdleMethods, BufferMethods

(***************************************************************************)
(* The stack of the events being handled.                                  *)
(***************************************************************************)
LEMMA PushFrames ==
  ASSUME NEW S, NEW s \in Seq(S), NEW f \in S
  PROVE  /\ \A i \in DOMAIN (<<f>> \o s) : \/ i = 1 /\ (<<f>> \o s)[i] = f
                                           \/ i - 1 \in DOMAIN s /\ (<<f>> \o s)[i] = s[i - 1]
         /\ 1 \in DOMAIN (<<f>> \o s) /\ (<<f>> \o s)[1] = f
         /\ \A i \in DOMAIN s : i + 1 \in DOMAIN (<<f>> \o s) /\ (<<f>> \o s)[i + 1] = s[i]
         /\ DOMAIN s \subseteq Nat /\ DOMAIN (<<f>> \o s) \subseteq Nat
<1> DEFINE x == <<f>>
           c == x \o s
<1>1. x \in Seq(S) /\ Len(x) = 1 /\ x[1] = f
  OBVIOUS
<1>2. /\ c \in Seq(S) /\ Len(c) = Len(s) + 1 /\ Len(s) \in Nat
      /\ \A i \in 1 .. Len(c) : c[i] = IF i <= 1 THEN x[i] ELSE s[i - 1]
  <2> HIDE DEF x
  <2> QED
    BY <1>1, ConcatProperties, LenProperties
<1>3. DOMAIN c = 1 .. Len(s) + 1 /\ DOMAIN s = 1 .. Len(s)
  BY <1>2, RangeIndex
<1> HIDE DEF c
<1>4. 1 \in DOMAIN c /\ c[1] = f
  <2>1. 1 \in 1 .. Len(c) /\ 1 <= 1
    BY <1>2
  <2>2. c[1] = x[1]
    BY <1>2, <2>1
  <2> QED
    BY <1>1, <1>2, <1>3, <2>1, <2>2
<1>5. \A i \in DOMAIN c : (i = 1 /\ c[i] = f) \/ (i - 1 \in DOMAIN s /\ c[i] = s[i - 1])
  <2> TAKE i \in DOMAIN c
  <2>1. CASE i = 1
    BY <1>4, <2>1
  <2>2. CASE i # 1
    <3>1. i - 1 \in 1 .. Len(s) /\ ~(i <= 1) /\ i \in 1 .. Len(c)
      BY <1>2, <1>3, <2>2
    <3> QED
      BY <1>2, <1>3, <3>1
  <2> QED
    BY <2>1, <2>2
<1>6. \A i \in DOMAIN s : i + 1 \in DOMAIN c /\ c[i + 1] = s[i]
  <2> TAKE i \in DOMAIN s
  <2>1. i + 1 \in 1 .. Len(c) /\ ~(i + 1 <= 1) /\ (i + 1) - 1 = i
    BY <1>2, <1>3
  <2>2. c[i + 1] = s[(i + 1) - 1]
    BY <1>2, <2>1
  <2> QED
    BY <1>2, <1>3, <2>1, <2>2
<1> QED
  BY <1>2, <1>3, <1>5, <1>4, <1>6 DEF c

LEMMA PopFrames ==
  ASSUME NEW S, NEW s \in Seq(S), s # <<>>
  PROVE  /\ \A i \in DOMAIN Tail(s) : i + 1 \in DOMAIN s /\ Tail(s)[i] = s[i + 1] /\ i + 1 # 1
         /\ \A i \in DOMAIN s : i # 1 => i - 1 \in DOMAIN Tail(s) /\ Tail(s)[i - 1] = s[i]
         /\ 1 \in DOMAIN s /\ DOMAIN s \subseteq Nat /\ DOMAIN Tail(s) \subseteq Nat
<1> DEFINE t == Tail(s)
<1>1. /\ t \in Seq(S) /\ Len(t) = Len(s) - 1 /\ Len(s) \in Nat /\ Len(s) > 0
      /\ \A i \in 1 .. Len(t) : t[i] = s[i + 1]
  BY HeadTailProperties, LenProperties, EmptySeq
<1>2. DOMAIN t = 1 .. Len(t) /\ DOMAIN s = 1 .. Len(s)
  BY <1>1, RangeIndex
<1> HIDE DEF t
<1>3. \A i \in DOMAIN t : i + 1 \in DOMAIN s /\ t[i] = s[i + 1] /\ i + 1 # 1
  BY <1>1, <1>2
<1>4. \A i \in DOMAIN s : i # 1 => i - 1 \in DOMAIN t /\ t[i - 1] = s[i]
  <2> TAKE i \in DOMAIN s
  <2> HAVE i # 1
  <2>1. i - 1 \in 1 .. Len(t) /\ (i - 1) + 1 = i
    BY <1>1, <1>2
  <2>2. t[i - 1] = s[(i - 1) + 1]
    BY <1>1, <2>1
  <2> QED
    BY <1>2, <2>1, <2>2
<1>5. 1 \in DOMAIN s /\ DOMAIN s \subseteq Nat /\ DOMAIN t \subseteq Nat
  BY <1>1, <1>2
<1> QED
  BY <1>3, <1>4, <1>5 DEF t

LEMMA CurFrames ==
  ASSUME VmType
  PROVE  \A i \in DOMAIN cur : cur[i] \in Frame /\ cur[i].ev \in Events
<1>1. cur \in Seq(Frame)
  BY DEF VmType
<1>2. \A i \in DOMAIN cur : cur[i] \in Frame
  BY <1>1
<1> QED
  BY <1>2 DEF Frame

LEMMA HandlersPush ==
  ASSUME VmType, Handlers, NEW f \in Frame, fate[f.ev] # "handling",
         cur' = <<f>> \o cur, fate'[f.ev] = "handling",
         \A x \in Events : x # f.ev => (fate'[x] = "handling" <=> fate[x] = "handling")
  PROVE  Handlers'
<1>1. cur \in Seq(Frame) /\ f.ev \in Events
  BY DEF VmType, Frame
<1>3. \A i \in DOMAIN cur : cur[i].ev # f.ev
  BY <1>1 DEF Handlers
<1>4. /\ \A i \in DOMAIN cur' : (i = 1 /\ cur'[i] = f) \/ (i - 1 \in DOMAIN cur /\ cur'[i] = cur[i - 1])
      /\ 1 \in DOMAIN cur' /\ cur'[1] = f
      /\ \A i \in DOMAIN cur : i + 1 \in DOMAIN cur' /\ cur'[i + 1] = cur[i]
      /\ DOMAIN cur' \subseteq Nat
  <2> DEFINE c == <<f>> \o cur
  <2>1. /\ \A i \in DOMAIN c : (i = 1 /\ c[i] = f) \/ (i - 1 \in DOMAIN cur /\ c[i] = cur[i - 1])
        /\ 1 \in DOMAIN c /\ c[1] = f
        /\ \A i \in DOMAIN cur : i + 1 \in DOMAIN c /\ c[i + 1] = cur[i]
        /\ DOMAIN c \subseteq Nat
    BY <1>1, PushFrames
  <2>2. cur' = c
    OBVIOUS
  <2> HIDE DEF c
  <2> QED
    BY <2>1, <2>2
<1>5. ASSUME NEW i \in DOMAIN cur', NEW k \in DOMAIN cur', cur'[i].ev = cur'[k].ev PROVE i = k
  <2>1. ASSUME NEW m \in DOMAIN cur', m # 1 PROVE m - 1 \in DOMAIN cur /\ cur'[m] = cur[m - 1]
    BY <1>4, <2>1
  <2>2. CASE i = 1 \/ k = 1
    BY <1>3, <1>4, <1>5, <2>1, <2>2
  <2>3. CASE i # 1 /\ k # 1
    <3>1. i - 1 = k - 1
      BY <1>5, <2>1, <2>3 DEF Handlers
    <3> QED
      BY <1>4, <3>1
  <2> QED
    BY <2>2, <2>3
<1>6. ASSUME NEW x \in Events PROVE fate'[x] = "handling" <=> \E i \in DOMAIN cur' : cur'[i].ev = x
  <2>1. CASE x = f.ev
    BY <1>4, <2>1
  <2>2. CASE x # f.ev
    <3>1. fate[x] = "handling" <=> \E i \in DOMAIN cur : cur[i].ev = x
      BY DEF Handlers
    <3>2. (\E i \in DOMAIN cur : cur[i].ev = x) <=> \E i \in DOMAIN cur' : cur'[i].ev = x
      <4>1. ASSUME NEW i \in DOMAIN cur, cur[i].ev = x PROVE \E k \in DOMAIN cur' : cur'[k].ev = x
        BY <1>4, <4>1
      <4>2. ASSUME NEW i \in DOMAIN cur', cur'[i].ev = x PROVE \E k \in DOMAIN cur : cur[k].ev = x
        BY <1>4, <2>2, <4>2
      <4> QED
        BY <4>1, <4>2
    <3> QED
      BY <2>2, <3>1, <3>2
  <2> QED
    BY <2>1, <2>2
<1> QED
  BY <1>5, <1>6 DEF Handlers

LEMMA HandlersPop ==
  ASSUME VmType, Handlers, cur # <<>>, cur' = Tail(cur), fate'[cur[1].ev] # "handling",
         \A x \in Events : x # cur[1].ev => (fate'[x] = "handling" <=> fate[x] = "handling")
  PROVE  Handlers'
<1>1. cur \in Seq(Frame)
  BY DEF VmType
<1>2. /\ \A i \in DOMAIN cur' : i + 1 \in DOMAIN cur /\ cur'[i] = cur[i + 1] /\ i + 1 # 1
      /\ \A i \in DOMAIN cur : i # 1 => i - 1 \in DOMAIN cur' /\ cur'[i - 1] = cur[i]
      /\ 1 \in DOMAIN cur /\ DOMAIN cur \subseteq Nat /\ DOMAIN cur' \subseteq Nat
  BY <1>1, PopFrames
<1>3. ASSUME NEW i \in DOMAIN cur', NEW k \in DOMAIN cur', cur'[i].ev = cur'[k].ev PROVE i = k
  <2>1. i + 1 = k + 1
    BY <1>2, <1>3 DEF Handlers
  <2> QED
    BY <1>2, <2>1
<1>4. ASSUME NEW i \in DOMAIN cur' PROVE cur'[i].ev # cur[1].ev
  BY <1>2 DEF Handlers
<1>5. ASSUME NEW x \in Events PROVE fate'[x] = "handling" <=> \E i \in DOMAIN cur' : cur'[i].ev = x
  <2>1. CASE x = cur[1].ev
    BY <1>4, <2>1
  <2>2. CASE x # cur[1].ev
    <3>1. fate[x] = "handling" <=> \E i \in DOMAIN cur : cur[i].ev = x
      BY DEF Handlers
    <3>2. (\E i \in DOMAIN cur : cur[i].ev = x) <=> \E i \in DOMAIN cur' : cur'[i].ev = x
      <4>1. ASSUME NEW i \in DOMAIN cur, cur[i].ev = x PROVE \E k \in DOMAIN cur' : cur'[k].ev = x
        BY <1>2, <2>2, <4>1
      <4>2. ASSUME NEW i \in DOMAIN cur', cur'[i].ev = x PROVE \E k \in DOMAIN cur : cur[k].ev = x
        BY <1>2, <4>2
      <4> QED
        BY <4>1, <4>2
    <3> QED
      BY <2>2, <3>1, <3>2
  <2> QED
    BY <2>1, <2>2
<1> QED
  BY <1>3, <1>5 DEF Handlers

LEMMA HandlersSame ==
  ASSUME Handlers, cur' = cur,
         \A x \in Events : fate'[x] = "handling" <=> fate[x] = "handling"
  PROVE  Handlers'
  BY DEF Handlers

\* The event on top of the stack is being handled.
LEMMA TopHandling ==
  ASSUME VmType, cur # <<>>
  PROVE  /\ cur[1].ev \in Events /\ 1 \in DOMAIN cur
         /\ Handlers => fate[cur[1].ev] = "handling"
<1>1. 1 \in DOMAIN cur /\ cur[1].ev \in Events
  BY CurType, PopFrames DEF VmType
<1> QED
  BY <1>1 DEF Handlers

(***************************************************************************)
(* What is posted, and what has begun, in every state.                     *)
(***************************************************************************)

\* No event becomes new again, and a SHUTDOWN that was begun stays so.
Advance ==
    /\ \A x \in Events : fate[x] # "new" => fate'[x] # "new"
    /\ \A x \in Events : Kind[x] = "shutdown" /\ fate[x] \in Over => fate'[x] \in Over

LEMMA AdvanceKeeps ==
  ASSUME Advance, IdleMoved
  PROVE  IdleMoved'
<1>1. \A s \in Events : Kind[s] = "shutdown" /\ Begun(s) => Begun(s)'
  BY DEF Advance, Begun, Over
<1> QED
  BY <1>1 DEF Advance, IdleMoved

\* What a thread is about to post is new.
LEMMA ToPostNew ==
  ASSUME PostType, Unposted, NEW t \in Threads, HasNext(t)
  PROVE  /\ next[t] \in DOMAIN Program[t]
         /\ ToPost(t) \in Events /\ fate[ToPost(t)] = "new"
<1>1. Program[t] \in Seq(Events)
  BY ThreadsAssumption
<1>2. next[t] \in Nat \ {0} /\ next[t] \in 1 .. Len(Program[t]) /\ DOMAIN Program[t] = 1 .. Len(Program[t])
  BY <1>1, RangeIndex DEF PostType, HasNext
<1> QED
  BY <1>2, ToPostType DEF Unposted, ToPost

LEMMA ProgramType ==
  ASSUME NEW t \in Threads
  PROVE  DOMAIN Program[t] \subseteq Nat /\ \A i \in DOMAIN Program[t] : Program[t][i] \in Events
<1>1. Program[t] \in Seq(Events)
  BY ThreadsAssumption
<1> QED
  BY <1>1, RangeIndex

LEMMA UnpostedNext ==
  ASSUME PostType, Unposted, NEW t \in Threads, HasNext(t), next' = [next EXCEPT ![t] = @ + 1],
         \A x \in Events : x # ToPost(t) /\ fate[x] = "new" => fate'[x] = "new"
  PROVE  Unposted'
<1> SUFFICES ASSUME NEW u \in Threads, NEW i \in DOMAIN Program[u], i >= next'[u]
             PROVE  fate'[Program[u][i]] = "new"
  BY DEF Unposted
<1>1. next[t] \in DOMAIN Program[t] /\ i \in Nat /\ Program[u][i] \in Events
  BY ToPostNew, ProgramType
<1>2. next[u] \in Nat /\ next[t] \in Nat /\ next'[t] = next[t] + 1 /\ (u # t => next'[u] = next[u])
  BY DEF PostType
<1>3. i >= next[u] /\ ~(u = t /\ i = next[t])
  BY <1>1, <1>2
<1>4. Program[u][i] # Program[t][next[t]]
  BY <1>1, <1>3, ProgramsAssumption
<1> QED
  BY <1>1, <1>3, <1>4 DEF Unposted, ToPost

LEMMA UnpostedSame ==
  ASSUME PostType, PostType', Unposted, \A t \in Threads : next'[t] >= next[t],
         \A t \in Threads : \A i \in DOMAIN Program[t] :
            fate[Program[t][i]] = "new" => fate'[Program[t][i]] = "new"
  PROVE  Unposted'
<1> SUFFICES ASSUME NEW u \in Threads, NEW i \in DOMAIN Program[u], i >= next'[u]
             PROVE  fate'[Program[u][i]] = "new"
  BY DEF Unposted
<1>1. i \in Nat /\ next[u] \in Nat /\ next'[u] \in Nat
  BY ProgramType DEF PostType
<1>2. i >= next[u]
  BY <1>1
<1> QED
  BY <1>2 DEF Unposted

\* An operation that is given a new event.
LEMMA MovesKnown ==
  ASSUME QueueType, VmType, Known, NEW e \in Events, fate[e] = "new", Moves(e), cur' = cur
  PROVE  Known' /\ Advance
<1>2. Advance
  BY DEF Moves, Advance
<1>4. /\ Range(events_queue) \subseteq Events /\ Range(idleevents_queue) \subseteq Events
      /\ Range(event_buffer) \subseteq Events /\ half \in Events \cup {NoEvent}
  BY QueueRanges DEF QueueType
<1>5. \A i \in DOMAIN cur : cur[i].ev \in Events
  BY CurFrames
<1>6. \A x \in Events : fate[x] # "new" \/ x = e => fate'[x] # "new"
  BY <1>2 DEF Moves, Advance
<1>7. /\ \A x \in Range(events_queue') : x \in Range(events_queue) \/ x = e
      /\ \A x \in Range(idleevents_queue') : x \in Range(idleevents_queue) \/ (x = e /\ Method[x] \in IdleMethods)
      /\ \A x \in Range(event_buffer') : x \in Range(event_buffer) \/ (x = e /\ Method[x] \in BufferMethods)
      /\ half' = half \/ half' = NoEvent
  BY DEF Moves
<1>8. \A x \in Range(events_queue)' \cup Range(idleevents_queue)' \cup Range(event_buffer)' : fate'[x] # "new"
  BY <1>4, <1>6, <1>7 DEF Known
<1>9. half' # NoEvent => fate'[half'] # "new" /\ Method[half'] \in IdleMethods
  BY <1>4, <1>6, <1>7 DEF Known
<1>10. \A i \in DOMAIN cur' : fate'[cur'[i].ev] # "new"
  BY <1>5, <1>6 DEF Known
<1>11. /\ \A x \in Range(idleevents_queue)' : Method[x] \in IdleMethods
       /\ \A x \in Range(event_buffer)' : Method[x] \in BufferMethods
  BY <1>7 DEF Known
<1> QED
  BY <1>2, <1>8, <1>9, <1>10, <1>11 DEF Known

\* An operation that is given the next event of a thread.
LEMMA MovesPosting ==
  ASSUME PostType, QueueType, Posting, NEW t \in Threads, HasNext(t), Moves(ToPost(t)),
         next' = [next EXCEPT ![t] = @ + 1], cur' = cur, VmType
  PROVE  Posting' /\ Advance
<1>1. ToPost(t) \in Events /\ fate[ToPost(t)] = "new"
  BY ToPostNew DEF Posting
<1>2. Unposted'
  BY UnpostedNext DEF Moves, Posting
<1> QED
  BY <1>1, <1>2, MovesKnown DEF Posting

\* A step of the VM that moves events it has got.
LEMMA KnownKept ==
  ASSUME QueueType, VmType, Known, Advance,
         \A x \in Range(events_queue') : \/ x \in Range(events_queue) \/ x \in Range(idleevents_queue)
                                         \/ x \in Range(event_buffer) \/ (x = half /\ half # NoEvent)
                                         \/ fate'[x] # "new",
         Range(idleevents_queue') \subseteq Range(idleevents_queue),
         Range(event_buffer') \subseteq Range(event_buffer),
         half' = NoEvent \/ half' = half \/ half' \in Range(idleevents_queue),
         \A i \in DOMAIN cur' : fate'[cur'[i].ev] # "new" \/ \E k \in DOMAIN cur : cur'[i] = cur[k]
  PROVE  Known'
<1>1. /\ Range(events_queue) \subseteq Events /\ Range(idleevents_queue) \subseteq Events
      /\ Range(event_buffer) \subseteq Events /\ half \in Events \cup {NoEvent}
  BY QueueRanges DEF QueueType
<1>2. \A i \in DOMAIN cur : cur[i].ev \in Events
  BY CurFrames
<1>3. \A x \in Range(events_queue)' \cup Range(idleevents_queue)' \cup Range(event_buffer)' : fate'[x] # "new"
  BY <1>1 DEF Known, Advance
<1>4. half' # NoEvent => fate'[half'] # "new" /\ Method[half'] \in IdleMethods
  BY <1>1 DEF Known, Advance
<1>5. \A i \in DOMAIN cur' : fate'[cur'[i].ev] # "new"
  BY <1>2 DEF Known, Advance
<1>6. /\ \A x \in Range(idleevents_queue)' : Method[x] \in IdleMethods
      /\ \A x \in Range(event_buffer)' : Method[x] \in BufferMethods
  BY DEF Known
<1> QED
  BY <1>3, <1>4, <1>5, <1>6 DEF Known

\* A step that moves no event.
Calm ==
    /\ UNCHANGED <<queueVars, fate, handled, behind, cur, front>>
    /\ \A t \in Threads : next'[t] >= next[t]
    /\ \A p \in Posters : ppc'[p] \in Waiting => ppc[p] \in Waiting /\ next'[p] = next[p]
    /\ vpc' = vpc \/ (vpc # "finish" /\ vpc' \notin {"move", "drop"})

LEMMA CalmPosting ==
  ASSUME PostType, PostType', Posting, Calm
  PROVE  Posting' /\ Advance
<1>1. Unposted'
  BY UnpostedSame DEF Calm, Posting
<1>2. Known'
  BY DEF Calm, Posting, Known, queueVars
<1> QED
  BY <1>1, <1>2 DEF Posting, Advance, Calm

LEMMA AwakeKeeps ==
  ASSUME PostType, NEW p \in Posters
  PROVE  /\ Awake[p] \in Waiting => ppc[p] \in Waiting
         /\ AfterSignal[p] \in Waiting => ppc[p] \in Waiting
<1>1. Awake[p] \in Waiting => ppc[p] \in Waiting
  BY DEF Awake, Waiting
<1> QED
  BY <1>1 DEF AfterSignal

LEMMA PostersCalm ==
  ASSUME TypeOK, NEW p \in Posters, BeginTick(p) \/ TickSignal(p) \/ Check(p) \/ Enter(p)
  PROVE  Calm
<1>1. PostType /\ \A t \in Threads : next[t] \in Nat /\ next[t] >= next[t]
  BY DEF TypeOK, PostType
<1>2. p \in Threads
  BY DEF Threads
<1>3. CASE BeginTick(p)
  <2>1. UNCHANGED <<queueVars, fate, handled, behind, cur, front, vpc>>
    BY <1>3 DEF BeginTick, vmVars, eventVars
  <2>2. \A t \in Threads : next'[t] >= next[t]
    <3>1. Len(Program[p]) \in Nat /\ next[p] <= Len(Program[p])
      BY <1>2, <1>3, ThreadsAssumption, LenProperties DEF BeginTick, HasNext
    <3>2. \A t \in Threads : next'[t] = next[t] \/ (t = p /\ next'[t] = Len(Program[p]) + 1)
      BY <1>1, <1>3 DEF BeginTick, PostType
    <3> QED
      BY <1>1, <3>1, <3>2
  <2>3. \A q \in Posters : ppc'[q] \in Waiting => ppc[q] \in Waiting /\ next'[q] = next[q]
    <3>1. \A q \in Posters : q # p => ppc'[q] = ppc[q] /\ next'[q] = next[q]
      BY <1>1, <1>3 DEF BeginTick, PostType, Threads
    <3>2. ppc'[p] \notin Waiting
      BY <1>1, <1>3 DEF BeginTick, PostType, Waiting
    <3> QED
      BY <3>1, <3>2
  <2> QED
    BY <2>1, <2>2, <2>3 DEF Calm
<1>4. CASE TickSignal(p) \/ Check(p) \/ Enter(p)
  <2>1. UNCHANGED <<queueVars, fate, handled, behind, cur, front, vpc, next>>
    BY <1>4 DEF TickSignal, Check, Enter, vmVars, eventVars
  <2>2. ppc[p] \in Waiting
    BY <1>4 DEF TickSignal, Check, Enter, Waiting
  <2>3. ASSUME NEW q \in Posters, ppc'[q] \in Waiting PROVE ppc[q] \in Waiting
    <3>1. CASE q = p
      BY <2>2, <3>1
    <3>2. CASE q # p
      <4>1. ppc'[q] = ppc[q] \/ ppc'[q] = Awake[q]
        <5>1. Awake \in [Posters -> PosterPositions] /\ ppc \in [Posters -> PosterPositions]
          BY <1>1, AfterSignalType DEF PostType
        <5> QED
          BY <1>4, <3>2, <5>1 DEF TickSignal, Check, Enter
      <4> QED
        BY <1>1, <2>3, <4>1, AwakeKeeps
    <3> QED
      BY <3>1, <3>2
  <2> QED
    BY <1>1, <2>1, <2>3 DEF Calm
<1> QED
  BY <1>3, <1>4

LEMMA MainCalm ==
  ASSUME TypeOK, MainStep, ~PostShutdown
  PROVE  Calm
<1>1. \A t \in Threads : next[t] \in Nat /\ next[t] >= next[t]
  BY DEF TypeOK, PostType
<1> QED
  BY <1>1 DEF MainStep, AwaitTermination, AwaitAgain, Terminated, JoinPosters, StopEngines,
     ShutdownBegin, NotifyVm, ShutdownSkip, JoinVm, ShutdownEnd, Calm, vmVars, eventVars, postVars

LEMMA VmCalm ==
  ASSUME TypeOK,
         \/ InitVm \/ Sleep \/ HandlePlain \/ ShutdownMoved \/ ShutdownFlag \/ SignalTerminated
         \/ Throw \/ Report \/ Record \/ GiveUp \/ DrainEnd \/ StopOnEmptyQueue \/ ShutdownVM
  PROVE  Calm
<1>1. \A t \in Threads : next[t] \in Nat /\ next[t] >= next[t]
  BY DEF TypeOK, PostType
<1> QED
  BY <1>1 DEF InitVm, Sleep, HandlePlain, ShutdownMoved, ShutdownFlag, SignalTerminated, Throw,
     Report, Record, GiveUp, DrainEnd, StopOnEmptyQueue, ShutdownVM, Resume, Calm, vmVars, eventVars, postVars

LEMMA UnpostedStays ==
  ASSUME Unposted, next' = next,
         \A x \in Events : fate[x] = "new" => fate'[x] = "new" \/ \E d \in Idles : x = GcOf[d]
  PROVE  Unposted'
  BY ProgramType, ProgramsAssumption DEF Unposted

\* Setting the fate of one event that is not new.
LEMMA FateMoves ==
  ASSUME EventType, NEW e \in Events, fate[e] # "new", NEW v \in Over, fate' = [fate EXCEPT ![e] = v]
  PROVE  /\ fate'[e] = v /\ \A x \in Events : x # e => fate'[x] = fate[x]
         /\ Advance /\ \A x \in Events : fate[x] = "new" => fate'[x] = "new"
<1>1. fate'[e] = v /\ \A x \in Events : x # e => fate'[x] = fate[x]
  BY DEF EventType
<1> QED
  BY <1>1 DEF Advance, Over

LEMMA FrontEvent ==
  ASSUME QueueType, events_queue # <<>>
  PROVE  Head(events_queue) \in Events /\ Head(events_queue) \in Range(events_queue)
  BY TailType, TailKeeps DEF QueueType

LEMMA FrontEventPosting ==
  ASSUME TypeOK, Posting, events_queue # <<>>, HandleFrontEvent
  PROVE  Posting' /\ Advance
<1> DEFINE e == Head(events_queue)
<1>1. e \in Events /\ e \in Range(events_queue)
  BY FrontEvent DEF TypeOK
<1>2. fate[e] # "new"
  BY <1>1 DEF Posting, Known
<1>3. \E v \in Over : fate' = [fate EXCEPT ![e] = v]
  BY DEF HandleFrontEvent, Over
<1>4. Range(events_queue') \subseteq Range(events_queue)
  BY TailKeeps DEF TypeOK, QueueType, HandleFrontEvent
<1>5. cur' = cur \/ cur' = <<Guarded(e)>> \o cur
  BY DEF HandleFrontEvent
<1> HIDE DEF e
<1>6. Advance /\ \A x \in Events : fate[x] = "new" => fate'[x] = "new"
  BY <1>1, <1>2, <1>3, FateMoves DEF TypeOK
<1>7. \A i \in DOMAIN cur' : cur'[i].ev = e \/ \E k \in DOMAIN cur : cur'[i] = cur[k]
  <2>1. Guarded(e) \in Frame /\ Guarded(e).ev = e /\ cur \in Seq(Frame)
    BY <1>1 DEF Guarded, Frame, TypeOK, VmType
  <2>2. \A i \in DOMAIN (<<Guarded(e)>> \o cur) :
           \/ (<<Guarded(e)>> \o cur)[i] = Guarded(e)
           \/ i - 1 \in DOMAIN cur /\ (<<Guarded(e)>> \o cur)[i] = cur[i - 1]
    BY <2>1, PushFrames
  <2> QED
    BY <1>5, <2>1, <2>2
<1>8. Known'
  <2>1. fate'[e] # "new"
    BY <1>1, <1>2, <1>6 DEF Advance
  <2>2. UNCHANGED <<idleevents_queue, event_buffer, half>>
    BY DEF HandleFrontEvent
  <2>3. \A i \in DOMAIN cur' : fate'[cur'[i].ev] # "new" \/ \E k \in DOMAIN cur : cur'[i] = cur[k]
    BY <1>7, <2>1
  <2> QED
    BY <1>4, <1>6, <2>2, <2>3, KnownKept DEF TypeOK, Posting
<1>9. Unposted'
  BY <1>6, UnpostedStays DEF Posting, HandleFrontEvent, postVars
<1> QED
  BY <1>6, <1>8, <1>9 DEF Posting

\* What the VM thread does with its stack and its queues and no new event.
LEMMA FlushPosting ==
  ASSUME TypeOK, Posting, HandleFlushBuffer
  PROVE  Posting' /\ Advance
<1>1. UNCHANGED <<fate, next, cur, half, idleevents_queue>> /\ event_buffer' = <<>>
  BY DEF HandleFlushBuffer, eventVars, postVars, ClearBuffer
<1>2. events_queue \in Seq(Events) /\ event_buffer \in Seq(Events)
  BY DEF TypeOK, QueueType
<1>3. /\ Range(events_queue \o event_buffer) = Range(events_queue) \cup Range(event_buffer)
      /\ Range(event_buffer \o events_queue) = Range(events_queue) \cup Range(event_buffer)
  BY <1>2, ConcatKeeps
<1>4. Range(events_queue') = Range(events_queue) \cup Range(event_buffer)
  BY <1>3 DEF HandleFlushBuffer
<1>5. Range(event_buffer') = {}
  BY <1>1 DEF Range
<1>6. Advance
  BY <1>1 DEF Advance
<1>7. Known'
  BY <1>1, <1>4, <1>5 DEF Posting, Known
<1>8. Unposted'
  BY <1>1 DEF Posting, Unposted
<1> QED
  BY <1>6, <1>7, <1>8 DEF Posting

LEMMA StorePosting ==
  ASSUME TypeOK, Posting, ShutdownStore
  PROVE  Posting' /\ Advance
<1>1. UNCHANGED <<fate, next, cur, events_queue, idleevents_queue, event_buffer>>
  BY DEF ShutdownStore, eventVars, postVars
<1>2. half' \in Range(idleevents_queue)
  BY TailKeeps DEF ShutdownStore, TypeOK, QueueType
<1>3. Advance
  BY <1>1 DEF Advance
<1>4. Known'
  BY <1>1, <1>2 DEF Posting, Known
<1>5. Unposted'
  BY <1>1 DEF Posting, Unposted
<1> QED
  BY <1>3, <1>4, <1>5 DEF Posting

LEMMA CountPosting ==
  ASSUME TypeOK, Posting, ShutdownCount
  PROVE  Posting' /\ Advance
<1>1. UNCHANGED <<next, cur, event_buffer>> /\ half' = NoEvent /\ fate' = AfterMove
  BY DEF ShutdownCount, postVars
<1>2. events_queue \in Seq(Events) /\ idleevents_queue \in Seq(Events) /\ half \in Events \cup {NoEvent}
  BY DEF TypeOK, QueueType
<1>3. \A x \in Range(events_queue') : x \in Range(events_queue) \/ (x = half /\ half # NoEvent)
  <2>1. CASE half = NoEvent
    BY <2>1 DEF ShutdownCount
  <2>2. CASE half # NoEvent
    <3>1. events_queue' = Append(events_queue, half) /\ half \in Events
      BY <1>2, <2>2 DEF ShutdownCount
    <3> QED
      BY <1>2, <2>2, <3>1, AppendKeeps
  <2> QED
    BY <2>1, <2>2
<1>4. Range(idleevents_queue') \subseteq Range(idleevents_queue)
  <2> DEFINE s == SubSeq(idleevents_queue, 2, Len(idleevents_queue))
  <2>1. /\ s \in Seq(Events) /\ Len(idleevents_queue) \in Nat
        /\ \A i \in 1 .. Len(s) : i + 1 \in 1 .. Len(idleevents_queue) /\ s[i] = idleevents_queue[i + 1]
    <3>1. Len(idleevents_queue) \in Nat
      BY <1>2, LenProperties
    <3>2. s \in Seq(Events) /\ Len(s) = IF 2 <= Len(idleevents_queue) THEN Len(idleevents_queue) - 1 ELSE 0
      BY <1>2, <3>1, SubSeqProperties
    <3>3. \A i \in 1 .. Len(s) : s[i] = idleevents_queue[2 + i - 1]
      BY <1>2, <3>1, <3>2, SubSeqProperties
    <3>4. \A i \in 1 .. Len(s) : 2 + i - 1 = i + 1 /\ i + 1 \in 1 .. Len(idleevents_queue)
      BY <3>1, <3>2
    <3> QED
      BY <3>1, <3>2, <3>3, <3>4
  <2>2. idleevents_queue' = s
    BY DEF ShutdownCount
  <2> HIDE DEF s
  <2>3. ASSUME NEW x \in Range(s) PROVE x \in Range(idleevents_queue)
    <3>1. PICK i \in 1 .. Len(s) : s[i] = x
      BY <2>1, RangeIndex
    <3> QED
      BY <1>2, <2>1, <3>1, RangeIndex
  <2> QED
    BY <2>2, <2>3
<1>8. idleevents_queue # <<>> => Kind[Head(idleevents_queue)] # "shutdown"
  <2>1. idleevents_queue # <<>> => /\ Head(idleevents_queue) \in Range(idleevents_queue)
                                   /\ Head(idleevents_queue) \in Events
    BY <1>2, TailKeeps, TailType
  <2> QED
    BY <2>1, ProgramsAssumption DEF Posting, Known, IdleMethods
<1>9. half # NoEvent => fate[half] # "new" /\ Kind[half] # "shutdown"
  BY <1>2, ProgramsAssumption DEF Posting, Known, IdleMethods
<1>11. \A x \in Events :
         \/ fate'[x] = fate[x]
         \/ x = half /\ half # NoEvent /\ fate'[x] = "queued"
         \/ /\ idleevents_queue # <<>> /\ x = Head(idleevents_queue)
            /\ fate[x] = "queued" /\ fate'[x] = "lost"
  BY <1>1, EventsAssumption DEF AfterMove
<1>10. /\ \A x \in Events : fate[x] # "new" => fate'[x] # "new"
       /\ \A x \in Events : fate[x] = "new" => fate'[x] = "new"
       /\ \A x \in Events : Kind[x] = "shutdown" => fate'[x] = fate[x]
  BY <1>8, <1>9, <1>11
<1>5. Advance
  BY <1>10 DEF Advance
<1>6. Known'
  BY <1>1, <1>3, <1>4, <1>5, KnownKept DEF Posting, TypeOK
<1>7. Unposted'
  BY <1>1, <1>10, UnpostedStays DEF Posting
<1> QED
  BY <1>5, <1>6, <1>7 DEF Posting

LEMMA IdlePosting ==
  ASSUME TypeOK, Posting, HandleIdle
  PROVE  Posting' /\ Advance
<1>1. PICK d \in Idles :
          /\ events_queue' = WithIdleEvents(events_queue, d)
          /\ idleevents_queue' = <<>> /\ fate' = [fate EXCEPT ![GcOf[d]] = "queued"]
          /\ UNCHANGED <<event_buffer, half, cur, postVars>>
  BY DEF HandleIdle
<1>2. GcOf[d] \in Events /\ Kind[GcOf[d]] = "gc"
  BY HandlingAssumption
<1>3. fate'[GcOf[d]] = "queued" /\ \A x \in Events : x # GcOf[d] => fate'[x] = fate[x]
  BY <1>1, <1>2 DEF TypeOK, EventType
<1>4. Range(events_queue') = Range(events_queue) \cup Range(idleevents_queue) \cup {GcOf[d]}
  <2>1. events_queue \in Seq(Events) /\ idleevents_queue \in Seq(Events)
    BY DEF TypeOK, QueueType
  <2> DEFINE g == <<GcOf[d]>>
             m == events_queue \o idleevents_queue
  <2>2. g \in Seq(Events) /\ Range(g) = {GcOf[d]}
    BY <1>2, SingleFacts
  <2>3. m \in Seq(Events) /\ Range(m) = Range(events_queue) \cup Range(idleevents_queue)
    BY <2>1, ConcatKeeps, ConcatProperties
  <2>4. events_queue' = m \o g
    BY <1>1 DEF WithIdleEvents, GcLast
  <2> HIDE DEF g, m
  <2> QED
    BY <2>2, <2>3, <2>4, ConcatKeeps
<1>5. Range(idleevents_queue') = {}
  BY <1>1 DEF Range
<1>6. Advance
  BY <1>2, <1>3 DEF Advance
<1>7. Known'
  BY <1>1, <1>2, <1>3, <1>4, <1>5, <1>6, KnownKept DEF Posting, TypeOK
<1>8. Unposted'
  BY <1>1, <1>3, UnpostedStays DEF Posting, postVars
<1> QED
  BY <1>6, <1>7, <1>8 DEF Posting

LEMMA EndPosting ==
  ASSUME TypeOK, HandlerStack, Posting, Finish \/ Unwind
  PROVE  Posting' /\ Advance
<1> DEFINE e == cur[1].ev
<1>1. cur # <<>> /\ UNCHANGED <<queueVars, next>> /\ cur' = Tail(cur)
      /\ fate' = [fate EXCEPT ![e] = "handled"]
  BY DEF Finish, Unwind, HandlerStack
<1>2. e \in Events /\ fate[e] # "new"
  BY <1>1, TopHandling DEF Posting, Known, TypeOK
<1> HIDE DEF e
<1>3. Advance /\ \A x \in Events : fate[x] = "new" => fate'[x] = "new"
  BY <1>1, <1>2, FateMoves DEF TypeOK, Over
<1>4. \A i \in DOMAIN cur' : \E k \in DOMAIN cur : cur'[i] = cur[k]
  BY <1>1, PopFrames DEF TypeOK, VmType
<1>5. Known'
  BY <1>1, <1>3, <1>4, KnownKept DEF Posting, TypeOK, queueVars
<1>6. Unposted'
  BY <1>1, <1>3, UnpostedStays DEF Posting
<1> QED
  BY <1>3, <1>5, <1>6 DEF Posting

LEMMA DropPosting ==
  ASSUME TypeOK, FrontThere, Posting, DrainPop
  PROVE  Posting' /\ Advance
<1> DEFINE e == Head(events_queue)
<1>1. /\ events_queue # <<>> /\ UNCHANGED <<idleevents_queue, event_buffer, half, next, cur>>
      /\ events_queue' = Tail(events_queue)
      /\ \E v \in Over : fate' = [fate EXCEPT ![e] = v]
  BY DEF DrainPop, DropFate, FrontThere, Over
<1>2. e \in Events /\ fate[e] # "new"
  BY <1>1, FrontEvent DEF Posting, Known, TypeOK
<1> HIDE DEF e
<1>3. Advance /\ \A x \in Events : fate[x] = "new" => fate'[x] = "new"
  BY <1>1, <1>2, FateMoves DEF TypeOK, Over
<1>4. Range(events_queue') \subseteq Range(events_queue)
  BY <1>1, TailKeeps DEF TypeOK, QueueType
<1>5. Known'
  BY <1>1, <1>3, <1>4, KnownKept DEF Posting, TypeOK
<1>6. Unposted'
  BY <1>1, <1>3, UnpostedStays DEF Posting
<1> QED
  BY <1>3, <1>5, <1>6 DEF Posting

LEMMA DrainFrontPosting ==
  ASSUME Posting, DrainFront
  PROVE  Posting' /\ Advance
<1>1. Unposted'
  BY DEF DrainFront, Posting, Unposted, eventVars, postVars
<1>2. Known'
  BY DEF DrainFront, Posting, Known, eventVars, queueVars
<1> QED
  BY <1>1, <1>2 DEF DrainFront, Posting, Advance, eventVars

\* The VM thread, or an error, takes the event past the queue.
LEMMA ShutdownOnErrorPosting ==
  ASSUME TypeOK, Posting, NEW t \in Threads, ShutdownOnError(t)
  PROVE  Posting' /\ Advance /\ (Queues => Takes(ToPost(t)))
<1> DEFINE e == ToPost(t)
<1>1. HasNext(t) /\ UNCHANGED <<queueVars, cur, handled>> /\ Kind[e] = "shutdown"
      /\ fate' = [fate EXCEPT ![e] = "elsewhere"] /\ next' = [next EXCEPT ![t] = @ + 1]
  BY DEF ShutdownOnError, vmVars
<1>2. e \in Events /\ fate[e] = "new"
  BY <1>1, ToPostNew DEF Posting, TypeOK
<1> HIDE DEF e
<1>3. fate'[e] = "elsewhere" /\ \A x \in Events : x # e => fate'[x] = fate[x]
  BY <1>1, <1>2 DEF TypeOK, EventType
<1>4. Moves(e)
  BY <1>1, <1>2, <1>3 DEF Moves, Over, queueVars
<1>5. Posting' /\ Advance
  BY <1>1, <1>4, MovesPosting DEF e, TypeOK
<1>6. ASSUME Queues PROVE Takes(e)
  <2>1. Settles(e)
    BY <1>1, <1>3 DEF Settles, Waitable
  <2>2. Orders(e)
    BY <1>1 DEF Orders, queueVars
  <2>3. ~InPlace(e)
    BY <1>2, NewNowhere DEF Posting
  <2>4. Placement'
    BY <1>1, <1>2, <1>3, <1>6, <2>3 DEF Queues, Placement, InPlace, queueVars
  <2> QED
    BY <1>1, <1>6, <2>1, <2>2, <2>4 DEF Takes, Queues, queueVars
<1> QED
  BY <1>5, <1>6 DEF e

LEMMA VmPostPosting ==
  ASSUME TypeOK, HandlerStack, Posting, VmPost
  PROVE  Posting' /\ Advance
<1> DEFINE e == ToPost(VM)
<1>1. VM \in Threads /\ HasNext(VM) /\ next' = [next EXCEPT ![VM] = @ + 1]
  BY DEF VmPost, Threads
<1>2. e \in Events /\ fate[e] = "new"
  BY <1>1, ToPostNew DEF Posting, TypeOK
<1>3. CASE Call(e) /\ UNCHANGED cur
  BY <1>1, <1>2, <1>3, CallTakes, MovesPosting DEF TypeOK, Posting
<1>4. CASE /\ fate' = [fate EXCEPT ![e] = "handling"] /\ Waitable(e)
           /\ cur' = <<Unguarded(e)>> \o cur /\ UNCHANGED queueVars
  <2> HIDE DEF e
  <2>1. fate'[e] = "handling" /\ \A x \in Events : x # e => fate'[x] = fate[x]
    BY <1>2, <1>4 DEF TypeOK, EventType
  <2>2. Advance
    BY <1>2, <2>1 DEF Advance, Over
  <2>3. \A i \in DOMAIN cur' : cur'[i].ev = e \/ \E k \in DOMAIN cur : cur'[i] = cur[k]
    <3>1. Unguarded(e) \in Frame /\ Unguarded(e).ev = e /\ cur \in Seq(Frame)
      BY <1>2 DEF Unguarded, Frame, TypeOK, VmType
    <3>2. \A i \in DOMAIN (<<Unguarded(e)>> \o cur) :
             \/ (<<Unguarded(e)>> \o cur)[i] = Unguarded(e)
             \/ i - 1 \in DOMAIN cur /\ (<<Unguarded(e)>> \o cur)[i] = cur[i - 1]
      BY <3>1, PushFrames
    <3> QED
      BY <1>4, <3>1, <3>2
  <2>4. Known'
    BY <1>4, <2>1, <2>2, <2>3, KnownKept DEF TypeOK, Posting, queueVars
  <2>5. Unposted'
    BY <1>1, <2>1, UnpostedNext DEF TypeOK, Posting, e
  <2> QED
    BY <2>2, <2>4, <2>5 DEF Posting
<1> QED
  BY <1>3, <1>4 DEF VmPost

(***************************************************************************)
(* The regular queues, step by step.                                       *)
(***************************************************************************)
LEMMA WaiterKept ==
  ASSUME NEW p \in Posters, Waiter(p), ppc'[p] \in Waiting => ppc[p] \in Waiting /\ next'[p] = next[p],
         \A x \in Events : handled[x] => handled'[x],
         \A x \in Events : Waitable(x) /\ fate[x] \in Live => fate'[x] \in Live
  PROVE  Waiter(p)'
<1> SUFFICES ASSUME ppc'[p] \in Waiting
             PROVE  /\ next'[p] - 1 \in DOMAIN Program[p] /\ Waitable(Waited(p)')
                    /\ handled'[Waited(p)'] \/ fate'[Waited(p)'] \in Live
  BY DEF Waiter
<1>1. ppc[p] \in Waiting /\ next'[p] = next[p] /\ Waited(p)' = Waited(p)
  BY DEF Waited
<1>2. /\ next[p] - 1 \in DOMAIN Program[p] /\ Waitable(Waited(p))
      /\ handled[Waited(p)] \/ fate[Waited(p)] \in Live
  BY <1>1 DEF Waiter
<1>3. Waited(p) \in Events
  BY <1>2, ProgramType DEF Waited, Threads
<1> QED
  BY <1>1, <1>2, <1>3

LEMMA WaitersKept ==
  ASSUME Waiters,
         \A p \in Posters : ppc'[p] \in Waiting => ppc[p] \in Waiting /\ next'[p] = next[p],
         \A x \in Events : handled[x] => handled'[x],
         \A x \in Events : Waitable(x) /\ fate[x] \in Live => fate'[x] \in Live
  PROVE  Waiters'
  BY WaiterKept DEF Waiters

LEMMA ServedKept ==
  ASSUME Served, \A x \in Events : handled[x] => handled'[x],
         \A x \in Events : Waitable(x) /\ fate'[x] \in {"handled", "dropped"}
                           => fate[x] = fate'[x] \/ handled'[x]
  PROVE  Served'
  BY DEF Served

LEMMA CollectionsKept ==
  ASSUME TypeOK, Collections, behind' = behind,
         \A d \in Idles : fate'[GcOf[d]] # "new" => fate[GcOf[d]] # "new",
         \A d \in Idles : fate[d] = "handled" \/ (vpc = "finish" /\ cur[1].ev = d)
                          => fate'[d] = "handled" \/ (vpc' = "finish" /\ cur'[1].ev = d),
         \A x \in Events : fate[x] # "new" => fate'[x] # "new",
         \A x \in Events : fate'[x] = "queued" /\ fate[x] # "new" => fate[x] = "queued",
         \A x \in Range(events_queue) : fate'[x] = "queued" => x \in Range(events_queue'),
         \A d \in Idles : \A a \in Range(events_queue) :
            /\ fate'[a] = "queued" /\ fate[GcOf[d]] = "queued"
            /\ GcOf[d] \in Range(events_queue) /\ Precedes(events_queue, a, GcOf[d])
            => fate'[GcOf[d]] = "queued" /\ Precedes(events_queue', a, GcOf[d])
  PROVE  Collections'
<1> SUFFICES ASSUME NEW d \in Idles
             PROVE  /\ fate'[GcOf[d]] # "new" => fate'[d] = "handled" \/ (vpc' = "finish" /\ cur'[1].ev = d)
                    /\ fate'[GcOf[d]] = "queued" => GcOf[d] \in Range(events_queue')
                    /\ \A e \in behind[d] :
                         /\ fate'[e] # "new"
                         /\ fate'[e] = "queued"
                            => /\ e \in Range(events_queue') /\ fate'[GcOf[d]] = "queued"
                               /\ Precedes(events_queue', e, GcOf[d])
  BY DEF Collections
<1>1. GcOf[d] \in Events /\ d \in Events /\ behind[d] \subseteq Events
  BY HandlingAssumption DEF Idles, TypeOK, EventType
<1>2. fate'[GcOf[d]] # "new" => fate'[d] = "handled" \/ (vpc' = "finish" /\ cur'[1].ev = d)
  BY DEF Collections
<1>3. fate'[GcOf[d]] = "queued" => GcOf[d] \in Range(events_queue')
  BY <1>1 DEF Collections
<1>4. ASSUME NEW e \in behind[d] PROVE fate'[e] # "new"
  BY <1>1 DEF Collections
<1>5. ASSUME NEW e \in behind[d], fate'[e] = "queued"
      PROVE  /\ e \in Range(events_queue') /\ fate'[GcOf[d]] = "queued"
             /\ Precedes(events_queue', e, GcOf[d])
  <2>1. e \in Events /\ fate[e] = "queued"
    BY <1>1, <1>5 DEF Collections
  <2>2. /\ e \in Range(events_queue) /\ fate[GcOf[d]] = "queued"
        /\ Precedes(events_queue, e, GcOf[d]) /\ GcOf[d] \in Range(events_queue)
    BY <2>1 DEF Collections
  <2> QED
    BY <1>5, <2>2
<1> QED
  BY <1>2, <1>3, <1>4, <1>5

LEMMA CalmRegular ==
  ASSUME TypeOK, Regular, Calm
  PROVE  Regular'
<1>1. UNCHANGED <<events_queue, idleevents_queue, event_buffer, half, fate, handled, behind, cur, front>>
  BY DEF Calm, queueVars
<1>2. Queues'
  BY <1>1 DEF Calm, Regular, Queues, Placement, InPlace
<1>3. Handlers'
  BY <1>1, HandlersSame DEF Regular
<1>4. Collections'
  BY <1>1, CollectionsKept DEF Calm, Regular
<1>5. Served'
  BY <1>1, ServedKept DEF Calm, Regular, Served
<1>6. Waiters'
  BY <1>1, WaitersKept DEF Calm, Regular
<1> QED
  BY <1>2, <1>3, <1>4, <1>5, <1>6 DEF Regular

\* A thread hands over an event; who waits is looked at below.
LEMMA TakenRegular ==
  ASSUME TypeOK, Posting, Regular, NEW e \in Events, fate[e] = "new", Takes(e),
         \A d \in Idles : GcOf[d] # e, UNCHANGED <<cur, front, behind>>,
         vpc' = vpc \/ (vpc = "asleep" /\ vpc' = "loop")
  PROVE  Queues' /\ Handlers' /\ Collections' /\ Served'
<1>1. e \in Events /\ fate[e] = "new" /\ \A d \in Idles : GcOf[d] # e
  OBVIOUS
<1>2. Settles(e) /\ Orders(e) /\ Placement' /\ half' = NoEvent
  BY DEF Takes
<1>3. \A x \in Events : x \in Range(idleevents_queue) => fate[x] = "queued" /\ x \notin Range(events_queue)
  BY DEF Regular, Queues, Placement, InPlace
<1>4. \A x \in Events : x # e => \/ fate'[x] = fate[x]
                                 \/ /\ fate[x] = "queued" /\ fate'[x] = "replaced"
                                    /\ x \notin Range(events_queue) /\ x \in Range(idleevents_queue)
  BY <1>2, <1>3 DEF Settles
<1>5. fate'[e] \in {"queued", "refused", "elsewhere"} /\ \A x \in Events : handled[x] => handled'[x]
  BY <1>2 DEF Settles
<1>6. Range(events_queue) \subseteq Events /\ \A d \in Idles : d \in Events /\ GcOf[d] \in Events
  BY QueueRanges, HandlingAssumption DEF TypeOK, Idles
<1>7. Queues'
  BY <1>2 DEF Regular, Queues
<1>8. Handlers'
  BY <1>1, <1>4, <1>5, HandlersSame DEF Regular
<1>9. Collections'
  <2>1. \A d \in Idles : fate'[GcOf[d]] # "new" => fate[GcOf[d]] # "new"
    BY <1>1, <1>4, <1>6
  <2>2. \A d \in Idles : fate[d] = "handled" \/ (vpc = "finish" /\ cur[1].ev = d)
                          => fate'[d] = "handled" \/ (vpc' = "finish" /\ cur'[1].ev = d)
    BY <1>1, <1>4, <1>6
  <2>3. \A x \in Events : fate[x] # "new" => fate'[x] # "new"
    BY <1>1, <1>4
  <2>4. \A x \in Events : fate'[x] = "queued" /\ fate[x] # "new" => fate[x] = "queued"
    BY <1>1, <1>4
  <2>5. \A x \in Range(events_queue) : x # e /\ x \in Range(events_queue')
    BY <1>1, <1>2, <1>6 DEF Orders, Posting, Known
  <2>6. ASSUME NEW d \in Idles, NEW a \in Range(events_queue), GcOf[d] \in Range(events_queue),
               fate[GcOf[d]] = "queued", Precedes(events_queue, a, GcOf[d])
        PROVE  fate'[GcOf[d]] = "queued" /\ Precedes(events_queue', a, GcOf[d])
    <3>1. a # e /\ GcOf[d] # e
      BY <2>5, <2>6
    <3>2. Precedes(events_queue', a, GcOf[d])
      BY <1>2, <2>6, <3>1 DEF Orders
    <3>3. fate'[GcOf[d]] = "queued"
      BY <1>4, <1>6, <2>6, <3>1
    <3> QED
      BY <3>2, <3>3
  <2> QED
    BY <2>1, <2>2, <2>3, <2>4, <2>5, <2>6, CollectionsKept DEF Regular
<1>10. Served'
  <2>1. \A x \in Events : fate'[x] = "handled" => fate[x] = "handled"
    BY <1>4, <1>5
  <2>2. \A x \in Events : fate'[x] = "dropped" => fate[x] = "dropped"
    BY <1>4, <1>5
  <2> QED
    BY <1>5, <2>1, <2>2, ServedKept DEF Regular
<1> QED
  BY <1>7, <1>8, <1>9, <1>10

\* A thread hands over its next event.
LEMMA TakesRegular ==
  ASSUME TypeOK, Posting, Regular, NEW t \in Threads, HasNext(t), Takes(ToPost(t)),
         UNCHANGED <<cur, front, behind>>, vpc' = vpc \/ (vpc = "asleep" /\ vpc' = "loop")
  PROVE  Queues' /\ Handlers' /\ Collections' /\ Served'
<1>1. /\ ToPost(t) \in Events /\ fate[ToPost(t)] = "new"
      /\ \A d \in Idles : GcOf[d] # ToPost(t)
  BY ToPostNew, ProgramsAssumption DEF Posting, TypeOK, ToPost
<1> QED
  BY <1>1, TakenRegular

\* A waitable event is in no idle queue, so that no operation replaces it.
LEMMA TakesLive ==
  ASSUME Posting, NEW e \in Events, Takes(e), fate[e] = "new"
  PROVE  /\ \A x \in Events : handled[x] => handled'[x]
         /\ \A x \in Events : Waitable(x) /\ fate[x] \in Live => fate'[x] \in Live
<1>1. \A x \in Range(idleevents_queue) : x \in Events => ~Waitable(x)
  BY ProgramsAssumption DEF Posting, Known, IdleMethods, Waitable
<1> QED
  BY <1>1 DEF Takes, Settles, Live

LEMMA PostStep ==
  ASSUME TypeOK, FrontThere, Posting, NEW p \in Posters, Post(p)
  PROVE  Posting' /\ Advance /\ (Regular => Regular')
<1> DEFINE e == ToPost(p)
<1>1. /\ p \in Threads /\ HasNext(p) /\ next' = [next EXCEPT ![p] = @ + 1]
      /\ UNCHANGED <<cur, front, behind>> /\ Call(e)
  BY DEF Post, Threads
<1>2. e \in Events /\ fate[e] = "new" /\ next[p] \in DOMAIN Program[p]
  BY <1>1, ToPostNew DEF Posting, TypeOK
<1>3. Moves(e) /\ (Queues => Takes(e))
  BY <1>1, <1>2, CallTakes DEF TypeOK, Posting
<1>4. Posting' /\ Advance
  BY <1>1, <1>3, MovesPosting DEF TypeOK
<1>5. ASSUME Regular PROVE Regular'
  <2>1. Takes(e)
    BY <1>3, <1>5 DEF Regular
  <2>2. vpc' = vpc \/ (vpc = "asleep" /\ vpc' = "loop")
    BY <1>1, <1>2, CallEnqueues DEF TypeOK, Enqueued
  <2>3. Queues' /\ Handlers' /\ Collections' /\ Served'
    BY <1>1, <1>5, <2>1, <2>2, TakesRegular
  <2>4. /\ \A x \in Events : handled[x] => handled'[x]
        /\ \A x \in Events : Waitable(x) /\ fate[x] \in Live => fate'[x] \in Live
    BY <1>2, <2>1, TakesLive
  <2>5. ASSUME NEW q \in Posters, q # p PROVE Waiter(q)'
    <3>1. next'[q] = next[q] /\ ppc'[q] = AfterSignal[q]
      <4>1. AfterSignal \in [Posters -> PosterPositions]
        BY AfterSignalType DEF TypeOK
      <4> QED
        BY <1>1, <2>5, <4>1 DEF Post, TypeOK, PostType, Threads
    <3>2. ppc'[q] \in Waiting => ppc[q] \in Waiting
      BY <3>1, AwakeKeeps DEF TypeOK
    <3> QED
      BY <1>5, <2>4, <3>1, <3>2, WaiterKept DEF Regular, Waiters
  <2>6. Waiter(p)'
    <3> SUFFICES ASSUME ppc'[p] \in Waiting
                 PROVE  /\ next'[p] - 1 \in DOMAIN Program[p] /\ Waitable(Waited(p)')
                        /\ handled'[Waited(p)'] \/ fate'[Waited(p)'] \in Live
      BY DEF Waiter
    <3>1. Waits(e)
      <4>1. AfterSignal \in [Posters -> PosterPositions]
        BY AfterSignalType DEF TypeOK
      <4>2. ~Waits(ToPost(p)) => ppc'[p] = "run"
        BY <4>1 DEF Post
      <4> QED
        BY <4>2 DEF Waiting
    <3>2. next'[p] - 1 = next[p]
      BY <1>1 DEF TypeOK, PostType
    <3>3. Waited(p)' = e
      BY <3>2 DEF Waited, ToPost
    <3>4. fate'[e] = "queued" \/ handled'[e]
      <4>1. Waitable(e) /\ (fate'[e] = "queued" \/ Method[e] = "add")
        BY <3>1 DEF Waits
      <4> QED
        BY <2>1, <4>1 DEF Takes, Settles
    <3> QED
      BY <1>2, <3>1, <3>2, <3>3, <3>4 DEF Waits, Live
  <2> QED
    BY <2>3, <2>5, <2>6 DEF Regular, Waiters
<1> QED
  BY <1>4, <1>5

LEMMA OtherWaiters ==
  ASSUME TypeOK, Waiters, NEW t \in {VM, Main}, next' = [next EXCEPT ![t] = @ + 1],
         ppc' = AfterSignal \/ ppc' = ppc,
         \A x \in Events : handled[x] => handled'[x],
         \A x \in Events : Waitable(x) /\ fate[x] \in Live => fate'[x] \in Live
  PROVE  Waiters'
<1>1. \A p \in Posters : next'[p] = next[p]
  BY ThreadsAssumption DEF TypeOK, PostType, Threads
<1>2. \A p \in Posters : ppc'[p] \in Waiting => ppc[p] \in Waiting
  BY AwakeKeeps DEF TypeOK
<1> QED
  BY <1>1, <1>2, WaitersKept

LEMMA PostShutdownStep ==
  ASSUME TypeOK, FrontThere, PostedOnce, Posting, PostShutdown
  PROVE  Posting' /\ Advance /\ (Regular => Regular')
<1> DEFINE e == ToPost(Main)
<1>1. /\ Main \in Threads /\ HasNext(Main) /\ next' = [next EXCEPT ![Main] = @ + 1]
      /\ UNCHANGED <<cur, front, behind>> /\ AddEvent(e) /\ ppc' = AfterSignal
  BY ThreadsAssumption DEF PostShutdown, PostedOnce, HasNext, Threads
<1>2. e \in Events /\ fate[e] = "new"
  BY <1>1, ToPostNew DEF Posting, TypeOK
<1>3. Moves(e) /\ (Queues => Takes(e))
  BY <1>1, <1>2, AddEventTakes DEF TypeOK, Posting
<1>4. Posting' /\ Advance
  BY <1>1, <1>3, MovesPosting DEF TypeOK
<1>5. ASSUME Regular PROVE Regular'
  <2>1. Takes(e)
    BY <1>3, <1>5 DEF Regular
  <2>2. vpc' = vpc \/ (vpc = "asleep" /\ vpc' = "loop")
    BY <1>1, <1>2, AddEventEnqueues DEF TypeOK, Enqueued
  <2>3. Queues' /\ Handlers' /\ Collections' /\ Served'
    BY <1>1, <1>5, <2>1, <2>2, TakesRegular
  <2>4. Waiters'
    BY <1>1, <1>2, <1>5, <2>1, TakesLive, OtherWaiters DEF Regular
  <2> QED
    BY <2>3, <2>4 DEF Regular
<1> QED
  BY <1>4, <1>5

LEMMA ShutdownOnErrorStep ==
  ASSUME TypeOK, FrontThere, Posting, NEW t \in Threads, ShutdownOnError(t), t # Main
  PROVE  Posting' /\ Advance /\ (Regular => Regular')
<1> DEFINE e == ToPost(t)
<1>1. /\ HasNext(t) /\ next' = [next EXCEPT ![t] = @ + 1] /\ ppc' = ppc
      /\ UNCHANGED <<cur, front, behind, vpc>>
  BY DEF ShutdownOnError, vmVars
<1>2. e \in Events /\ fate[e] = "new"
  BY <1>1, ToPostNew DEF Posting, TypeOK
<1>3. Posting' /\ Advance /\ (Queues => Takes(e))
  BY ShutdownOnErrorPosting
<1>4. ASSUME Regular PROVE Regular'
  <2>1. Takes(e)
    BY <1>3, <1>4 DEF Regular
  <2>2. Queues' /\ Handlers' /\ Collections' /\ Served'
    BY <1>1, <1>4, <2>1, TakesRegular
  <2>3. Waiters'
    <3>1. CASE t = VM
      BY <1>1, <1>2, <1>4, <2>1, <3>1, TakesLive, OtherWaiters DEF Regular
    <3>2. CASE t \in Posters
      <4>1. \A p \in Posters : p # t => next'[p] = next[p]
        BY <1>1 DEF TypeOK, PostType, Threads
      <4>2. ppc'[t] \notin Waiting
        BY <1>1, <3>2, ThreadsAssumption DEF ShutdownOnError, Runs, Waiting
      <4> QED
        BY <1>1, <1>2, <1>4, <2>1, <4>1, <4>2, TakesLive, WaitersKept DEF Regular
    <3> QED
      BY <3>1, <3>2 DEF Threads
  <2> QED
    BY <2>2, <2>3 DEF Regular
<1> QED
  BY <1>3, <1>4

LEMMA VmPostStep ==
  ASSUME TypeOK, HandlerStack, FrontThere, Posting, VmPost
  PROVE  Posting' /\ Advance /\ (Regular => Regular')
<1> DEFINE e == ToPost(VM)
<1>1. /\ VM \in Threads /\ HasNext(VM) /\ next' = [next EXCEPT ![VM] = @ + 1]
      /\ UNCHANGED <<front, behind>> /\ vpc = "handle"
  BY DEF VmPost, Threads, Runs
<1>2. e \in Events /\ fate[e] = "new" /\ \A d \in Idles : GcOf[d] # e
  BY <1>1, ToPostNew, ProgramsAssumption DEF Posting, TypeOK, ToPost
<1>3. Posting' /\ Advance
  BY VmPostPosting
<1>4. ASSUME Regular, Call(e), UNCHANGED cur, ppc' = AfterSignal PROVE Regular'
  <2>1. Takes(e)
    BY <1>2, <1>4, CallTakes DEF TypeOK, Posting, Regular
  <2>2. vpc' = vpc \/ (vpc = "asleep" /\ vpc' = "loop")
    BY <1>2, <1>4, CallEnqueues DEF TypeOK, Enqueued
  <2>3. Queues' /\ Handlers' /\ Collections' /\ Served'
    BY <1>1, <1>4, <2>1, <2>2, TakesRegular
  <2>4. Waiters'
    BY <1>1, <1>2, <1>4, <2>1, TakesLive, OtherWaiters DEF Regular
  <2> QED
    BY <2>3, <2>4 DEF Regular
<1>5. ASSUME Regular, fate' = [fate EXCEPT ![e] = "handling"], Waitable(e),
             cur' = <<Unguarded(e)>> \o cur, UNCHANGED <<queueVars, handled, ppc, vpc>>
      PROVE Regular'
  <2> HIDE DEF e
  <2>1. fate'[e] = "handling" /\ \A x \in Events : x # e => fate'[x] = fate[x]
    BY <1>2, <1>5 DEF TypeOK, EventType
  <2>2. ~InPlace(e)
    BY <1>2, NewNowhere DEF Posting
  <2>3. Queues'
    BY <1>2, <1>5, <2>1, <2>2 DEF Regular, Queues, Placement, InPlace, queueVars
  <2>4. Handlers'
    <3>1. Unguarded(e) \in Frame /\ Unguarded(e).ev = e
      BY <1>2 DEF Unguarded, Frame
    <3> QED
      BY <1>2, <1>5, <2>1, <3>1, HandlersPush DEF TypeOK, Regular
  <2>5. Collections'
    <3>1. \A d \in Idles : d \in Events /\ GcOf[d] \in Events
      BY HandlingAssumption DEF Idles
    <3>2. events_queue' = events_queue /\ Range(events_queue) \subseteq Events
      BY <1>5, QueueRanges DEF queueVars, TypeOK
    <3>3. \A d \in Idles : fate'[GcOf[d]] = fate[GcOf[d]]
      BY <1>2, <2>1, <3>1
    <3>4. \A d \in Idles : fate[d] = "handled" => fate'[d] = "handled"
      BY <1>2, <2>1, <3>1
    <3>5. \A x \in Events : fate[x] # "new" => fate'[x] # "new"
      BY <1>3 DEF Advance
    <3>6. \A x \in Events : fate'[x] = "queued" => fate[x] = "queued"
      BY <2>1
    <3> QED
      BY <1>1, <1>5, <3>2, <3>3, <3>4, <3>5, <3>6, CollectionsKept DEF Regular
  <2>6. Served'
    BY <1>1, <1>5, <2>1, ServedKept DEF Regular
  <2>7. Waiters'
    <3>1. \A x \in Events : Waitable(x) /\ fate[x] \in Live => fate'[x] \in Live
      BY <2>1 DEF Live
    <3> QED
      BY <1>1, <1>5, <3>1, OtherWaiters DEF Regular
  <2> QED
    BY <2>3, <2>4, <2>5, <2>6, <2>7 DEF Regular
<1> QED
  BY <1>3, <1>4, <1>5 DEF VmPost

\* An event leaves the front of events_queue.
LEMMA FrontLeaves ==
  ASSUME TypeOK, Regular, events_queue # <<>>, events_queue' = Tail(events_queue),
         UNCHANGED <<idleevents_queue, event_buffer, half, behind>>, vpc # "finish",
         NEW v \in Over, fate' = [fate EXCEPT ![Head(events_queue)] = v], vpc' # "move"
  PROVE  Queues' /\ Collections'
<1> DEFINE e == Head(events_queue)
<1>1. e \in Events /\ e \in Range(events_queue)
  BY FrontEvent DEF TypeOK
<1>2. fate'[e] = v /\ \A x \in Events : x # e => fate'[x] = fate[x]
  BY <1>1 DEF TypeOK, EventType
<1>3. fate[e] = "queued" /\ e \notin Range(idleevents_queue) /\ e \notin Range(event_buffer)
  BY <1>1 DEF Regular, Queues, Placement, InPlace
<1>4. Distinct(events_queue') /\ Range(events_queue') = Range(events_queue) \ {e}
  BY TailKeeps DEF TypeOK, QueueType, Regular, Queues, Placement
<1>5. \A a, b : Precedes(events_queue, a, b) => Precedes(events_queue', a, b)
  BY TailKeeps DEF TypeOK, QueueType
<1>6. \A a, b : Precedes(events_queue, a, b) /\ a \in Range(events_queue) => b # e
  BY TailKeeps DEF TypeOK, QueueType, Regular, Queues, Placement
<1> HIDE DEF e
<1>7. \A x \in Events : fate'[x] = "queued" <=> InPlace(x)'
  <2>1. \A x \in Events : fate[x] = "queued" <=> InPlace(x)
    BY DEF Regular, Queues, Placement
  <2>2. \A x \in Events : InPlace(x)' <=> InPlace(x) /\ x # e
    BY <1>3, <1>4 DEF InPlace
  <2> QED
    BY <1>2, <2>1, <2>2 DEF Over
<1>8. Queues'
  BY <1>4, <1>7 DEF Regular, Queues, Placement
<1>9. Collections'
  <2>1. \A d \in Idles : d \in Events /\ GcOf[d] \in Events
    BY HandlingAssumption DEF Idles
  <2>2. \A d \in Idles : fate'[GcOf[d]] # "new" => fate[GcOf[d]] # "new"
    BY <1>2, <1>3, <2>1
  <2>3. \A d \in Idles : fate[d] = "handled" => fate'[d] = "handled"
    BY <1>2, <1>3, <2>1
  <2>4. \A x \in Events : fate[x] # "new" => fate'[x] # "new"
    BY <1>2 DEF Over
  <2>5. \A x \in Events : fate'[x] = "queued" => fate[x] = "queued" /\ x # e
    BY <1>2 DEF Over
  <2>6. Range(events_queue) \subseteq Events
    BY QueueRanges DEF TypeOK
  <2>7. \A x \in Range(events_queue) : fate'[x] = "queued" => x \in Range(events_queue')
    BY <1>4, <2>5, <2>6
  <2>8. \A d \in Idles : \A a \in Range(events_queue) :
            /\ fate'[a] = "queued" /\ fate[GcOf[d]] = "queued"
            /\ GcOf[d] \in Range(events_queue) /\ Precedes(events_queue, a, GcOf[d])
            => fate'[GcOf[d]] = "queued" /\ Precedes(events_queue', a, GcOf[d])
    BY <1>2, <1>5, <1>6, <2>1
  <2> QED
    BY <2>2, <2>3, <2>4, <2>5, <2>7, <2>8, CollectionsKept DEF Regular
<1> QED
  BY <1>8, <1>9

LEMMA FrontEventStep ==
  ASSUME TypeOK, Posting, events_queue # <<>>, HandleFrontEvent, vpc \in {"loop", "handle"}
  PROVE  Posting' /\ Advance /\ (Regular => Regular')
<1> DEFINE e == Head(events_queue)
<1>1. /\ events_queue' = Tail(events_queue)
      /\ UNCHANGED <<idleevents_queue, event_buffer, half, behind, handled, front, ppc, next>>
      /\ vpc' \in {"loop", "handle"}
  BY DEF HandleFrontEvent, postVars
<1>2. e \in Events /\ e \in Range(events_queue)
  BY FrontEvent DEF TypeOK
<1>3. ASSUME Regular PROVE Regular'
  <2>1. fate[e] = "queued"
    BY <1>2, <1>3 DEF Regular, Queues, Placement, InPlace
  <2>2. \E v \in Over : fate' = [fate EXCEPT ![e] = v]
    BY DEF HandleFrontEvent, Over
  <2>3. Queues' /\ Collections'
    BY <1>1, <1>3, <2>2, FrontLeaves
  <2>4. /\ fate'[e] \in Over /\ \A x \in Events : x # e => fate'[x] = fate[x]
        /\ fate'[e] \in {"dropped", "handling"}
    BY <1>2, <2>2 DEF TypeOK, EventType, HandleFrontEvent, Over
  <2>5. Handlers'
    <3>1. CASE halted /\ ~HandledWhenHalted(e)
      <4>1. cur' = cur /\ fate' = [fate EXCEPT ![e] = "dropped"]
        BY <3>1 DEF HandleFrontEvent
      <4>2. fate'[e] = "dropped"
        BY <1>2, <4>1 DEF TypeOK, EventType
      <4> QED
        BY <1>3, <2>1, <2>4, <4>1, <4>2, HandlersSame DEF Regular
    <3>2. CASE ~(halted /\ ~HandledWhenHalted(e))
      <4>1. cur' = <<Guarded(e)>> \o cur /\ fate' = [fate EXCEPT ![e] = "handling"]
        BY <3>2 DEF HandleFrontEvent
      <4>2. fate'[e] = "handling"
        BY <1>2, <4>1 DEF TypeOK, EventType
      <4>3. Guarded(e) \in Frame /\ Guarded(e).ev = e
        BY <1>2 DEF Guarded, Frame
      <4> HIDE DEF e
      <4> QED
        BY <1>3, <2>1, <2>4, <4>1, <4>2, <4>3, HandlersPush DEF Regular, TypeOK
    <3> QED
      BY <3>1, <3>2
  <2>6. Served'
    <3>1. Waitable(e) => fate'[e] # "dropped"
      <4>1. Waitable(e) => HandledWhenHalted(e)
        BY DEF HandledWhenHalted
      <4>2. Waitable(e) => fate' = [fate EXCEPT ![e] = "handling"]
        BY <4>1 DEF HandleFrontEvent
      <4> QED
        BY <1>2, <4>2 DEF TypeOK, EventType
    <3>2. \A x \in Events : Waitable(x) /\ fate'[x] \in {"handled", "dropped"} => fate'[x] = fate[x]
      BY <2>4, <3>1
    <3> QED
      BY <1>1, <1>3, <3>2, ServedKept DEF Regular
  <2>7. Waiters'
    <3>1. \A x \in Events : Waitable(x) /\ fate[x] \in Live => fate'[x] \in Live
      BY <2>4 DEF Live, Over
    <3> QED
      BY <1>1, <1>3, <3>1, WaitersKept DEF Regular
  <2> QED
    BY <2>3, <2>5, <2>6, <2>7 DEF Regular
<1> QED
  BY <1>3, FrontEventPosting

\* tryHandleEvent posts the SHUTDOWN event of an object that was thrown.
LEMMA ReportStep ==
  ASSUME TypeOK, Posting, ReportToVm
  PROVE  Posting' /\ Advance /\ (Regular => Regular')
<1> DEFINE e == ShutdownEvent
<1>1. /\ e \in Events /\ Kind[e] = "shutdown" /\ fate[e] = "new" /\ \A d \in Idles : GcOf[d] # e
      /\ \A t \in Threads : \A i \in DOMAIN Program[t] : Program[t][i] # e
  BY HandlingAssumption, ProgramsAssumption DEF ReportToVm
<1>2. UNCHANGED <<cur, front, behind, next>> /\ AddEvent(e) /\ ppc' = AfterSignal
  BY DEF ReportToVm
<1> HIDE DEF e
<1>3. Moves(e) /\ (Queues => Takes(e))
  BY <1>1, <1>2, AddEventTakes DEF TypeOK, Posting
<1>4. Known' /\ Advance
  BY <1>1, <1>2, <1>3, MovesKnown DEF TypeOK, Posting
<1>5. Unposted'
  BY <1>1, <1>2, <1>3, ProgramType DEF Moves, Posting, Unposted
<1>6. ASSUME Regular PROVE Regular'
  <2>1. Takes(e)
    BY <1>3, <1>6 DEF Regular
  <2>2. vpc' = vpc \/ (vpc = "asleep" /\ vpc' = "loop")
    BY <1>1, <1>2, AddEventEnqueues DEF TypeOK, Enqueued
  <2>3. Queues' /\ Handlers' /\ Collections' /\ Served'
    BY <1>1, <1>2, <1>6, <2>1, <2>2, TakenRegular
  <2>4. \A p \in Posters : ppc'[p] \in Waiting => ppc[p] \in Waiting
    BY <1>2, AwakeKeeps DEF TypeOK
  <2>5. Waiters'
    BY <1>1, <1>2, <1>6, <2>1, <2>4, TakesLive, WaitersKept DEF Regular
  <2> QED
    BY <2>3, <2>5 DEF Regular
<1> QED
  BY <1>4, <1>5, <1>6 DEF Posting

LEMMA DropStep ==
  ASSUME TypeOK, FrontThere, Posting, DrainPop
  PROVE  Posting' /\ Advance /\ (Regular => Regular')
<1> DEFINE e == Head(events_queue)
<1>1. /\ vpc = "drop" /\ vpc' = "drain" /\ events_queue # <<>> /\ front # NoEvent /\ front \in Events
      /\ UNCHANGED <<idleevents_queue, event_buffer, half, behind, cur, next>>
      /\ events_queue' = Tail(events_queue) /\ fate' = [fate EXCEPT ![e] = DropFate]
      /\ DropFate \in {"dropped", "mistaken"} /\ (DropFate = "dropped" => e = front)
      /\ ppc' = AfterSignal /\ SignalWaiter(front)
  BY DEF DrainPop, DropFate, FrontThere, TypeOK, VmType
<1>2. e \in Events /\ e \in Range(events_queue)
  BY <1>1, FrontEvent DEF TypeOK
<1>3. ASSUME Regular PROVE Regular'
  <2>1. fate[e] = "queued"
    BY <1>2, <1>3 DEF Regular, Queues, Placement, InPlace
  <2>2. Queues' /\ Collections'
    BY <1>1, <1>3, FrontLeaves DEF Over
  <2>3. /\ fate'[e] \in {"dropped", "mistaken"} /\ (fate'[e] = "dropped" => e = front)
        /\ \A x \in Events : x # e => fate'[x] = fate[x]
    BY <1>1, <1>2 DEF TypeOK, EventType
  <2>4. /\ \A x \in Events : handled[x] => handled'[x]
        /\ Waitable(front) => handled'[front]
    BY <1>1 DEF SignalWaiter, Signal, TypeOK, EventType
  <2> HIDE DEF e
  <2>6. Handlers'
    BY <1>1, <1>3, <2>1, <2>3, HandlersSame DEF Regular
  <2>7. Served'
    BY <1>1, <1>3, <2>3, <2>4, ServedKept DEF Regular
  <2>8. Waiters'
    <3>1. \A x \in Events : Waitable(x) /\ fate[x] \in Live => fate'[x] \in Live
      BY <2>3 DEF Live
    <3>2. \A p \in Posters : ppc'[p] \in Waiting => ppc[p] \in Waiting
      BY <1>1, AwakeKeeps DEF TypeOK
    <3> QED
      BY <1>1, <1>3, <2>4, <3>1, <3>2, WaitersKept DEF Regular
  <2> QED
    BY <2>2, <2>6, <2>7, <2>8 DEF Regular
<1> QED
  BY <1>3, DropPosting

LEMMA DrainFrontStep ==
  ASSUME TypeOK, Posting, DrainFront
  PROVE  Posting' /\ Advance /\ (Regular => Regular')
<1>1. /\ UNCHANGED <<queueVars, cur, fate, handled, behind, ppc, next>>
      /\ vpc = "drain" /\ vpc' = "drop" /\ front' = Head(events_queue)
  BY DEF DrainFront, eventVars, postVars
<1>2. ASSUME Regular PROVE Regular'
  <2>1. Queues'
    BY <1>1, <1>2 DEF Regular, Queues, Placement, InPlace, queueVars
  <2>2. Handlers'
    BY <1>1, <1>2, HandlersSame DEF Regular
  <2>3. Collections'
    BY <1>1, <1>2, CollectionsKept DEF Regular, queueVars
  <2>4. Served'
    BY <1>1, <1>2, ServedKept DEF Regular, queueVars
  <2>5. Waiters'
    BY <1>1, <1>2, WaitersKept DEF Regular
  <2> QED
    BY <2>1, <2>2, <2>3, <2>4, <2>5 DEF Regular
<1> QED
  BY <1>2, DrainFrontPosting

LEMMA EndStep ==
  ASSUME TypeOK, HandlerStack, Posting, Finish \/ Unwind
  PROVE  Posting' /\ Advance /\ (Regular => Regular')
<1> DEFINE e == cur[1].ev
<1>1. /\ cur # <<>> /\ UNCHANGED <<queueVars, next, front, behind>> /\ cur' = Tail(cur)
      /\ fate' = [fate EXCEPT ![e] = "handled"] /\ SignalWaiter(e) /\ ppc' = AfterSignal
  BY DEF Finish, Unwind, PassOn, HandlerStack
<1>2. vpc \in {"finish", "unwind"} /\ vpc' \notin {"move", "drop"}
  <2>1. CASE Finish
    BY <2>1 DEF Finish, Resume
  <2>2. CASE Unwind
    BY <2>2, UnwindOutcome DEF Unwind, TypeOK
  <2> QED
    BY <2>1, <2>2
<1>3. e \in Events
  BY <1>1, TopHandling DEF TypeOK
<1>4. ASSUME Regular PROVE Regular'
  <2>1. fate[e] = "handling"
    BY <1>1, <1>4, TopHandling DEF TypeOK, Regular
  <2>2. /\ \A x \in Events : handled[x] => handled'[x]
        /\ Waitable(e) => handled'[e]
    BY <1>1, <1>3 DEF SignalWaiter, Signal, TypeOK, EventType
  <2>3. fate'[e] = "handled" /\ \A x \in Events : x # e => fate'[x] = fate[x]
    BY <1>1, <1>3 DEF TypeOK, EventType
  <2>4. Handlers'
    BY <1>1, <1>4, <2>3, HandlersPop DEF Regular, TypeOK
  <2>5. Queues'
    <3>1. \A x \in Events : fate'[x] = "queued" <=> fate[x] = "queued"
      BY <2>1, <2>3
    <3> QED
      BY <1>1, <1>2, <1>4, <3>1 DEF Regular, Queues, Placement, InPlace, queueVars
  <2>6. Collections'
    <3>1. \A d \in Idles : d \in Events /\ GcOf[d] \in Events
      BY HandlingAssumption DEF Idles
    <3>2. events_queue' = events_queue /\ Range(events_queue) \subseteq Events
      BY <1>1, QueueRanges DEF queueVars, TypeOK
    <3>3. \A x \in Events : fate'[x] # "new" <=> fate[x] # "new"
      BY <2>1, <2>3
    <3>4. \A x \in Events : fate'[x] = "queued" <=> fate[x] = "queued"
      BY <2>1, <2>3
    <3>5. \A d \in Idles : fate[d] = "handled" \/ (vpc = "finish" /\ cur[1].ev = d) => fate'[d] = "handled"
      BY <2>3, <3>1
    <3>6. \A d \in Idles : fate'[GcOf[d]] # "new" => fate[GcOf[d]] # "new"
      BY <3>1, <3>3
    <3>7. \A d \in Idles : fate[GcOf[d]] = "queued" => fate'[GcOf[d]] = "queued"
      BY <3>1, <3>4
    <3> HIDE DEF e
    <3> QED
      BY <1>1, <1>4, <3>2, <3>3, <3>4, <3>5, <3>6, <3>7, CollectionsKept DEF Regular
  <2> HIDE DEF e
  <2>7. Served'
    BY <1>2, <1>4, <2>2, <2>3, ServedKept DEF Regular
  <2>8. Waiters'
    <3>1. \A x \in Events : Waitable(x) /\ fate[x] \in Live => fate'[x] \in Live
      BY <2>3 DEF Live
    <3>2. \A p \in Posters : ppc'[p] \in Waiting => ppc[p] \in Waiting
      BY <1>1, AwakeKeeps DEF TypeOK
    <3> QED
      BY <1>1, <1>4, <2>2, <3>1, <3>2, WaitersKept DEF Regular
  <2> QED
    BY <2>4, <2>5, <2>6, <2>7, <2>8 DEF Regular
<1> QED
  BY <1>4, EndPosting

LEMMA FlushStep ==
  ASSUME TypeOK, Posting, HandleFlushBuffer
  PROVE  Posting' /\ Advance /\ (Regular => Regular')
<1>1. /\ UNCHANGED <<fate, handled, behind, ppc, next, cur, front, half, idleevents_queue>>
      /\ event_buffer' = <<>> /\ vpc = "handle" /\ vpc' = "finish"
  BY DEF HandleFlushBuffer, eventVars, postVars, ClearBuffer
<1>2. events_queue \in Seq(Events) /\ event_buffer \in Seq(Events)
  BY DEF TypeOK, QueueType
<1>3. ASSUME Regular PROVE Regular'
  <2>1. \A x \in Range(events_queue) : x \notin Range(event_buffer)
    BY <1>3 DEF Regular, Queues, Placement
  <2>2. Distinct(events_queue) /\ Distinct(event_buffer) /\ Range(events_queue) \cap Range(event_buffer) = {}
    BY <1>3, <2>1 DEF Regular, Queues, Placement
  <2>3. \A q \in {events_queue \o event_buffer, event_buffer \o events_queue} :
          /\ Range(q) = Range(events_queue) \cup Range(event_buffer) /\ Distinct(q)
          /\ \A a, b : /\ a \in Range(events_queue) /\ b \in Range(events_queue)
                       /\ Precedes(events_queue, a, b)
                       => Precedes(q, a, b)
    <3>1. /\ Range(events_queue \o event_buffer) = Range(events_queue) \cup Range(event_buffer)
          /\ Distinct(events_queue \o event_buffer)
          /\ \A a, b : Precedes(events_queue, a, b) /\ a \notin Range(event_buffer)
                       => Precedes(events_queue \o event_buffer, a, b)
      BY <1>2, <2>2, ConcatKeeps
    <3>2. /\ Range(event_buffer \o events_queue) = Range(event_buffer) \cup Range(events_queue)
          /\ Distinct(event_buffer \o events_queue)
          /\ \A a, b : Precedes(events_queue, a, b) /\ b \notin Range(event_buffer)
                       => Precedes(event_buffer \o events_queue, a, b)
      BY <1>2, <2>2, ConcatKeeps
    <3> QED
      BY <2>1, <3>1, <3>2
  <2>4. events_queue' \in {events_queue \o event_buffer, event_buffer \o events_queue}
    BY DEF HandleFlushBuffer
  <2>5. /\ Range(events_queue') = Range(events_queue) \cup Range(event_buffer) /\ Distinct(events_queue')
        /\ \A a, b : /\ a \in Range(events_queue) /\ b \in Range(events_queue)
                     /\ Precedes(events_queue, a, b)
                     => Precedes(events_queue', a, b)
    BY <2>3, <2>4
  <2>6. Range(event_buffer') = {} /\ Distinct(event_buffer')
    BY <1>1 DEF Range, Distinct
  <2>7. \A x \in Range(event_buffer) : x \notin Range(idleevents_queue)
    BY DEF Posting, Known, IdleMethods, BufferMethods
  <2>8. Queues'
    BY <1>1, <1>3, <2>5, <2>6, <2>7 DEF Regular, Queues, Placement, InPlace
  <2>9. Handlers'
    BY <1>1, <1>3, HandlersSame DEF Regular
  <2>10. Collections'
    BY <1>1, <1>3, <2>5, CollectionsKept DEF Regular
  <2>11. Served'
    BY <1>1, <1>3, ServedKept DEF Regular
  <2>12. Waiters'
    BY <1>1, <1>3, WaitersKept DEF Regular
  <2> QED
    BY <2>8, <2>9, <2>10, <2>11, <2>12 DEF Regular
<1> QED
  BY <1>3, FlushPosting

LEMMA IdleStep ==
  ASSUME TypeOK, HandlerStack, Posting, HandleIdle
  PROVE  Posting' /\ Advance /\ (Regular => Regular')
<1>1. PICK d \in Idles :
          /\ vpc = "handle" /\ cur[1].ev = d
          /\ events_queue' = WithIdleEvents(events_queue, d)
          /\ behind' = [behind EXCEPT ![d] = Range(events_queue) \cup Range(idleevents_queue)]
          /\ idleevents_queue' = <<>> /\ fate' = [fate EXCEPT ![GcOf[d]] = "queued"]
          /\ vpc' = "finish" /\ UNCHANGED <<event_buffer, half, cur, front, handled, postVars>>
  BY DEF HandleIdle, Handling
<1>2. ASSUME Regular PROVE Regular'
  <2> DEFINE g == GcOf[d]
             m == events_queue \o idleevents_queue
             s == <<g>>
  <2>1. g \in Events /\ d \in Events /\ \A f \in Idles : f \in Events /\ GcOf[f] \in Events
    BY HandlingAssumption DEF Idles
  <2>2. \A f \in Idles : f # d => GcOf[f] # g
    BY ProgramsAssumption
  <2>3. fate[d] = "handling"
    BY <1>1, <1>2, TopHandling DEF HandlerStack, TypeOK, Regular
  <2>4. fate[g] = "new"
    BY <1>1, <1>2, <2>3 DEF Regular, Collections
  <2>5. events_queue \in Seq(Events) /\ idleevents_queue \in Seq(Events) /\ event_buffer \in Seq(Events)
    BY DEF TypeOK, QueueType
  <2>6. ~InPlace(g)
    BY <2>1, <2>4, NewNowhere DEF Posting
  <2>7. \A x \in Range(events_queue) : x \notin Range(idleevents_queue) /\ x \notin Range(event_buffer)
    BY <1>2 DEF Regular, Queues, Placement
  <2>8. \A x \in Range(idleevents_queue) : x \notin Range(event_buffer)
    BY DEF Posting, Known, IdleMethods, BufferMethods
  <2>9. /\ m \in Seq(Events) /\ Range(m) = Range(events_queue) \cup Range(idleevents_queue) /\ Distinct(m)
        /\ \A a, b : Precedes(events_queue, a, b) /\ a \notin Range(idleevents_queue) => Precedes(m, a, b)
    <3>1. Distinct(events_queue) /\ Distinct(idleevents_queue)
      BY <1>2 DEF Regular, Queues, Placement
    <3>2. Range(events_queue) \cap Range(idleevents_queue) = {}
      BY <2>7
    <3> QED
      BY <2>5, <3>1, <3>2, ConcatKeeps, ConcatProperties
  <2>10. s \in Seq(Events) /\ Range(s) = {g} /\ Distinct(s)
    BY <2>1, SingleFacts
  <2>11. events_queue' = m \o s
    BY <1>1 DEF WithIdleEvents, GcLast
  <2>12. fate' = [fate EXCEPT ![g] = "queued"] /\ cur' = cur /\ cur[1].ev = d
    BY <1>1
  <2> HIDE DEF g, m, s
  <2>13. /\ Range(events_queue') = Range(m) \cup {g} /\ Distinct(events_queue')
         /\ \A a, b : Precedes(m, a, b) /\ a # g => Precedes(events_queue', a, b)
         /\ \A a, b : a # g /\ b \notin Range(m) => Precedes(events_queue', a, b)
    <3>1. Range(m) \cap Range(s) = {}
      BY <2>6, <2>9, <2>10 DEF InPlace
    <3> QED
      BY <2>9, <2>10, <2>11, <3>1, ConcatKeeps
  <2>14. fate'[g] = "queued" /\ \A x \in Events : x # g => fate'[x] = fate[x]
    BY <2>1, <2>12 DEF TypeOK, EventType
  <2>15. Range(idleevents_queue') = {} /\ Distinct(idleevents_queue')
    BY <1>1 DEF Range, Distinct
  <2>16. Queues'
    <3>1. \A x \in Events : InPlace(x)' <=> InPlace(x) \/ x = g
      BY <1>1, <2>9, <2>13, <2>15 DEF InPlace
    <3>2. \A x \in Events : fate[x] = "queued" <=> InPlace(x)
      BY <1>2 DEF Regular, Queues, Placement
    <3>3. \A x \in Events : fate'[x] = "queued" <=> InPlace(x)'
      BY <2>14, <3>1, <3>2
    <3>4. \A x \in Range(events_queue') : x \notin Range(event_buffer)
      BY <2>6, <2>7, <2>8, <2>9, <2>13 DEF InPlace
    <3>5. Distinct(event_buffer) /\ half = NoEvent
      BY <1>2 DEF Regular, Queues, Placement
    <3> QED
      BY <1>1, <2>13, <2>15, <3>3, <3>4, <3>5 DEF Queues, Placement
  <2>17. Handlers'
    BY <1>2, <2>4, <2>12, <2>14, HandlersSame DEF Regular
  <2>18. Collections'
    <3>1. \A f \in Idles : f # d => behind'[f] = behind[f] /\ fate'[GcOf[f]] = fate[GcOf[f]]
      BY <1>1, <2>1, <2>2, <2>14 DEF TypeOK, EventType
    <3>2. behind'[d] = Range(m)
      BY <1>1, <2>9 DEF TypeOK, EventType
    <3>3. \A f \in Idles : fate[f] = "handled" => fate'[f] = "handled"
      BY <2>1, <2>4, <2>14
    <3>4. \A x \in Events : fate[x] # "new" => x # g /\ fate'[x] = fate[x]
      BY <2>4, <2>14
    <3>5. ASSUME NEW f \in Idles, f # d
          PROVE  /\ fate'[GcOf[f]] # "new" => fate'[f] = "handled" \/ (vpc' = "finish" /\ cur'[1].ev = f)
                 /\ fate'[GcOf[f]] = "queued" => GcOf[f] \in Range(events_queue')
                 /\ \A e \in behind'[f] :
                      /\ fate'[e] # "new"
                      /\ fate'[e] = "queued" => /\ e \in Range(events_queue') /\ fate'[GcOf[f]] = "queued"
                                                /\ Precedes(events_queue', e, GcOf[f])
      <4>1. fate'[GcOf[f]] # "new" => fate'[f] = "handled"
        BY <1>1, <1>2, <3>1, <3>3, <3>5 DEF Regular, Collections
      <4>2. fate'[GcOf[f]] = "queued" => GcOf[f] \in Range(events_queue')
        BY <1>2, <2>9, <2>13, <3>1, <3>5 DEF Regular, Collections
      <4>3. ASSUME NEW e \in behind'[f]
            PROVE  /\ fate'[e] # "new"
                   /\ fate'[e] = "queued" => /\ e \in Range(events_queue') /\ fate'[GcOf[f]] = "queued"
                                             /\ Precedes(events_queue', e, GcOf[f])
        <5>1. e \in behind[f] /\ e \in Events
          BY <3>1, <3>5, <4>3 DEF TypeOK, EventType
        <5>2. fate[e] # "new" /\ e # g /\ fate'[e] = fate[e]
          BY <1>2, <3>4, <5>1 DEF Regular, Collections
        <5>3. fate[e] = "queued" => /\ e \in Range(events_queue) /\ fate[GcOf[f]] = "queued"
                                    /\ Precedes(events_queue, e, GcOf[f])
          BY <1>2, <5>1 DEF Regular, Collections
        <5>4. fate[e] = "queued" => Precedes(events_queue', e, GcOf[f])
          BY <2>7, <2>9, <2>13, <5>2, <5>3
        <5> QED
          BY <2>9, <2>13, <3>1, <3>5, <5>2, <5>3, <5>4
      <4> QED
        BY <4>1, <4>2, <4>3
    <3>6. ASSUME NEW e \in behind'[d]
          PROVE  /\ fate'[e] # "new" /\ e \in Range(events_queue') /\ Precedes(events_queue', e, g)
      <4>1. e \in Range(m) /\ g \notin Range(m)
        BY <2>6, <2>9, <3>2, <3>6 DEF InPlace
      <4>2. e \in Events /\ fate[e] # "new"
        BY <2>9, <4>1, QueueRanges DEF Posting, Known, TypeOK
      <4> QED
        BY <2>13, <3>4, <4>1, <4>2
    <3> QED
      BY <1>1, <2>13, <2>14, <3>5, <3>6 DEF Collections, g
  <2>19. Served'
    BY <1>1, <1>2, <2>14, ServedKept DEF Regular
  <2>20. Waiters'
    <3>1. \A x \in Events : Waitable(x) /\ fate[x] \in Live => fate'[x] \in Live
      BY <2>14 DEF Live
    <3> QED
      BY <1>1, <1>2, <3>1, WaitersKept DEF Regular, postVars
  <2> QED
    BY <2>16, <2>17, <2>18, <2>19, <2>20 DEF Regular
<1> QED
  BY <1>2, IdlePosting

\* When SHUTDOWN finds an idle event, the queues stop being regular.
LEMMA StoreStep ==
  ASSUME TypeOK, HandlerStack, Posting, ShutdownStore
  PROVE  Posting' /\ Advance /\ (Regular => IdleMoved')
<1>1. Posting' /\ Advance
  BY StorePosting
<1>2. ASSUME Regular PROVE IdleMoved
  <2>1. cur # <<>> /\ idleevents_queue # <<>> /\ Kind[cur[1].ev] = "shutdown"
    BY DEF ShutdownStore, HandlerStack
  <2>2. cur[1].ev \in Events /\ fate[cur[1].ev] = "handling"
    BY <1>2, <2>1, TopHandling DEF Regular, TypeOK
  <2>3. Head(idleevents_queue) \in Range(idleevents_queue) /\ Head(idleevents_queue) \in Events
    BY <2>1, TailKeeps, TailType DEF TypeOK, QueueType
  <2>4. Method[Head(idleevents_queue)] \in IdleMethods /\ fate[Head(idleevents_queue)] # "new"
    BY <2>3 DEF Posting, Known
  <2> QED
    BY <2>1, <2>2, <2>3, <2>4 DEF IdleMoved, Begun
<1> QED
  BY <1>1, <1>2, AdvanceKeeps

LEMMA VmQueueStep ==
  ASSUME TypeOK, HandlerStack, FrontThere, Posting, VmStep
  PROVE  Posting' /\ Advance /\ (Regular => Regular' \/ IdleMoved')
<1>1. CASE \/ InitVm \/ Sleep \/ HandlePlain \/ ShutdownMoved \/ ShutdownFlag \/ SignalTerminated
           \/ Throw \/ Report \/ Record \/ GiveUp \/ DrainEnd \/ StopOnEmptyQueue \/ ShutdownVM
  <2>1. Calm
    BY <1>1, VmCalm
  <2>2. PostType /\ PostType'
    BY VmTypeStep DEF TypeOK
  <2> QED
    BY <2>1, <2>2, CalmPosting, CalmRegular
<1>2. CASE Take
  BY <1>2, FrontEventStep DEF Take
<1>3. CASE CheckExternalCallEvent
  BY <1>3, FrontEventStep DEF CheckExternalCallEvent, Runs
<1>4. CASE HandleIdle
  BY <1>4, IdleStep
<1>5. CASE HandleFlushBuffer
  BY <1>5, FlushStep
<1>6. CASE ShutdownStore
  BY <1>6, StoreStep
<1>7. CASE ShutdownCount
  BY <1>7, CountPosting DEF ShutdownCount, Regular, Queues
<1>8. CASE Finish \/ Unwind
  BY <1>8, EndStep
<1>9. CASE VmPost
  BY <1>9, VmPostStep
<1>10. CASE ShutdownOnError(VM)
  BY <1>10, ShutdownOnErrorStep, ThreadsAssumption DEF Threads
<1>11. CASE DrainFront
  BY <1>11, DrainFrontStep
<1>12. CASE DrainPop
  BY <1>12, DropStep
<1>13. CASE ReportToVm
  BY <1>13, ReportStep
<1> QED
  BY <1>1, <1>2, <1>3, <1>4, <1>5, <1>6, <1>7, <1>8, <1>9, <1>10, <1>11, <1>12, <1>13
     DEF VmStep, HandleStep

LEMMA OtherQueueStep ==
  ASSUME TypeOK, TypeOK', FrontThere, PostedOnce, Posting, MainStep \/ \E p \in Posters : PosterStep(p)
  PROVE  Posting' /\ Advance /\ (Regular => Regular')
<1>1. CASE PostShutdown
  BY <1>1, PostShutdownStep
<1>2. CASE MainStep /\ ~PostShutdown
  BY <1>2, MainCalm, CalmPosting, CalmRegular DEF TypeOK
<1>3. ASSUME NEW p \in Posters, PosterStep(p) PROVE Posting' /\ Advance /\ (Regular => Regular')
  <2>1. CASE Post(p)
    BY <2>1, PostStep
  <2>2. CASE ShutdownOnError(p)
    BY <2>2, ShutdownOnErrorStep, ThreadsAssumption DEF Threads
  <2>3. CASE BeginTick(p) \/ TickSignal(p) \/ Check(p) \/ Enter(p)
    BY <2>3, PostersCalm, CalmPosting, CalmRegular DEF TypeOK
  <2> QED
    BY <1>3, <2>1, <2>2, <2>3 DEF PosterStep
<1> QED
  BY <1>1, <1>2, <1>3

LEMMA StutterCalm ==
  ASSUME TypeOK, UNCHANGED vars
  PROVE  Calm
<1>1. \A t \in Threads : next[t] \in Nat /\ next[t] >= next[t]
  BY DEF TypeOK, PostType
<1> QED
  BY <1>1 DEF Calm, vars, vmVars, eventVars, postVars

LEMMA QueueStep ==
  ASSUME QueueInv, [Next]_vars
  PROVE  QueueInv'
<1>1. IInv' /\ TypeOK' /\ TypeOK /\ HandlerStack /\ FrontThere /\ PostedOnce /\ Posting
  BY NextInvariant DEF QueueInv, IInv
<1>2. Posting' /\ Advance /\ (Regular => Regular' \/ IdleMoved')
  <2>1. CASE VmStep
    BY <1>1, <2>1, VmQueueStep
  <2>2. CASE MainStep \/ \E p \in Posters : PosterStep(p)
    BY <1>1, <2>2, OtherQueueStep
  <2>3. CASE UNCHANGED vars
    BY <1>1, <2>3, StutterCalm, CalmPosting, CalmRegular DEF TypeOK
  <2> QED
    BY <2>1, <2>2, <2>3 DEF Next
<1> QED
  BY <1>1, <1>2, AdvanceKeeps DEF QueueInv

LEMMA QueueInit ==
  ASSUME Init
  PROVE  QueueInv
<1>1. IInv
  BY InitInvariant
<1>2. Range(events_queue) = {} /\ Range(idleevents_queue) = {} /\ Range(event_buffer) = {}
  BY DEF Init, Range
<1>3. \A e \in Events : fate[e] = "new"
  BY DEF Init
<1>4. cur = <<>> /\ DOMAIN cur = {} /\ half = NoEvent /\ vpc = "init"
  BY DEF Init
<1>5. Unposted
  BY <1>3, ProgramType DEF Unposted
<1>6. Known
  BY <1>2, <1>4 DEF Known
<1>7. Queues
  BY <1>2, <1>3, <1>4 DEF Queues, Placement, InPlace, Distinct, Init
<1>8. Handlers
  BY <1>3, <1>4 DEF Handlers
<1>9. Collections
  <2>1. \A d \in Idles : behind[d] = {} /\ fate[GcOf[d]] = "new"
    BY <1>3, HandlingAssumption DEF Init
  <2> QED
    BY <2>1 DEF Collections
<1>10. Served
  BY <1>3, <1>4 DEF Served
<1>11. Waiters
  BY DEF Init, Waiters, Waiter, Waiting
<1> QED
  BY <1>1, <1>5, <1>6, <1>7, <1>8, <1>9, <1>10, <1>11 DEF QueueInv, Posting, Regular

\* The queues are regular until SHUTDOWN moves idle events without the mutex.
THEOREM QueuesRegular == Spec => []QueueInv
  BY QueueInit, QueueStep, PTL DEF Spec

(***************************************************************************)
(* What the regular queues promise.                                        *)
(***************************************************************************)
LEMMA PlacesIn ==
  ASSUME NEW q, NEW tag, NEW e, Distinct(q)
  PROVE  /\ e \in Range(q) => \E x : {<<tag, i>> : i \in {k \in DOMAIN q : q[k] = e}} = {x}
         /\ e \notin Range(q) => {<<tag, i>> : i \in {k \in DOMAIN q : q[k] = e}} = {}
<1>1. CASE e \in Range(q)
  <2>1. PICK i \in DOMAIN q : q[i] = e
    BY <1>1 DEF Range
  <2>2. \A k \in DOMAIN q : q[k] = e <=> k = i
    BY <2>1 DEF Distinct
  <2>3. {<<tag, j>> : j \in {k \in DOMAIN q : q[k] = e}} = {<<tag, i>>}
    BY <2>1, <2>2
  <2> QED
    BY <1>1, <2>3
<1>2. CASE e \notin Range(q)
  BY <1>2 DEF Range
<1> QED
  BY <1>1, <1>2

\* Every event addEvent, prependEvent, addIdleEvent or addBufferEvent took is
\* in exactly one place of the three containers until the VM thread takes it
\* out, unless SHUTDOWN moved idle events without event_queue_mutex.
THEOREM EventsKept == Spec => [](IdleMoved \/ NoEventLost)
<1>1. QueueInv => IdleMoved \/ NoEventLost
  <2> SUFFICES ASSUME QueueInv, Regular, NEW e \in Events
               PROVE  Cardinality(Places(e)) = IF fate[e] = "queued" THEN 1 ELSE 0
    BY DEF QueueInv, NoEventLost
  <2> DEFINE P == {<<"queue", i>> : i \in {k \in DOMAIN events_queue : events_queue[k] = e}}
             Q == {<<"idle", i>> : i \in {k \in DOMAIN idleevents_queue : idleevents_queue[k] = e}}
             R == {<<"buffer", i>> : i \in {k \in DOMAIN event_buffer : event_buffer[k] = e}}
  <2>d. Distinct(events_queue) /\ Distinct(idleevents_queue) /\ Distinct(event_buffer)
    BY DEF Regular, Queues, Placement
  <2>p. (e \in Range(events_queue) => \E x : P = {x}) /\ (e \notin Range(events_queue) => P = {})
    BY <2>d, PlacesIn
  <2>q. (e \in Range(idleevents_queue) => \E x : Q = {x}) /\ (e \notin Range(idleevents_queue) => Q = {})
    BY <2>d, PlacesIn
  <2>r. (e \in Range(event_buffer) => \E x : R = {x}) /\ (e \notin Range(event_buffer) => R = {})
    BY <2>d, PlacesIn
  <2>2. Places(e) = (P \cup Q) \cup R
    BY DEF Places
  <2>3. /\ e \in Range(events_queue) => e \notin Range(idleevents_queue) /\ e \notin Range(event_buffer)
        /\ e \in Range(idleevents_queue) => e \notin Range(event_buffer)
        /\ fate[e] = "queued" <=> InPlace(e)
    BY DEF Regular, Queues, Placement, QueueInv, Posting, Known, IdleMethods, BufferMethods
  <2> HIDE DEF P, Q, R
  <2>4. CASE fate[e] = "queued"
    <3>1. \E x : Places(e) = {x}
      BY <2>p, <2>q, <2>r, <2>2, <2>3, <2>4 DEF InPlace
    <3> QED
      BY <2>4, <3>1, FS_Singleton
  <2>5. CASE fate[e] # "queued"
    <3>1. Places(e) = {}
      BY <2>p, <2>q, <2>r, <2>2, <2>3, <2>5 DEF InPlace
    <3> QED
      BY <2>5, <3>1, FS_EmptySet
  <2> QED
    BY <2>4, <2>5
<1> QED
  BY <1>1, QueuesRegular, PTL

\* The collection an IDLE_EVENT asks for is begun after every event that was
\* queued or idle when handleEvent handled the IDLE_EVENT.
THEOREM CollectionsLast == Spec => [](IdleMoved \/ CollectedLast)
<1>1. QueueInv => IdleMoved \/ CollectedLast
  BY DEF QueueInv, Regular, Collections, CollectedLast, Begun
<1> QED
  BY <1>1, QueuesRegular, PTL

\* A thread that waits in WaitableEvent::wait for an event nobody signalled
\* waits for one that is in events_queue or being handled: addEvent signals
\* what it refuses, handleEvent what it ends, signalEventWaiters what it drops,
\* unless it pops an event in the place of the front it looked at.
THEOREM WaitersServed == Spec => [](IdleMoved \/ WaitedEventPending)
<1>1. QueueInv => IdleMoved \/ WaitedEventPending
  <2> SUFFICES ASSUME QueueInv, Regular, NEW p \in Posters, fate[Waited(p)] # "mistaken",
                      ppc[p] \in Waiting, ~handled[Waited(p)]
               PROVE  Pending(Waited(p))
    BY DEF QueueInv, WaitedEventPending, Waiting, Astray
  <2> DEFINE w == Waited(p)
  <2>1. next[p] - 1 \in DOMAIN Program[p] /\ Waitable(w) /\ fate[w] \in Live
    BY DEF Regular, Waiters, Waiter
  <2>2. w \in Events
    BY <2>1, ProgramType DEF Waited, Threads
  <2> HIDE DEF w
  <2>3. fate[w] \in {"queued", "handling"}
    BY <2>1, <2>2 DEF Live, Regular, Served, w
  <2>4. CASE fate[w] = "queued"
    <3>1. InPlace(w)
      BY <2>2, <2>4 DEF Regular, Queues, Placement
    <3>2. Method[w] \notin IdleMethods /\ Method[w] \notin BufferMethods
      BY <2>1, <2>2, ProgramsAssumption DEF IdleMethods, BufferMethods, Waitable
    <3>3. w \in Range(events_queue)
      BY <3>1, <3>2 DEF InPlace, QueueInv, Posting, Known
    <3> QED
      BY <3>3 DEF Pending, w
  <2>5. CASE fate[w] = "handling"
    BY <2>2, <2>5 DEF Regular, Handlers, Pending, w
  <2> QED
    BY <2>3, <2>4, <2>5
<1> QED
  BY <1>1, QueuesRegular, PTL
(***************************************************************************)
(* The order in which the events of one thread are begun.  Events posted   *)
(* with addEvent are only ever in events_queue, each behind those its      *)
(* thread posted before.                                                   *)
(***************************************************************************)
Sequel(a, b) ==
    \E p \in Posters : \E i, k \in DOMAIN Program[p] :
        /\ i < k /\ a = Program[p][i] /\ b = Program[p][k]
        /\ Method[a] = "add" /\ Method[b] = "add"

InOrder(a, b) ==
    /\ fate[b] # "new" => fate[a] # "new"
    /\ fate[a] = "queued" /\ fate[b] = "queued" => Precedes(events_queue, a, b)
    /\ Begun(b) => fate[a] # "queued"

ThreadOrder == \A a, b \in Events : Sequel(a, b) => InOrder(a, b)

\* Who still has events to post has skipped none.
Posted ==
    \A t \in Threads : HasNext(t) => \A i \in DOMAIN Program[t] : i < next[t] => fate[Program[t][i]] # "new"

OrderInv == QueueInv /\ Posted /\ (IdleMoved \/ ThreadOrder)

\* The events of another thread, or none of any program, come in no pair.
LEMMA SequelFacts ==
  ASSUME NEW a, NEW b, Sequel(a, b)
  PROVE  /\ a \in Events /\ b \in Events /\ a # b /\ Method[a] = "add" /\ Method[b] = "add"
         /\ \A d \in Idles : GcOf[d] # a /\ GcOf[d] # b
         /\ a # ShutdownEvent /\ b # ShutdownEvent
         /\ \A t \in Threads : \A i \in DOMAIN Program[t] :
               Program[t][i] = b => /\ t \in Posters
                                    /\ \E k \in DOMAIN Program[t] : k < i /\ Program[t][k] = a
         /\ \A t \in Threads : \A i \in DOMAIN Program[t] : Program[t][i] = a => t \in Posters
<1>0. PICK p \in Posters : \E i, k \in DOMAIN Program[p] :
        /\ i < k /\ a = Program[p][i] /\ b = Program[p][k]
        /\ Method[a] = "add" /\ Method[b] = "add"
  BY DEF Sequel
<1>1. PICK i \in DOMAIN Program[p], k \in DOMAIN Program[p] :
        /\ i < k /\ a = Program[p][i] /\ b = Program[p][k]
        /\ Method[a] = "add" /\ Method[b] = "add"
  BY <1>0
<1>2. p \in Threads /\ i \in Nat /\ k \in Nat /\ i # k /\ a \in Events /\ b \in Events
  BY <1>1, ProgramType DEF Threads
<1>3. /\ a # b /\ \A d \in Idles : GcOf[d] # a /\ GcOf[d] # b
      /\ a # ShutdownEvent /\ b # ShutdownEvent
  BY <1>1, <1>2, ProgramsAssumption
<1>4. ASSUME NEW t \in Threads, NEW m \in DOMAIN Program[t], Program[t][m] = b
      PROVE  t \in Posters /\ \E n \in DOMAIN Program[t] : n < m /\ Program[t][n] = a
  <2>1. t = p /\ m = k
    BY <1>1, <1>2, <1>4, ProgramsAssumption
  <2> QED
    BY <1>1, <2>1
<1>5. ASSUME NEW t \in Threads, NEW m \in DOMAIN Program[t], Program[t][m] = a
      PROVE  t \in Posters
  BY <1>1, <1>2, <1>5, ProgramsAssumption
<1> QED
  BY <1>1, <1>2, <1>3, <1>4, <1>5

\* An event posted with addEvent waits in events_queue.
LEMMA AddedQueued ==
  ASSUME Posting, Queues, NEW a \in Events, Method[a] = "add", fate[a] = "queued"
  PROVE  a \in Range(events_queue)
  BY DEF Posting, Known, Queues, Placement, InPlace, IdleMethods, BufferMethods

\* A step in which no thread but VM and Main posts, and at most the front of
\* events_queue is begun.
LEMMA OrderKept ==
  ASSUME Posting, Queues, ThreadOrder,
         \A x \in Events : fate[x] # "new" => fate'[x] # "new",
         \A a, b \in Events : Sequel(a, b) => /\ fate'[a] # "new" => fate[a] # "new"
                                              /\ fate'[b] # "new" => fate[b] # "new",
         \A x \in Events : fate'[x] = "queued" /\ fate[x] # "new" => fate[x] = "queued",
         \A a \in Range(events_queue), b \in Range(events_queue) :
            Precedes(events_queue, a, b) => Precedes(events_queue', a, b),
         \A x \in Events : fate'[x] \in Over => \/ fate[x] \in Over \cup {"new"}
                                                \/ /\ fate[x] = "queued"
                                                   /\ \A a \in Range(events_queue) : ~Precedes(events_queue, a, x)
  PROVE  ThreadOrder'
<1> SUFFICES ASSUME NEW a \in Events, NEW b \in Events, Sequel(a, b)
             PROVE  InOrder(a, b)'
  BY DEF ThreadOrder, Sequel
<1>1. /\ InOrder(a, b) /\ Method[a] = "add" /\ Method[b] = "add"
      /\ fate'[a] # "new" <=> fate[a] # "new"
      /\ fate'[b] # "new" <=> fate[b] # "new"
  BY SequelFacts DEF ThreadOrder
<1>2. fate'[b] # "new" => fate'[a] # "new"
  BY <1>1 DEF InOrder
<1>3. ASSUME fate'[a] = "queued" PROVE fate[a] = "queued" /\ a \in Range(events_queue)
  BY <1>1, <1>3, AddedQueued
<1>4. ASSUME fate'[a] = "queued", fate'[b] = "queued" PROVE Precedes(events_queue', a, b)
  <2>1. fate[b] = "queued" /\ b \in Range(events_queue)
    BY <1>1, <1>4, AddedQueued
  <2>2. Precedes(events_queue, a, b)
    BY <1>1, <1>3, <1>4, <2>1 DEF InOrder
  <2> QED
    BY <1>3, <1>4, <2>1, <2>2
<1>5. ASSUME fate'[a] = "queued", fate'[b] \in Over PROVE FALSE
  <2>1. fate[b] # "new"
    BY <1>1, <1>5 DEF Over
  <2>2. fate[b] \notin Over
    BY <1>1, <1>3, <1>5 DEF InOrder, Begun, Over
  <2>3. fate[b] = "queued" /\ ~Precedes(events_queue, a, b)
    BY <1>3, <1>5, <2>1, <2>2
  <2> QED
    BY <1>1, <1>3, <1>5, <2>3 DEF InOrder
<1> QED
  BY <1>2, <1>4, <1>5 DEF InOrder, Begun, Over
\* A thread posts its next event, which is put last if it comes from addEvent.
LEMMA OrderTaken ==
  ASSUME TypeOK, Posting, Regular, Posted, ThreadOrder, NEW t \in Threads, HasNext(t),
         Takes(ToPost(t)),
         Method[ToPost(t)] = "add" /\ fate'[ToPost(t)] = "queued"
           => \A a \in Range(events_queue) : Precedes(events_queue', a, ToPost(t))
  PROVE  ThreadOrder'
<1> DEFINE e == ToPost(t)
<1>1. /\ e \in Events /\ fate[e] = "new" /\ next[t] \in DOMAIN Program[t] /\ e = Program[t][next[t]]
      /\ Settles(e) /\ Orders(e)
  BY ToPostNew DEF Posting, TypeOK, Takes, ToPost
<1>2. Method[e] = "add" /\ fate'[e] = "queued" => \A a \in Range(events_queue) : Precedes(events_queue', a, e)
  OBVIOUS
<1>3. \A i \in DOMAIN Program[t] : i < next[t] => fate[Program[t][i]] # "new"
  BY DEF Posted
<1> HIDE DEF e
<1>4. Queues /\ \A x \in Range(idleevents_queue) : x \in Events => fate[x] = "queued"
  BY DEF Regular, Queues, Placement, InPlace
<1>5. \A x \in Events : x # e => \/ fate'[x] = fate[x]
                                 \/ fate[x] = "queued" /\ fate'[x] = "replaced"
  BY <1>1, <1>4 DEF Settles
<1> SUFFICES ASSUME NEW a \in Events, NEW b \in Events, Sequel(a, b)
             PROVE  InOrder(a, b)'
  BY DEF ThreadOrder, Sequel
<1>6. InOrder(a, b) /\ a # b /\ Method[a] = "add" /\ Method[b] = "add"
  BY SequelFacts DEF ThreadOrder
<1>7. CASE a = e
  <2>1. fate'[b] = "new"
    BY <1>1, <1>5, <1>6, <1>7 DEF InOrder
  <2> QED
    BY <2>1 DEF InOrder, Begun
<1>8. CASE b = e
  <2>1. fate[a] # "new"
    <3>1. \E k \in DOMAIN Program[t] : k < next[t] /\ Program[t][k] = a
      BY <1>1, <1>8, SequelFacts
    <3> QED
      BY <1>3, <3>1
  <2>2. fate'[a] # "new" /\ (fate'[a] = "queued" => fate[a] = "queued")
    BY <1>5, <1>6, <1>8, <2>1
  <2>3. fate'[b] \in {"queued", "refused", "elsewhere"}
    BY <1>1, <1>8 DEF Settles
  <2>4. fate'[a] = "queued" /\ fate'[b] = "queued" => Precedes(events_queue', a, b)
    BY <1>2, <1>4, <1>6, <1>8, <2>2, AddedQueued
  <2> QED
    BY <2>2, <2>3, <2>4 DEF InOrder, Begun
<1>9. CASE a # e /\ b # e
  <2>1. /\ fate'[a] = fate[a] \/ (fate[a] = "queued" /\ fate'[a] = "replaced")
        /\ fate'[b] = fate[b] \/ (fate[b] = "queued" /\ fate'[b] = "replaced")
    BY <1>5, <1>9
  <2>2. Precedes(events_queue, a, b) => Precedes(events_queue', a, b)
    BY <1>1, <1>9 DEF Orders
  <2> QED
    BY <1>6, <2>1, <2>2 DEF InOrder, Begun
<1> QED
  BY <1>7, <1>8, <1>9

\* addEvent puts what it takes behind all there is in events_queue.
LEMMA AppendLast ==
  ASSUME NEW S, NEW q \in Seq(S), NEW e \in S, e \notin Range(q)
  PROVE  \A a : a # e => Precedes(Append(q, e), a, e)
<1> DEFINE x == <<e>>
<1>1. Append(q, e) = q \o x
  BY AppendIsConcat
<1>2. x \in Seq(S) /\ Range(x) = {e}
  BY SingleFacts
<1> HIDE DEF x
<1>3. \A a, b : a \notin Range(x) /\ b \notin Range(q) => Precedes(q \o x, a, b)
  BY <1>2, ConcatKeeps
<1> QED
  BY <1>1, <1>2, <1>3

LEMMA AddEventLast ==
  ASSUME NEW e \in Events, TypeOK, Posting, Queues, fate[e] = "new", AddEvent(e), fate'[e] = "queued"
  PROVE  \A a \in Range(events_queue) : Precedes(events_queue', a, e)
<1>1. ~(Refuse(e) \/ Reroute(e))
  BY DEF Refuse, Reroute, TypeOK, EventType
<1>2. PushBack(e)
  BY <1>1 DEF AddEvent
<1>3. events_queue' = Append(events_queue, e) /\ events_queue \in Seq(Events)
  BY <1>2 DEF PushBack, Queues, TypeOK, QueueType
<1>4. e \notin Range(events_queue)
  BY NewNowhere DEF Posting, InPlace
<1>5. \A a : a # e => Precedes(events_queue', a, e)
  BY <1>3, <1>4, AppendLast
<1> QED
  BY <1>4, <1>5

LEMMA CallLast ==
  ASSUME NEW e \in Events, TypeOK, Posting, Queues, fate[e] = "new", Call(e),
         Method[e] = "add", fate'[e] = "queued"
  PROVE  \A a \in Range(events_queue) : Precedes(events_queue', a, e)
  BY AddEventLast DEF Call
\* What has been posted, step by step.
LEMMA PostedSame ==
  ASSUME Posted, next' = next, Advance
  PROVE  Posted'
<1> SUFFICES ASSUME NEW t \in Threads, HasNext(t)', NEW i \in DOMAIN Program[t], i < next'[t]
             PROVE  fate'[Program[t][i]] # "new"
  BY DEF Posted
<1>1. HasNext(t) /\ i < next[t] /\ Program[t][i] \in Events
  BY ProgramType DEF HasNext
<1> QED
  BY <1>1 DEF Posted, Advance

LEMMA PostedNext ==
  ASSUME PostType, Posted, NEW t \in Threads, HasNext(t), next' = [next EXCEPT ![t] = @ + 1],
         fate'[ToPost(t)] # "new", Advance
  PROVE  Posted'
<1> SUFFICES ASSUME NEW u \in Threads, HasNext(u)', NEW i \in DOMAIN Program[u], i < next'[u]
             PROVE  fate'[Program[u][i]] # "new"
  BY DEF Posted
<1>1. i \in Nat /\ Program[u][i] \in Events /\ next[u] \in Nat /\ Len(Program[u]) \in Nat
  BY ProgramType, ThreadsAssumption, LenProperties DEF PostType
<1>2. next'[t] = next[t] + 1 /\ (u # t => next'[u] = next[u])
  BY DEF PostType
<1>3. HasNext(u)
  BY <1>1, <1>2 DEF HasNext
<1>4. i < next[u] \/ (u = t /\ i = next[t])
  BY <1>1, <1>2
<1>5. CASE i < next[u]
  BY <1>1, <1>3, <1>5 DEF Posted, Advance
<1>6. CASE u = t /\ i = next[t]
  BY <1>6 DEF ToPost
<1> QED
  BY <1>4, <1>5, <1>6

LEMMA PostedSkip ==
  ASSUME PostType, Posted, NEW p \in Posters, BeginTick(p)
  PROVE  Posted'
<1>1. fate' = fate /\ p \in Threads
  BY DEF BeginTick, eventVars, Threads
<1>2. CASE next' = next
  BY <1>1, <1>2, PostedSame DEF Advance
<1>3. CASE next' = [next EXCEPT ![p] = Len(Program[p]) + 1]
  <2>1. Len(Program[p]) \in Nat
    BY <1>1, ThreadsAssumption, LenProperties
  <2>2. next'[p] = Len(Program[p]) + 1 /\ \A u \in Threads : u # p => next'[u] = next[u]
    BY <1>1, <1>3 DEF PostType
  <2>3. ~HasNext(p)'
    BY <2>1, <2>2 DEF HasNext
  <2>4. \A u \in Threads : HasNext(u)' => u # p /\ HasNext(u) /\ next'[u] = next[u]
    BY <2>2, <2>3 DEF HasNext
  <2> QED
    BY <1>1, <2>4 DEF Posted
<1> QED
  BY <1>2, <1>3 DEF BeginTick

\* The order, step by step.
LEMMA OrderSame ==
  ASSUME ThreadOrder, UNCHANGED <<events_queue, fate>>
  PROVE  ThreadOrder'
  BY DEF ThreadOrder, InOrder, Sequel, Begun

\* An event leaves the front of events_queue.
LEMMA OrderFront ==
  ASSUME TypeOK, Posting, Queues, ThreadOrder, Advance, events_queue # <<>>,
         events_queue' = Tail(events_queue),
         NEW v \in Over, fate' = [fate EXCEPT ![Head(events_queue)] = v]
  PROVE  ThreadOrder'
<1> DEFINE e == Head(events_queue)
<1>1. e \in Events /\ e \in Range(events_queue)
  BY FrontEvent DEF TypeOK
<1>2. fate[e] = "queued"
  BY <1>1 DEF Queues, Placement, InPlace
<1>3. fate'[e] = v /\ \A x \in Events : x # e => fate'[x] = fate[x]
  BY <1>1 DEF TypeOK, EventType
<1>4. \A a, b : Precedes(events_queue, a, b) => Precedes(events_queue', a, b)
  BY TailKeeps DEF TypeOK, QueueType
<1>5. \A a \in Range(events_queue) : ~Precedes(events_queue, a, e)
  BY TailKeeps DEF TypeOK, QueueType, Queues, Placement
<1> HIDE DEF e
<1>6. \A x \in Events : fate'[x] # "new" => fate[x] # "new"
  BY <1>2, <1>3
<1>7. \A x \in Events : fate'[x] = "queued" => fate[x] = "queued"
  BY <1>2, <1>3
<1>8. \A x \in Events : fate'[x] \in Over => \/ fate[x] \in Over \cup {"new"}
                                             \/ /\ fate[x] = "queued"
                                                /\ \A a \in Range(events_queue) : ~Precedes(events_queue, a, x)
  BY <1>2, <1>3, <1>5
<1>9. \A x \in Events : fate[x] # "new" => fate'[x] # "new"
  BY DEF Advance
<1> QED
  BY <1>4, <1>6, <1>7, <1>8, <1>9, OrderKept

\* A step that begins nothing posted and only puts events into events_queue.
LEMMA OrderRest ==
  ASSUME Posting, Queues, ThreadOrder, Advance,
         \A a, b \in Events : Sequel(a, b) => /\ fate'[a] # "new" => fate[a] # "new"
                                              /\ fate'[b] # "new" => fate[b] # "new",
         \A x \in Events : fate'[x] = "queued" /\ fate[x] # "new" => fate[x] = "queued",
         \A a \in Range(events_queue), b \in Range(events_queue) :
            Precedes(events_queue, a, b) => Precedes(events_queue', a, b),
         \A x \in Events : fate'[x] \in Over => fate[x] \in Over \cup {"new"}
  PROVE  ThreadOrder'
  BY OrderKept DEF Advance

LEMMA OrderFlush ==
  ASSUME TypeOK, Posting, Queues, ThreadOrder, HandleFlushBuffer
  PROVE  ThreadOrder'
<1>1. fate' = fate /\ events_queue \in Seq(Events) /\ event_buffer \in Seq(Events)
  BY DEF HandleFlushBuffer, eventVars, TypeOK, QueueType
<1>2. \A x \in Range(events_queue) : x \notin Range(event_buffer)
  BY DEF Queues, Placement
<1>3. \A a \in Range(events_queue), b \in Range(events_queue) :
         Precedes(events_queue, a, b) => /\ Precedes(events_queue \o event_buffer, a, b)
                                         /\ Precedes(event_buffer \o events_queue, a, b)
  BY <1>1, <1>2, ConcatKeeps
<1>4. events_queue' \in {events_queue \o event_buffer, event_buffer \o events_queue}
  BY DEF HandleFlushBuffer
<1>5. \A a \in Range(events_queue), b \in Range(events_queue) :
         Precedes(events_queue, a, b) => Precedes(events_queue', a, b)
  BY <1>3, <1>4
<1> QED
  BY <1>1, <1>5, OrderRest DEF Advance

LEMMA OrderIdle ==
  ASSUME TypeOK, Posting, Queues, ThreadOrder, Advance, HandleIdle
  PROVE  ThreadOrder'
<1>1. PICK d \in Idles :
          /\ events_queue' = WithIdleEvents(events_queue, d)
          /\ fate' = [fate EXCEPT ![GcOf[d]] = "queued"]
  BY DEF HandleIdle
<1> DEFINE g == GcOf[d]
           m == events_queue \o idleevents_queue
           s == <<g>>
<1>2. g \in Events
  BY HandlingAssumption
<1>3. events_queue \in Seq(Events) /\ idleevents_queue \in Seq(Events)
  BY DEF TypeOK, QueueType
<1>4. s \in Seq(Events) /\ Range(s) = {g}
  BY <1>2, SingleFacts
<1>5. events_queue' = m \o s
  BY <1>1 DEF WithIdleEvents, GcLast
<1>6. \A x \in Range(events_queue) : x \notin Range(idleevents_queue)
  BY DEF Queues, Placement
<1>7. m \in Seq(Events) /\ \A a, b : Precedes(events_queue, a, b) /\ a \notin Range(idleevents_queue) => Precedes(m, a, b)
  BY <1>3, ConcatKeeps, ConcatProperties
<1>8. \A a, b \in Events : Sequel(a, b) => a # g /\ b # g
  BY SequelFacts
<1>9. fate' = [fate EXCEPT ![g] = "queued"]
  BY <1>1
<1> HIDE DEF g, m, s
<1>10. \A a, b : Precedes(m, a, b) /\ a # g => Precedes(events_queue', a, b)
  BY <1>4, <1>5, <1>7, ConcatKeeps
<1>11. fate'[g] = "queued" /\ \A x \in Events : x # g => fate'[x] = fate[x]
  BY <1>2, <1>9 DEF TypeOK, EventType
<1> SUFFICES ASSUME NEW a \in Events, NEW b \in Events, Sequel(a, b)
             PROVE  InOrder(a, b)'
  BY DEF ThreadOrder, Sequel
<1>12. /\ InOrder(a, b) /\ fate'[a] = fate[a] /\ fate'[b] = fate[b] /\ a # g
       /\ Method[a] = "add"
  BY <1>8, <1>11, SequelFacts DEF ThreadOrder
<1>13. ASSUME fate[a] = "queued", fate[b] = "queued" PROVE Precedes(events_queue', a, b)
  <2>1. a \in Range(events_queue) /\ Precedes(events_queue, a, b)
    BY <1>12, <1>13, AddedQueued DEF InOrder
  <2> QED
    BY <1>6, <1>7, <1>10, <1>12, <2>1
<1> QED
  BY <1>12, <1>13 DEF InOrder, Begun

\* The event at the top of the stack is over.
LEMMA OrderEnd ==
  ASSUME TypeOK, HandlerStack, Posting, Regular, ThreadOrder, Advance, Finish \/ Unwind
  PROVE  ThreadOrder'
<1> DEFINE e == cur[1].ev
<1>1. cur # <<>> /\ events_queue' = events_queue /\ fate' = [fate EXCEPT ![e] = "handled"]
  BY DEF Finish, Unwind, HandlerStack, queueVars
<1>2. e \in Events /\ fate[e] = "handling"
  BY <1>1, TopHandling DEF TypeOK, Regular
<1> HIDE DEF e
<1>3. fate'[e] = "handled" /\ \A x \in Events : x # e => fate'[x] = fate[x]
  BY <1>1, <1>2 DEF TypeOK, EventType
<1>4. \A x \in Events : (fate'[x] # "new" => fate[x] # "new") /\ (fate'[x] = "queued" => fate[x] = "queued")
  BY <1>2, <1>3
<1>5. \A x \in Events : fate'[x] \in Over => fate[x] \in Over
  BY <1>2, <1>3 DEF Over
<1> QED
  BY <1>1, <1>4, <1>5, OrderRest DEF Regular

\* The VM thread handles an event it posts at once: no other thread's event.
LEMMA OrderAtOnce ==
  ASSUME TypeOK, Posting, Regular, ThreadOrder, HasNext(VM), events_queue' = events_queue,
         fate' = [fate EXCEPT ![ToPost(VM)] = "handling"]
  PROVE  ThreadOrder'
<1> DEFINE e == ToPost(VM)
<1>1. VM \in Threads /\ VM \notin Posters
  BY ThreadsAssumption DEF Threads
<1>2. e \in Events /\ next[VM] \in DOMAIN Program[VM] /\ e = Program[VM][next[VM]] /\ fate[e] = "new"
  BY <1>1, ToPostNew DEF Posting, TypeOK, ToPost
<1>3. fate' = [fate EXCEPT ![e] = "handling"]
  OBVIOUS
<1> HIDE DEF e
<1>4. fate'[e] = "handling" /\ \A x \in Events : x # e => fate'[x] = fate[x]
  BY <1>2, <1>3 DEF TypeOK, EventType
<1>5. \A a, b \in Events : Sequel(a, b) => a # e /\ b # e
  BY <1>1, <1>2, SequelFacts
<1>6. \A a, b \in Events : Sequel(a, b) => fate'[a] = fate[a] /\ fate'[b] = fate[b]
  BY <1>4, <1>5
<1> QED
  BY <1>6 DEF ThreadOrder, InOrder, Begun, Sequel
\* A thread hands its next event to an operation.
LEMMA OrderCall ==
  ASSUME TypeOK, Posting, Posted, Advance, NEW t \in Threads, HasNext(t),
         next' = [next EXCEPT ![t] = @ + 1],
         Call(ToPost(t)) \/ (t = Main /\ AddEvent(ToPost(t)))
  PROVE  Posted' /\ (Regular /\ ThreadOrder => ThreadOrder')
<1> DEFINE e == ToPost(t)
<1>1. e \in Events /\ fate[e] = "new"
  BY ToPostNew DEF Posting, TypeOK
<1>2. Moves(e) /\ (Queues => Takes(e))
  BY <1>1, CallTakes, AddEventTakes DEF TypeOK, Posting
<1>3. Posted'
  BY <1>2, PostedNext DEF Moves, TypeOK
<1>4. ASSUME Regular, ThreadOrder PROVE ThreadOrder'
  <2>1. Takes(e) /\ Queues
    BY <1>2, <1>4 DEF Regular
  <2>2. Method[e] = "add" /\ fate'[e] = "queued"
          => \A a \in Range(events_queue) : Precedes(events_queue', a, e)
    BY <1>1, <2>1, CallLast, AddEventLast
  <2> QED
    BY <1>4, <2>1, <2>2, OrderTaken
<1> QED
  BY <1>3, <1>4

\* The SHUTDOWN event of an object that was thrown is no thread's event.
LEMMA OrderReport ==
  ASSUME TypeOK, Posting, Posted, Advance, ReportToVm
  PROVE  Posted' /\ (Regular /\ ThreadOrder => ThreadOrder')
<1> DEFINE e == ShutdownEvent
<1>1. e \in Events /\ fate[e] = "new" /\ AddEvent(e) /\ next' = next
  BY HandlingAssumption DEF ReportToVm
<1>2. \A a, b \in Events : Sequel(a, b) => a # e /\ b # e
  BY SequelFacts
<1> HIDE DEF e
<1>3. Posted'
  BY <1>1, PostedSame
<1>4. ASSUME Regular, ThreadOrder PROVE ThreadOrder'
  <2>1. Settles(e) /\ Orders(e) /\ Queues /\ ~InPlace(e)
    BY <1>1, <1>4, AddEventTakes, NewNowhere DEF TypeOK, Posting, Regular, Takes
  <2>2. \A x \in Events : x # e => fate'[x] = fate[x] \/ (fate[x] = "queued" /\ fate'[x] = "replaced")
    BY <2>1 DEF Settles, Queues, Placement, InPlace
  <2>3. fate'[e] \in {"queued", "refused", "elsewhere"}
    BY <2>1 DEF Settles
  <2>4. \A a, b \in Events :
           Sequel(a, b) => /\ fate'[a] # "new" => fate[a] # "new"
                           /\ fate'[b] # "new" => fate[b] # "new"
    BY <1>2, <2>2
  <2>5. \A x \in Events : fate'[x] = "queued" /\ fate[x] # "new" => fate[x] = "queued"
    BY <1>1, <2>2
  <2>6. \A a \in Range(events_queue), b \in Range(events_queue) :
           Precedes(events_queue, a, b) => Precedes(events_queue', a, b)
    BY <2>1 DEF Orders, InPlace
  <2>7. \A x \in Events : fate'[x] \in Over => fate[x] \in Over \cup {"new"}
    BY <1>1, <2>2, <2>3 DEF Over
  <2> QED
    BY <1>4, <2>1, <2>4, <2>5, <2>6, <2>7, OrderRest
<1> QED
  BY <1>3, <1>4

LEMMA OrderOnError ==
  ASSUME TypeOK, Posting, Posted, NEW t \in Threads, ShutdownOnError(t)
  PROVE  Posted' /\ (Regular /\ ThreadOrder => ThreadOrder')
<1> DEFINE e == ToPost(t)
<1>1. HasNext(t) /\ fate' = [fate EXCEPT ![e] = "elsewhere"] /\ next' = [next EXCEPT ![t] = @ + 1]
  BY DEF ShutdownOnError
<1>2. Advance /\ (Queues => Takes(e))
  BY ShutdownOnErrorPosting
<1>3. fate'[e] = "elsewhere"
  BY <1>1, ToPostNew DEF Posting, TypeOK, EventType
<1>4. Posted'
  BY <1>1, <1>2, <1>3, PostedNext DEF TypeOK
<1>5. ASSUME Regular, ThreadOrder PROVE ThreadOrder'
  BY <1>1, <1>2, <1>3, <1>5, OrderTaken DEF Regular
<1> QED
  BY <1>4, <1>5

LEMMA OrderPosters ==
  ASSUME TypeOK, Posting, Posted, Advance, NEW p \in Posters, PosterStep(p)
  PROVE  Posted' /\ (Regular /\ ThreadOrder => ThreadOrder')
<1>1. p \in Threads
  BY DEF Threads
<1>2. CASE BeginTick(p)
  <2>1. UNCHANGED <<events_queue, fate>>
    BY <1>2 DEF BeginTick, queueVars, eventVars
  <2> QED
    BY <1>2, <2>1, PostedSkip, OrderSame DEF TypeOK
<1>3. CASE Post(p)
  BY <1>1, <1>3, OrderCall DEF Post
<1>4. CASE ShutdownOnError(p)
  BY <1>1, <1>4, OrderOnError
<1>5. CASE TickSignal(p) \/ Check(p) \/ Enter(p)
  <2>1. UNCHANGED <<events_queue, fate, next>>
    BY <1>5 DEF TickSignal, Check, Enter, queueVars, eventVars
  <2> QED
    BY <2>1, PostedSame, OrderSame
<1> QED
  BY <1>2, <1>3, <1>4, <1>5 DEF PosterStep

LEMMA OrderMain ==
  ASSUME TypeOK, PostedOnce, Posting, Posted, Advance, MainStep
  PROVE  Posted' /\ (Regular /\ ThreadOrder => ThreadOrder')
<1>1. CASE PostShutdown
  <2>1. /\ Main \in Threads /\ HasNext(Main) /\ next' = [next EXCEPT ![Main] = @ + 1]
        /\ AddEvent(ToPost(Main))
    BY <1>1, ThreadsAssumption DEF PostShutdown, PostedOnce, HasNext, Threads
  <2> QED
    BY <2>1, OrderCall
<1>2. CASE MainStep /\ ~PostShutdown
  <2>1. UNCHANGED <<events_queue, fate, next>>
    BY <1>2 DEF MainStep, AwaitTermination, AwaitAgain, Terminated, JoinPosters, StopEngines,
       ShutdownBegin, ShutdownSkip, JoinVm, ShutdownEnd, queueVars, eventVars, postVars
  <2> QED
    BY <2>1, PostedSame, OrderSame
<1> QED
  BY <1>1, <1>2

LEMMA OrderVm ==
  ASSUME TypeOK, HandlerStack, FrontThere, Posting, Posted, Advance, VmStep
  PROVE  Posted' /\ (Regular /\ ThreadOrder => ThreadOrder')
<1>1. CASE \/ InitVm \/ Sleep \/ HandlePlain \/ ShutdownMoved \/ ShutdownFlag \/ SignalTerminated
           \/ Throw \/ Report \/ Record \/ GiveUp \/ DrainFront \/ DrainEnd \/ StopOnEmptyQueue
           \/ ShutdownVM \/ ShutdownStore
  <2>1. UNCHANGED <<events_queue, fate, next>>
    BY <1>1 DEF InitVm, Sleep, HandlePlain, ShutdownMoved, ShutdownFlag, SignalTerminated, Throw,
       Report, Record, GiveUp, DrainFront, DrainEnd, StopOnEmptyQueue, ShutdownVM, ShutdownStore, queueVars, eventVars, postVars
  <2> QED
    BY <2>1, PostedSame, OrderSame
<1>2. CASE Take \/ CheckExternalCallEvent
  <2>1. /\ events_queue # <<>> /\ events_queue' = Tail(events_queue) /\ next' = next
        /\ \E v \in Over : fate' = [fate EXCEPT ![Head(events_queue)] = v]
    BY <1>2 DEF Take, CheckExternalCallEvent, HandleFrontEvent, Over, postVars
  <2> QED
    BY <2>1, PostedSame, OrderFront DEF Regular
<1>3. CASE DrainPop
  <2>1. /\ events_queue # <<>> /\ events_queue' = Tail(events_queue) /\ next' = next
        /\ \E v \in Over : fate' = [fate EXCEPT ![Head(events_queue)] = v]
    BY <1>3 DEF DrainPop, DropFate, FrontThere, Over
  <2> QED
    BY <2>1, PostedSame, OrderFront DEF Regular
<1>4. CASE HandleIdle
  <2>1. next' = next
    BY <1>4 DEF HandleIdle, postVars
  <2> QED
    BY <1>4, <2>1, PostedSame, OrderIdle DEF Regular
<1>5. CASE HandleFlushBuffer
  <2>1. next' = next
    BY <1>5 DEF HandleFlushBuffer, postVars
  <2> QED
    BY <1>5, <2>1, PostedSame, OrderFlush DEF Regular
<1>6. CASE ShutdownCount
  <2>1. next' = next /\ ~Regular
    BY <1>6 DEF ShutdownCount, postVars, Regular, Queues
  <2> QED
    BY <2>1, PostedSame
<1>7. CASE Finish \/ Unwind
  <2>1. next' = next
    BY <1>7 DEF Finish, Unwind
  <2> QED
    BY <1>7, <2>1, PostedSame, OrderEnd
<1>8. CASE VmPost
  <2>1. VM \in Threads /\ HasNext(VM) /\ next' = [next EXCEPT ![VM] = @ + 1]
    BY <1>8 DEF VmPost, Threads
  <2>2. CASE Call(ToPost(VM))
    BY <2>1, <2>2, OrderCall
  <2>3. CASE fate' = [fate EXCEPT ![ToPost(VM)] = "handling"] /\ events_queue' = events_queue
    <3>1. fate'[ToPost(VM)] = "handling"
      BY <2>1, <2>3, ToPostNew DEF Posting, TypeOK, EventType
    <3>2. Posted'
      BY <2>1, <3>1, PostedNext DEF TypeOK
    <3> QED
      BY <2>1, <2>3, <3>2, OrderAtOnce
  <2> QED
    BY <1>8, <2>2, <2>3 DEF VmPost, queueVars
<1>9. CASE ShutdownOnError(VM)
  BY <1>9, OrderOnError DEF Threads
<1>10. CASE ReportToVm
  BY <1>10, OrderReport
<1> QED
  BY <1>1, <1>2, <1>3, <1>4, <1>5, <1>6, <1>7, <1>8, <1>9, <1>10 DEF VmStep, HandleStep

LEMMA OrderStep ==
  ASSUME OrderInv, [Next]_vars
  PROVE  OrderInv'
<1>1. QueueInv /\ QueueInv' /\ TypeOK /\ TypeOK' /\ HandlerStack /\ FrontThere /\ PostedOnce /\ Posting /\ Posted
  BY QueueStep DEF OrderInv, QueueInv, IInv
<1>2. Advance
  <2>1. CASE VmStep
    BY <1>1, <2>1, VmQueueStep
  <2>2. CASE MainStep \/ \E p \in Posters : PosterStep(p)
    BY <1>1, <2>2, OtherQueueStep
  <2>3. CASE UNCHANGED vars
    BY <2>3 DEF Advance, vars, eventVars
  <2> QED
    BY <2>1, <2>2, <2>3 DEF Next
<1>3. Posted' /\ (Regular /\ ThreadOrder => ThreadOrder')
  <2>1. CASE VmStep
    BY <1>1, <1>2, <2>1, OrderVm
  <2>2. CASE MainStep
    BY <1>1, <1>2, <2>2, OrderMain
  <2>3. CASE \E p \in Posters : PosterStep(p)
    BY <1>1, <1>2, <2>3, OrderPosters
  <2>4. CASE UNCHANGED vars
    <3>1. UNCHANGED <<events_queue, fate, next>>
      BY <2>4 DEF vars, queueVars, eventVars, postVars
    <3> QED
      BY <1>1, <1>2, <3>1, PostedSame, OrderSame
  <2> QED
    BY <2>1, <2>2, <2>3, <2>4 DEF Next
<1>4. IdleMoved => IdleMoved'
  BY <1>2, AdvanceKeeps
<1> QED
  BY <1>1, <1>3, <1>4 DEF OrderInv, QueueInv

LEMMA OrderInit ==
  ASSUME Init
  PROVE  OrderInv
<1>1. \A e \in Events : fate[e] = "new"
  BY DEF Init
<1>2. Posted
  <2> SUFFICES ASSUME NEW t \in Threads, NEW i \in DOMAIN Program[t], i < next[t] PROVE FALSE
    BY DEF Posted
  <2>1. next[t] = 1 /\ Program[t] \in Seq(Events)
    BY ThreadsAssumption DEF Init
  <2>2. i \in 1 .. Len(Program[t]) /\ Len(Program[t]) \in Nat
    BY <2>1, RangeIndex
  <2> QED
    BY <2>1, <2>2
<1>3. ThreadOrder
  BY <1>1 DEF ThreadOrder, InOrder, Begun
<1> QED
  BY <1>2, <1>3, QueueInit DEF OrderInv

\* The queues stay in order until SHUTDOWN moves idle events without the mutex.
LEMMA OrderHolds == Spec => []OrderInv
  BY OrderInit, OrderStep, PTL DEF Spec

\* The events one thread posts with addEvent are begun in the order of its
\* calls, whatever other threads prepend, buffer and flush meanwhile, and
\* whatever IDLE_EVENT moves, until SHUTDOWN moves idle events without
\* event_queue_mutex.
THEOREM PostedInOrder == Spec => [](IdleMoved \/ TickOrder)
<1>1. Spec => []OrderInv
  BY OrderHolds
<1>2. OrderInv => IdleMoved \/ TickOrder
  <2> SUFFICES ASSUME ThreadOrder, NEW p \in Posters, NEW i \in DOMAIN Program[p], NEW k \in DOMAIN Program[p],
                      i < k, Method[Program[p][i]] = "add", Method[Program[p][k]] = "add",
                      Begun(Program[p][k])
               PROVE  fate[Program[p][i]] # "queued"
    BY DEF OrderInv, TickOrder
  <2>1. Program[p][i] \in Events /\ Program[p][k] \in Events
    BY ProgramType DEF Threads
  <2>2. Sequel(Program[p][i], Program[p][k])
    BY DEF Sequel
  <2> QED
    BY <2>1, <2>2 DEF ThreadOrder, InOrder
<1> QED
  BY <1>1, <1>2, PTL
(***************************************************************************)
(* The queue delivers as EventDelivery promises: every step moves events   *)
(* as one of its actions does, or moves none.                              *)
(***************************************************************************)
LEMMA AheadSequel ==
  ASSUME NEW e, NEW a \in Delivery!Ahead(e)
  PROVE  a \in Events /\ Sequel(a, e)
  BY DEF Delivery!Ahead, Sequel

\* What is next in a program is posted after what is ahead of it.
LEMMA NextPosted ==
  ASSUME TypeOK, Posting, Posted, NEW t \in Threads, HasNext(t)
  PROVE  /\ ToPost(t) \in Events /\ fate[ToPost(t)] = "new"
         /\ Delivery!Posted(ToPost(t))
<1> DEFINE e == ToPost(t)
<1>1. /\ e \in Events /\ fate[e] = "new" /\ next[t] \in DOMAIN Program[t]
      /\ Program[t][next[t]] = e
  BY ToPostNew DEF Posting, TypeOK, ToPost
<1>2. \A i \in DOMAIN Program[t] : i < next[t] => fate[Program[t][i]] # "new"
  BY DEF Posted
<1> HIDE DEF e
<1>3. ASSUME NEW a \in Delivery!Ahead(e) PROVE fate[a] # "new"
  <2>1. Sequel(a, e)
    BY AheadSequel
  <2>2. \E k \in DOMAIN Program[t] : k < next[t] /\ Program[t][k] = a
    BY <1>1, <2>1, SequelFacts
  <2> QED
    BY <1>2, <2>2
<1>4. Delivery!Posted(e)
  BY <1>3 DEF Delivery!Posted
<1> QED
  BY <1>1, <1>4 DEF e

LEMMA PushBackFate ==
  ASSUME NEW e \in Events, EventType, half = NoEvent, PushBack(e)
  PROVE  fate' = [fate EXCEPT ![e] = "queued"]
  BY EventsAssumption DEF PushBack, EventType

LEMMA AddEventFate ==
  ASSUME NEW e \in Events, EventType, half = NoEvent, AddEvent(e)
  PROVE  \E v \in {"queued", "refused", "elsewhere"} : fate' = [fate EXCEPT ![e] = v]
  BY PushBackFate DEF AddEvent, Refuse, Reroute

LEMMA CallFate ==
  ASSUME NEW e \in Events, EventType, half = NoEvent, Call(e)
  PROVE  \/ \E v \in {"queued", "refused", "elsewhere"} : fate' = [fate EXCEPT ![e] = v]
         \/ \E i \in FirstSimilar(e) :
               fate' = [fate EXCEPT ![e] = "queued", ![idleevents_queue[i]] = "replaced"]
<1>1. Method[e] \in Methods
  BY EventsAssumption
<1>2. CASE AddEvent(e)
  BY <1>2, AddEventFate
<1>3. CASE PrependEvent(e)
  BY <1>3, PushBackFate DEF PrependEvent, PushFront, Accept, RefuseSilently
<1>4. CASE AddBufferEvent(e)
  BY <1>4 DEF AddBufferEvent, Accept, RefuseSilently
<1>5. CASE AddIdleEvent(e)
  BY <1>5 DEF AddIdleEvent, Accept, RefuseSilently, Reroute
<1> QED
  BY <1>1, <1>2, <1>3, <1>4, <1>5 DEF Call, Methods

LEMMA CallDelivers ==
  ASSUME TypeOK, Posting, Posted, Regular, NEW t \in Threads, HasNext(t),
         Call(ToPost(t)) \/ AddEvent(ToPost(t))
  PROVE  Delivery!Next
<1>1. PICK e \in Events : e = ToPost(t) /\ fate[e] = "new" /\ Delivery!Posted(e)
  BY NextPosted
<1>2. \/ \E v \in {"queued", "refused", "elsewhere"} : fate' = [fate EXCEPT ![e] = v]
      \/ \E i \in FirstSimilar(e) :
            fate' = [fate EXCEPT ![e] = "queued", ![idleevents_queue[i]] = "replaced"]
  BY <1>1, CallFate, AddEventFate DEF TypeOK, Regular, Queues
<1>3. ASSUME NEW v \in {"queued", "refused", "elsewhere"}, fate' = [fate EXCEPT ![e] = v]
      PROVE  Delivery!Next
  <2>1. \/ Delivery!Move(e, "new", "queued") \/ Delivery!Move(e, "new", "refused")
        \/ Delivery!Move(e, "new", "elsewhere")
    BY <1>1, <1>3 DEF Delivery!Move
  <2> QED
    BY <1>1, <2>1 DEF Delivery!Next, Delivery!Accept, Delivery!Refuse, Delivery!Divert
<1>4. ASSUME NEW i \in FirstSimilar(e),
             fate' = [fate EXCEPT ![e] = "queued", ![idleevents_queue[i]] = "replaced"]
      PROVE  Delivery!Next
  <2>1. i \in DOMAIN idleevents_queue /\ idleevents_queue[i] \in Similar[e]
    BY DEF FirstSimilar
  <2>2. PICK d \in Events : d = idleevents_queue[i] /\ d \in Range(idleevents_queue)
    BY <2>1, RangeIndex DEF TypeOK, QueueType
  <2>3. fate[d] = "queued"
    BY <2>2 DEF Regular, Queues, Placement, InPlace
  <2>4. Delivery!Replace(e, d)
    BY <1>1, <1>4, <2>1, <2>2, <2>3 DEF Delivery!Replace
  <2> QED
    BY <2>4 DEF Delivery!Next
<1> QED
  BY <1>2, <1>3, <1>4

\* The front of events_queue is the turn of its event.
LEMMA FrontDelivers ==
  ASSUME TypeOK, Posting, Regular, ThreadOrder, events_queue # <<>>,
         NEW v \in {"handling", "dropped", "mistaken"},
         fate' = [fate EXCEPT ![Head(events_queue)] = v]
  PROVE  Delivery!Next
<1>1. PICK e \in Events : e = Head(events_queue) /\ e \in Range(events_queue)
  BY FrontEvent DEF TypeOK
<1>2. Queues /\ fate[e] = "queued"
  BY <1>1 DEF Regular, Queues, Placement, InPlace
<1>3. \A a \in Range(events_queue) : ~Precedes(events_queue, a, e)
  BY <1>1, TailKeeps DEF TypeOK, QueueType, Regular, Queues, Placement
<1>4. ASSUME NEW a \in Delivery!Ahead(e), fate[a] = "queued" PROVE FALSE
  <2>1. a \in Events /\ Sequel(a, e) /\ Method[a] = "add"
    BY AheadSequel, SequelFacts
  <2>2. Precedes(events_queue, a, e)
    BY <1>2, <1>4, <2>1 DEF ThreadOrder, InOrder
  <2>3. a \in Range(events_queue)
    BY <1>2, <1>4, <2>1, AddedQueued
  <2> QED
    BY <1>3, <2>2, <2>3
<1>5. Delivery!InTurn(e)
  BY <1>4 DEF Delivery!InTurn
<1>6. \/ Delivery!Move(e, "queued", "handling") \/ Delivery!Move(e, "queued", "dropped")
      \/ Delivery!Move(e, "queued", "mistaken")
  BY <1>1, <1>2 DEF Delivery!Move
<1> QED
  BY <1>5, <1>6 DEF Delivery!Next, Delivery!Begin, Delivery!Drop

LEMMA EndDelivers ==
  ASSUME TypeOK, HandlerStack, Regular, Finish \/ Unwind
  PROVE  Delivery!Next
<1>1. cur # <<>> /\ fate' = [fate EXCEPT ![cur[1].ev] = "handled"]
  BY DEF Finish, Unwind, HandlerStack
<1>2. PICK e \in Events : e = cur[1].ev /\ fate[e] = "handling"
  BY <1>1, TopHandling DEF TypeOK, Regular
<1>3. Delivery!End(e)
  BY <1>1, <1>2 DEF Delivery!End, Delivery!Move
<1> QED
  BY <1>3 DEF Delivery!Next

LEMMA IdleDelivers ==
  ASSUME TypeOK, HandlerStack, Posting, Regular, HandleIdle
  PROVE  Delivery!Next
<1>1. PICK d \in Idles : /\ vpc = "handle" /\ cur[1].ev = d
                         /\ fate' = [fate EXCEPT ![GcOf[d]] = "queued"]
  BY DEF HandleIdle, Handling
<1>2. PICK g \in Events : g = GcOf[d]
  BY HandlingAssumption
<1>3. fate[d] = "handling"
  BY <1>1, TopHandling DEF HandlerStack, TypeOK, Regular
<1>4. fate[g] = "new"
  BY <1>1, <1>2, <1>3 DEF Regular, Collections
<1>5. Delivery!Posted(g)
  BY <1>2, AheadSequel, SequelFacts DEF Delivery!Posted
<1>6. Delivery!Accept(g)
  BY <1>1, <1>2, <1>4, <1>5 DEF Delivery!Accept, Delivery!Move
<1> QED
  BY <1>6 DEF Delivery!Next

LEMMA AtOnceDelivers ==
  ASSUME TypeOK, Posting, Posted, HasNext(VM), fate' = [fate EXCEPT ![ToPost(VM)] = "handling"]
  PROVE  Delivery!Next
<1>1. VM \in Threads /\ VM \notin Posters
  BY ThreadsAssumption DEF Threads
<1>2. PICK e \in Events : e = ToPost(VM) /\ fate[e] = "new"
  BY <1>1, NextPosted
<1>3. next[VM] \in DOMAIN Program[VM] /\ e = Program[VM][next[VM]]
  BY <1>1, <1>2, ToPostNew DEF Posting, TypeOK, ToPost
<1>4. \A p \in Posters : \A i \in DOMAIN Program[p] : Program[p][i] # e
  BY <1>1, <1>3, ProgramsAssumption DEF Threads
<1>5. Delivery!HandleAtOnce(e)
  BY <1>2, <1>4 DEF Delivery!HandleAtOnce, Delivery!Move
<1> QED
  BY <1>5 DEF Delivery!Next

LEMMA OnErrorDelivers ==
  ASSUME TypeOK, Posting, Posted, NEW t \in Threads, ShutdownOnError(t)
  PROVE  Delivery!Next
<1>1. HasNext(t) /\ fate' = [fate EXCEPT ![ToPost(t)] = "elsewhere"]
  BY DEF ShutdownOnError
<1>2. PICK e \in Events : e = ToPost(t) /\ fate[e] = "new" /\ Delivery!Posted(e)
  BY <1>1, NextPosted
<1>3. Delivery!Divert(e)
  BY <1>1, <1>2 DEF Delivery!Divert, Delivery!Move
<1> QED
  BY <1>3 DEF Delivery!Next

LEMMA VmDelivers ==
  ASSUME TypeOK, HandlerStack, FrontThere, Posting, Posted, Regular, ThreadOrder, VmStep
  PROVE  Delivery!Next \/ UNCHANGED fate
<1>1. CASE \/ InitVm \/ Sleep \/ HandlePlain \/ ShutdownMoved \/ ShutdownFlag \/ SignalTerminated
           \/ Throw \/ Report \/ Record \/ GiveUp \/ DrainFront \/ DrainEnd \/ StopOnEmptyQueue
           \/ ShutdownVM \/ ShutdownStore \/ HandleFlushBuffer
  BY <1>1 DEF InitVm, Sleep, HandlePlain, ShutdownMoved, ShutdownFlag, SignalTerminated, Throw,
     Report, Record, GiveUp, DrainFront, DrainEnd, StopOnEmptyQueue, ShutdownVM, ShutdownStore,
     HandleFlushBuffer, eventVars
<1>7. CASE ReportToVm
  <2>1. /\ ShutdownEvent \in Events /\ AddEvent(ShutdownEvent) /\ fate[ShutdownEvent] = "new"
        /\ half = NoEvent
    BY <1>7, HandlingAssumption DEF ReportToVm, Regular, Queues
  <2>2. PICK v \in {"queued", "refused", "elsewhere"} : fate' = [fate EXCEPT ![ShutdownEvent] = v]
    BY <2>1, AddEventFate DEF TypeOK
  <2>3. Delivery!Posted(ShutdownEvent)
    BY AheadSequel, SequelFacts DEF Delivery!Posted
  <2>4. \/ Delivery!Accept(ShutdownEvent) \/ Delivery!Refuse(ShutdownEvent)
        \/ Delivery!Divert(ShutdownEvent)
    BY <2>1, <2>2, <2>3 DEF Delivery!Accept, Delivery!Refuse, Delivery!Divert, Delivery!Move
  <2> QED
    BY <2>1, <2>4 DEF Delivery!Next
<1>8. ~ShutdownCount
  BY DEF ShutdownCount, Regular, Queues
<1>2. CASE Take \/ CheckExternalCallEvent \/ DrainPop
  <2>1. /\ events_queue # <<>>
        /\ \E v \in {"handling", "dropped", "mistaken"} :
              fate' = [fate EXCEPT ![Head(events_queue)] = v]
    BY <1>2 DEF Take, CheckExternalCallEvent, HandleFrontEvent, DrainPop, DropFate, FrontThere
  <2> QED
    BY <2>1, FrontDelivers
<1>3. CASE HandleIdle
  BY <1>3, IdleDelivers
<1>4. CASE Finish \/ Unwind
  BY <1>4, EndDelivers
<1>5. CASE VmPost
  <2>1. /\ VM \in Threads /\ HasNext(VM)
        /\ Call(ToPost(VM)) \/ fate' = [fate EXCEPT ![ToPost(VM)] = "handling"]
    BY <1>5 DEF VmPost, Threads
  <2> QED
    BY <2>1, CallDelivers, AtOnceDelivers
<1>6. CASE ShutdownOnError(VM)
  BY <1>6, OnErrorDelivers DEF Threads
<1> QED
  BY <1>1, <1>2, <1>3, <1>4, <1>5, <1>6, <1>7, <1>8 DEF VmStep, HandleStep

LEMMA OthersDeliver ==
  ASSUME TypeOK, PostedOnce, Posting, Posted, Regular, MainStep \/ \E p \in Posters : PosterStep(p)
  PROVE  Delivery!Next \/ UNCHANGED fate
<1>1. CASE PostShutdown
  <2>1. Main \in Threads /\ HasNext(Main) /\ AddEvent(ToPost(Main))
    BY <1>1, ThreadsAssumption DEF PostShutdown, PostedOnce, HasNext, Threads
  <2> QED
    BY <2>1, CallDelivers
<1>2. CASE MainStep /\ ~PostShutdown
  BY <1>2 DEF MainStep, AwaitTermination, AwaitAgain, Terminated, JoinPosters, StopEngines,
     ShutdownBegin, ShutdownSkip, JoinVm, ShutdownEnd, eventVars
<1>3. ASSUME NEW p \in Posters, PosterStep(p) PROVE Delivery!Next \/ UNCHANGED fate
  <2>1. CASE Post(p)
    BY <2>1, CallDelivers DEF Post, Threads
  <2>2. CASE ShutdownOnError(p)
    BY <2>2, OnErrorDelivers DEF Threads
  <2>3. CASE BeginTick(p) \/ TickSignal(p) \/ Check(p) \/ Enter(p)
    BY <2>3 DEF BeginTick, TickSignal, Check, Enter, eventVars
  <2> QED
    BY <1>3, <2>1, <2>2, <2>3 DEF PosterStep
<1> QED
  BY <1>1, <1>2, <1>3

LEMMA StepDelivers ==
  ASSUME OrderInv, ~IdleMoved, [Next]_vars
  PROVE  [Delivery!Next]_fate
<1>1. /\ TypeOK /\ HandlerStack /\ FrontThere /\ PostedOnce /\ Posting /\ Posted
      /\ Regular /\ ThreadOrder
  BY DEF OrderInv, QueueInv, IInv
<1>2. CASE VmStep
  BY <1>1, <1>2, VmDelivers
<1>3. CASE MainStep \/ \E p \in Posters : PosterStep(p)
  BY <1>1, <1>3, OthersDeliver
<1>4. CASE UNCHANGED vars
  BY <1>4 DEF vars, eventVars
<1> QED
  BY <1>2, <1>3, <1>4 DEF Next

\* As long as SHUTDOWN does not move idle events without event_queue_mutex,
\* the queue with its idle events, its buffer and its nested handlers does
\* what EventDelivery says: an event is handled at most once, one that was
\* refused or replaced never, and one thread's addEvents in order.
THEOREM DeliveryImplemented == Spec /\ []~IdleMoved => DeliversInOrder
<1>1. Spec => []OrderInv
  BY OrderHolds
<1>2. Init => Delivery!Init
  BY DEF Init, Delivery!Init
<1>3. OrderInv /\ ~IdleMoved /\ [Next]_vars => [Delivery!Next]_fate
  BY StepDelivers
<1> QED
  BY <1>1, <1>2, <1>3, PTL DEF Spec, DeliversInOrder, Delivery!Spec
=============================================================================
