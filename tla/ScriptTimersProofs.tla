-------------------------- MODULE ScriptTimersProofs -------------------------
(***************************************************************************)
(* Proofs about ScriptTimers, for any timers, runners and events: scripts  *)
(* use the timer thread as TimerThread says its clients do, and a runner   *)
(* of setInterval or setTimeout is deleted once, and not while it is in    *)
(* the map of the IntervalManager.                                         *)
(***************************************************************************)
EXTENDS ScriptTimers, TimerThreadProofs

(***************************************************************************)
(* Every step of the scripts is a step of the timer thread or leaves it    *)
(* alone.                                                                  *)
(***************************************************************************)
LEMMA JobSets == Timers \subseteq TimedJobs /\ Runners \subseteq TimedJobs
BY ScriptAssumption

LEMMA TickStepMaps == TickStep => [TimerNext]_timerVars
<1> SUFFICES ASSUME TickStep PROVE [TimerNext]_timerVars
  OBVIOUS
<1>1. ASSUME NEW t \in Timers, TickTimer(t) \/ CountTick(t)
      PROVE  [TimerNext]_timerVars
  BY <1>1, JobSets DEF TickTimer, CountTick, TimerNext, Clients
<1>2. ASSUME NEW r \in Runners, TickRunner(r) \/ CallReturns(r) \/ ClearOwn(r) \/ RemoveOwn(r)
      PROVE  [TimerNext]_timerVars
  BY <1>2, JobSets DEF TickRunner, CallReturns, ClearOwn, RemoveOwn, TimerNext, Clients
<1>3. CASE TickEnds
  BY <1>3 DEF TickEnds, TimerNext
<1> QED
  BY <1>1, <1>2, <1>3 DEF TickStep

LEMMA VmStepMaps == VmHandles \/ VmGoesOn => [TimerNext]_timerVars
<1> SUFFICES ASSUME VmHandles \/ VmGoesOn PROVE [TimerNext]_timerVars
  OBVIOUS
<1>1. ASSUME NEW t \in Timers, HandleTimerEvent(t) \/ AddTimer(t)
      PROVE  [TimerNext]_timerVars
  BY <1>1, JobSets DEF HandleTimerEvent, AddTimer, TimerNext, Clients
<1>2. ASSUME NEW r \in Runners, AnswerCall(r) \/ FinishRunner(r) \/ RemoveRunner(r)
      PROVE  [TimerNext]_timerVars
  BY <1>2, JobSets DEF AnswerCall, FinishRunner, RemoveRunner, TimerNext, Clients
<1> QED
  BY <1>1, <1>2 DEF VmHandles, VmGoesOn

LEMMA ScriptStepMaps == ScriptStep => [TimerNext]_timerVars
<1> SUFFICES ASSUME ScriptStep PROVE [TimerNext]_timerVars
  OBVIOUS
<1>1. ASSUME NEW t \in Timers, StartTimer(t) \/ StopTimer(t) \/ ResetTimer(t)
      PROVE  [TimerNext]_timerVars
  BY <1>1, JobSets DEF StartTimer, StopTimer, ResetTimer, TimerNext, Clients
<1>2. ASSUME NEW t \in Timers, NEW n \in RepeatCounts, SetRepeatCount(t, n)
      PROVE  [TimerNext]_timerVars
  <2>1. CASE removeJob(t)
    BY <2>1, JobSets DEF TimerNext, Clients
  <2> QED
    BY <1>2, <2>1 DEF SetRepeatCount
<1>3. ASSUME NEW r \in Runners, SetupTimer(r) \/ ClearInterval(r)
      PROVE  [TimerNext]_timerVars
  BY <1>3, JobSets DEF SetupTimer, ClearInterval, TimerNext, Clients
<1> QED
  BY <1>1, <1>2, <1>3 DEF ScriptStep

LEMMA EndStepMaps == EndStep => [TimerNext]_timerVars
<1> SUFFICES ASSUME EndStep PROVE [TimerNext]_timerVars
  OBVIOUS
<1>1. ASSUME NEW r \in Runners, DropRunner(r) PROVE [TimerNext]_timerVars
  BY <1>1, JobSets DEF DropRunner, TimerNext, Clients
<1> QED
  BY <1>1 DEF EndStep, Shutdown

LEMMA StepMaps == [Next]_vars => [TimerNext]_timerVars
<1> SUFFICES ASSUME [Next]_vars PROVE [TimerNext]_timerVars
  OBVIOUS
<1>1. CASE WorkerStep \/ ClockStep \/ OwnerStep
  BY <1>1 DEF WorkerStep, ClockStep, OwnerStep, TimerNext
<1>2. CASE UNCHANGED vars
  BY <1>2 DEF vars
<1> QED
  BY <1>1, <1>2, TickStepMaps, VmStepMaps, ScriptStepMaps, EndStepMaps DEF Next

\* Timer, IntervalManager and IntervalRunner use the timer thread only as
\* TimerThread lets its clients use it (Timer.cpp, IntervalManager.cpp,
\* IntervalRunner.cpp): what is proved of TimerThread holds of them.
THEOREM ScriptsUseTimerThread == Spec => TimerSpec
<1>1. Init => TimerInit
  BY DEF Init
<1> QED
  BY <1>1, StepMaps, PTL DEF Spec, TimerSpec

(***************************************************************************)
(* The inductive invariant of the scripts' timers.                         *)
(***************************************************************************)
ScriptTypes ==
    /\ active \in [Timers -> BOOLEAN] /\ rescheduled \in [Timers -> BOOLEAN]
    /\ repeatCount \in [Timers -> RepeatCounts] /\ currentCount \in [Timers -> Nat]
    /\ posted \in [Timers -> 0..MaxPosted]
    /\ busy \in [Runners -> BOOLEAN] /\ finished \in [Runners -> BOOLEAN]
    /\ runners \subseteq created /\ created \subseteq Runners
    /\ call \in [Runners -> {"none", "queued", "done"}] /\ late \in [Runners -> 0..2]
    /\ step \in {"begin", "count", "wait", "clear", "final", "return"}
    /\ script \in [op : {"free", "add", "finish", "remove"}, job : TimedJobs]
    /\ manager \in {"free", "script"} /\ shutdown \in BOOLEAN /\ scene \in Scenes

\* An interval has events that repeat, a timeout a single shot, and both only
\* after they were set up.
Fits(j, tick) == /\ j \in Intervals => tick
                 /\ j \in Timeouts => ~tick
                 /\ j \in Runners => j \in created
JobKinds ==
    /\ \A e \in Alive : Fits(timing[e].job, timing[e].tick)
    /\ worker = "ticking" => Fits(running.job, running.tick)
    /\ worker = "ticking" /\ ~running.tick => timing[running.event].job = running.job

\* The runners that scripts can reach: those of the map, and the one that
\* clearInterval has taken from it and is about to write to.
Needed == runners \union {r \in Runners : script = [op |-> "finish", job |-> r]}
OwedOne == ~shutdown => \A r \in Needed : owed[r] = 1

\* clearInterval keeps the mutex from when it has taken a runner until it has
\* told it to end; a runner that was told, or a timeout that has cleared
\* itself, is out of reach.
Left(r) == r \in created /\ r \notin Needed
Clearing ==
    /\ manager = "script" <=> script.op \in {"finish", "remove"}
    /\ manager = "script" => script.job \in created /\ script.job \notin runners
    /\ \A r \in Runners : ~stopMe[r] /\ (finished[r] => Left(r))
    /\ \A r \in Timeouts : Ticking(r) /\ step \in {"final", "return"} /\ ~shutdown => Left(r)
    /\ worker # "ticking" => step = "begin"

\* What keeps a Timer going: an event that repeats, or a single shot for a
\* repeat count of one.
Claims(t) == /\ active[t] /\ ~stopMe[t] /\ ~rescheduled[t] /\ owner # "deleted"
             /\ script # [op |-> "add", job |-> t]
Scheduled(t) ==
    Claims(t) => \/ \E e \in Pending : timing[e].job = t /\ (timing[e].tick \/ repeatCount[t] = 1)
                 \/ Ticking(t) /\ step \in {"begin", "count"} /\ repeatCount[t] = 1

ScriptInv == TimerInv /\ ScriptTypes /\ JobKinds /\ OwedOne /\ Clearing /\ \A t \in Timers : Scheduled(t)

(***************************************************************************)
(* What the steps of the timer thread do to the events and the fences.     *)
(***************************************************************************)
\* Events may end, and none changes its job or its kind.
Shrinks ==
    /\ Alive' \subseteq Alive
    /\ \A e \in Alive' : timing'[e].job = timing[e].job /\ timing'[e].tick = timing[e].tick
    /\ worker' = "ticking" => worker = "ticking" /\ running' = running

\* An event of the list stays there.
Stays(e) == e \in Pending' /\ timing'[e].job = timing[e].job /\ timing'[e].tick = timing[e].tick

LEMMA AddEffect ==
  ASSUME TimerInv, NEW j \in TimedJobs, NEW b \in BOOLEAN, AddEvent(j, b)
  PROVE  \E e \in Events :
            /\ e \notin Alive /\ Pending' = Pending \union {e} /\ Alive' = Alive \union {e}
            /\ timing'[e].job = j /\ timing'[e].tick = b
            /\ \A x \in Events : x # e => timing'[x] = timing[x]
            /\ owed'[j] = owed[j] + 1 /\ \A k \in TimedJobs : k # j => owed'[k] = owed[k]
            /\ UNCHANGED <<stopMe, worker, running, owner>>
<1> DEFINE e == CHOOSE x \in Events \ Alive : TRUE
<1>1. e \in Events /\ e \notin Alive
  BY DEF AddEvent
<1>2. PICK p \in 1..(Len(pendingEvents) + 1) : pendingEvents' = InsertAt(pendingEvents, p, e)
  BY DEF AddEvent
<1>3. /\ timing' = [timing EXCEPT ![e] = NewTiming(j, b)]
      /\ owed' = [owed EXCEPT ![j] = @ + 1]
      /\ UNCHANGED <<stopMe, worker, running, owner>>
  BY DEF AddEvent, workerVars
<1> HIDE DEF e
<1>4. e \notin Elements(pendingEvents)
  BY <1>1, InWords DEF Alive
<1>5. Elements(pendingEvents') = Elements(pendingEvents) \union {e}
  BY <1>1, <1>2, <1>4, InWords, InsertKeeps
<1>6. Pending' = Pending \union {e} /\ InFlight' = InFlight
  BY <1>3, <1>5, InWords DEF InFlight, Pending, Elements
<1>7. Alive' = Alive \union {e}
  BY <1>6 DEF Alive
<1>8. timing'[e] = NewTiming(j, b) /\ \A x \in Events : x # e => timing'[x] = timing[x]
  BY <1>1, <1>3, InWords DEF Timings
<1>9. timing'[e].job = j /\ timing'[e].tick = b
  BY <1>8 DEF NewTiming
<1>10. owed'[j] = owed[j] + 1 /\ \A k \in TimedJobs : k # j => owed'[k] = owed[k]
  BY <1>3, InWords
<1> QED
  BY <1>1, <1>3, <1>6, <1>7, <1>8, <1>9, <1>10

LEMMA RemoveEffect ==
  ASSUME TimerInv, NEW j \in TimedJobs, removeJob(j)
  PROVE  /\ Shrinks /\ UNCHANGED <<stopMe, worker, running, owner>>
         /\ \A k \in TimedJobs : k # j => owed'[k] = owed[k]
         /\ \A e \in Pending : timing[e].job # j => Stays(e)
<1>1. UNCHANGED <<stopMe, worker, running, owner>>
  BY DEF removeJob, workerVars
<1>2. CASE UNCHANGED listVars
  <2>1. Pending' = Pending /\ Alive' = Alive /\ UNCHANGED <<timing, owed>>
    BY <1>1, <1>2 DEF listVars, Pending, Alive, InFlight
  <2> QED
    BY <1>1, <2>1 DEF Shrinks, Stays
<1>3. CASE \E i \in 1..Len(pendingEvents) : RemoveFirstOf(j, i)
  <2>1. PICK i \in 1..Len(pendingEvents) : RemoveFirstOf(j, i)
    BY <1>3
  <2> DEFINE e == pendingEvents[i]
  <2>2. /\ owed' = [owed EXCEPT ![timing[e].job] = @ - 1] /\ timing[e].job = j
        /\ timing' = [timing EXCEPT ![e] = NewTiming(SomeJob, FALSE)]
        /\ pendingEvents' = RemoveAt(pendingEvents, i)
    BY <2>1 DEF RemoveFirstOf, FenceAndDelete, IsFirstOf
  <2>3. e \in Elements(pendingEvents) /\ e \in Events
    BY InWords DEF Elements
  <2>4. Elements(pendingEvents') = Elements(pendingEvents) \ {e}
    BY <2>2, InWords, RemoveKeeps
  <2> HIDE DEF e
  <2>5. Pending' = Pending \ {e} /\ InFlight' = InFlight
    BY <1>1, <2>4, InWords DEF InFlight, Pending, Elements
  <2>6. e \notin InFlight
    BY <2>3, InWords DEF TimerInv, EventOnce
  <2>7. Alive' = Alive \ {e}
    BY <2>5, <2>6 DEF Alive
  <2>8. \A x \in Events : x # e => timing'[x] = timing[x]
    BY <2>2, <2>3, InWords DEF Timings
  <2>9. \A k \in TimedJobs : k # j => owed'[k] = owed[k]
    BY <2>2, InWords
  <2> QED
    BY <1>1, <2>2, <2>5, <2>7, <2>8, <2>9, InWords DEF Shrinks, Stays
<1> QED
  BY <1>2, <1>3 DEF removeJob, listVars

\* A step that leaves the list and the job that ticks alone.
LEMMA SameEffect ==
  ASSUME UNCHANGED <<pendingEvents, timing, owed>>,
         UNCHANGED <<worker, running>> \/ (worker # "ticking" /\ worker' # "ticking")
  PROVE  Shrinks /\ (\A k \in TimedJobs : owed'[k] = owed[k]) /\ \A e \in Pending : Stays(e)
<1>1. Pending' = Pending /\ InFlight' = InFlight
  BY DEF Pending, InFlight
<1>2. Alive' = Alive
  BY <1>1 DEF Alive
<1> QED
  BY <1>1, <1>2 DEF Shrinks, Stays

\* The worker drops an event of a job that was told to stop, or begins a tick,
\* which keeps an event that repeats, or does nothing to the events.
Begun(e) ==
    /\ worker' = "ticking" /\ running'.job = timing[e].job /\ running'.tick = timing[e].tick
    /\ ~timing[e].tick => running'.event = e
    /\ Alive' = Alive
    /\ \A x \in Events : timing'[x].job = timing[x].job /\ timing'[x].tick = timing[x].tick
    /\ \A x \in Pending : Stays(x) \/ (x = e /\ ~timing[e].tick)

LEMMA WorkerEffect ==
  ASSUME TimerInv, Worker
  PROVE  /\ worker # "ticking" /\ UNCHANGED <<stopMe, owner>>
         /\ \A k \in TimedJobs : stopMe[k] \/ owed'[k] = owed[k]
         /\ \/ worker' # "ticking" /\ Shrinks /\ \A e \in Pending : stopMe[timing[e].job] \/ Stays(e)
            \/ \E e \in Pending : Begun(e)
<1>1. CASE Sleep \/ WakeEmpty \/ WakeToStop \/ WakeForNothing
  <2>1. /\ worker # "ticking" /\ worker' # "ticking"
        /\ UNCHANGED <<pendingEvents, timing, owed, stopMe, owner>>
    BY <1>1 DEF Sleep, WakeEmpty, WakeToStop, WakeForNothing, TimedWaitEnds, listVars
  <2> QED
    BY <2>1, SameEffect
<1>2. CASE WakeToDrop
  <2>1. /\ worker = "timed" /\ worker' = "top" /\ pendingEvents # <<>> /\ pendingEvents' = Tail(pendingEvents)
        /\ owed' = [owed EXCEPT ![timing[First].job] = @ - 1] /\ stopMe[timing[First].job]
        /\ timing' = [timing EXCEPT ![First] = NewTiming(SomeJob, FALSE)]
        /\ UNCHANGED <<stopMe, running, owner>>
    BY <1>2 DEF WakeToDrop, TimedWaitEnds, Due, FenceAndDelete
  <2>2. Elements(pendingEvents') = Elements(pendingEvents) \ {First} /\ First \in Events
    BY <2>1, InWords, TailKeeps, PendingType DEF First
  <2>3. Pending' = Pending \ {First} /\ InFlight = {} /\ InFlight' = {}
    BY <2>1, <2>2, InWords DEF InFlight, Pending, Elements
  <2>4. Alive' = Alive \ {First}
    BY <2>3 DEF Alive
  <2>5. \A x \in Events : x # First => timing'[x] = timing[x]
    BY <2>1, <2>2, InWords DEF Timings
  <2>6. \A k \in TimedJobs : stopMe[k] \/ owed'[k] = owed[k]
    BY <2>1, InWords
  <2>7. Shrinks /\ \A e \in Pending : stopMe[timing[e].job] \/ Stays(e)
    BY <2>1, <2>3, <2>4, <2>5, InWords DEF Shrinks, Stays
  <2> QED
    BY <2>1, <2>6, <2>7
<1>3. CASE WakeToTick
  <2>1. /\ worker = "timed" /\ worker' = "ticking" /\ pendingEvents # <<>>
        /\ running' = [event |-> IF timing[First].tick THEN NoEvent ELSE First,
                       job |-> timing[First].job, tick |-> timing[First].tick]
        /\ UNCHANGED <<owed, stopMe, owner>>
    BY <1>3 DEF WakeToTick, TimedWaitEnds, Due
  <2>2. First \in Events /\ First \in Pending /\ Pending = Alive /\ timing[First].tick \in BOOLEAN
    BY <2>1, PendingType DEF Alive, InFlight
  <2>3. CASE timing[First].tick
    <3>1. Elements(pendingEvents') = Elements(pendingEvents) /\ \A e \in Events : timing'[e].job = timing[e].job
      BY <1>3, <2>1, <2>3, RequeueKeeps DEF WakeToTick
    <3>2. \A e \in Events : timing'[e].tick = timing[e].tick
      <4>1. \E d : timing' = [timing EXCEPT ![First].due = d]
        BY <1>3, <2>3 DEF WakeToTick, Requeue
      <4>2. timing \in Timings
        BY InWords
      <4> QED
        BY <4>1, <4>2 DEF Timings
    <3>3. Pending' = Pending /\ InFlight' = {}
      BY <2>1, <2>3, <3>1, InWords DEF InFlight, Pending, Elements
    <3>4. Alive' = Alive
      BY <2>2, <3>3 DEF Alive
    <3>5. Begun(First)
      BY <2>1, <2>3, <3>1, <3>2, <3>3, <3>4, InWords DEF Begun, Stays
    <3> QED
      BY <2>1, <2>2, <3>5
  <2>4. CASE ~timing[First].tick
    <3>1. pendingEvents' = Tail(pendingEvents) /\ timing' = timing
      BY <1>3, <2>4 DEF WakeToTick
    <3>2. Elements(pendingEvents') = Elements(pendingEvents) \ {First}
      BY <2>1, <3>1, InWords, TailKeeps DEF First
    <3>3. Pending' = Pending \ {First} /\ InFlight' = {First}
      BY <2>1, <2>4, <3>2, InWords DEF InFlight, Pending, Elements
    <3>4. Alive' = Alive
      BY <2>2, <3>3 DEF Alive
    <3>5. Begun(First)
      BY <2>1, <2>4, <3>1, <3>3, <3>4 DEF Begun, Stays
    <3> QED
      BY <2>1, <2>2, <3>5
  <2> QED
    BY <2>3, <2>4
<1> QED
  BY <1>1, <1>2, <1>3 DEF Worker

LEMMA TickReturnsEffect ==
  ASSUME TimerInv, JobKinds, TickReturns
  PROVE  /\ worker = "ticking" /\ worker' = "top" /\ UNCHANGED <<stopMe, owner>>
         /\ \A k \in TimedJobs : owed'[k] = owed[k] \/ (k = running.job /\ ~running.tick)
         /\ Shrinks /\ \A e \in Pending : Stays(e)
<1>1. worker = "ticking" /\ worker' = "top" /\ UNCHANGED <<stopMe, owner, pendingEvents>>
  BY DEF TickReturns
<1>2. Pending' = Pending /\ InFlight' = {}
  BY <1>1 DEF Pending, InFlight
<1>3. Alive' = Pending
  BY <1>2 DEF Alive
<1>4. CASE running.tick
  <2>1. UNCHANGED <<owed, timing>>
    BY <1>4 DEF TickReturns
  <2> QED
    BY <1>1, <1>2, <1>3, <2>1 DEF Shrinks, Stays, Alive
<1>5. CASE ~running.tick
  <2> DEFINE e == running.event
  <2>1. /\ owed' = [owed EXCEPT ![timing[e].job] = @ - 1]
        /\ timing' = [timing EXCEPT ![e] = NewTiming(SomeJob, FALSE)]
    BY <1>5 DEF TickReturns, FenceAndDelete
  <2>2. e \notin Pending /\ timing[e].job = running.job
    BY <1>1, <1>5 DEF InFlight, TimerInv, EventOnce, JobKinds
  <2> HIDE DEF e
  <2>3. \A x \in Pending : timing'[x] = timing[x]
    BY <2>1, <2>2, InWords DEF Timings
  <2>4. \A k \in TimedJobs : owed'[k] = owed[k] \/ k = running.job
    BY <2>1, <2>2, InWords
  <2> QED
    BY <1>1, <1>2, <1>3, <1>5, <2>3, <2>4 DEF Shrinks, Stays, Alive
<1> QED
  BY <1>4, <1>5

LEMMA AdvanceEffect ==
  ASSUME TimerInv, Advance
  PROVE  /\ UNCHANGED <<owed, stopMe, worker, running, owner>>
         /\ Shrinks /\ \A e \in Pending : Stays(e)
<1>1. UNCHANGED <<pendingEvents, owed, stopMe, worker, running, owner>>
  BY DEF Advance
<1>2. Pending' = Pending /\ InFlight' = InFlight
  BY <1>1 DEF Pending, InFlight
<1>3. Alive' = Alive /\ Alive \subseteq Events /\ Pending \subseteq Alive
  BY <1>2, InWords DEF Alive
<1>4. ASSUME NEW e \in Events PROVE timing'[e].job = timing[e].job /\ timing'[e].tick = timing[e].tick
  <2>1. timing[e] \in [job : TimedJobs, tick : BOOLEAN, due : Int]
    BY InWords DEF Timings
  <2>2. timing'[e] = timing[e] \/ timing'[e] = [timing[e] EXCEPT !.due = Earlier(@)]
    BY DEF Advance
  <2> QED
    BY <2>1, <2>2
<1> QED
  BY <1>1, <1>2, <1>3, <1>4 DEF Shrinks, Stays

LEMMA OwnerEffect ==
  ASSUME TimerInv, Owner
  PROVE  /\ UNCHANGED <<stopMe, worker, running>> /\ Shrinks
         /\ owner' = "deleted" \/ (owner # "deleted" /\ UNCHANGED owed /\ \A e \in Pending : Stays(e))
<1>1. CASE SetStopped \/ SignalStop("using") \/ SignalStop("joining") \/ Join
  <2>1. /\ UNCHANGED <<pendingEvents, timing, owed, stopMe, worker, running>> /\ owner # "deleted"
    BY <1>1 DEF SetStopped, SignalStop, Join, listVars, workerVars
  <2> QED
    BY <2>1, SameEffect
<1>2. CASE Destroy
  <2>1. /\ UNCHANGED <<stopMe, worker, running>> /\ owner' = "deleted" /\ pendingEvents' = <<>>
        /\ worker = "exited"
    BY <1>2 DEF Destroy, workerVars, TimerInv, TimerTypeOK
  <2>2. Alive' = {}
    BY <2>1 DEF Alive, Pending, InFlight
  <2> QED
    BY <2>1, <2>2 DEF Shrinks
<1> QED
  BY <1>1, <1>2 DEF Owner

\* The jobs that events and ticks belong to, in steps that add none, add one
\* or begin a tick.
LEMMA KindsShrink ==
  ASSUME JobKinds, Shrinks, created \subseteq created'
  PROVE  JobKinds'
<1>1. ASSUME worker' = "ticking", ~running'.tick
      PROVE  timing'[running'.event].job = running'.job
  <2>1. worker = "ticking" /\ running' = running /\ running.event \in Alive'
    BY <1>1 DEF Shrinks, Alive, InFlight
  <2> QED
    BY <1>1, <2>1 DEF Shrinks, JobKinds
<1>2. \A e \in Alive' : Fits(timing[e].job, timing[e].tick)'
  BY DEF JobKinds, Shrinks, Fits
<1>3. worker' = "ticking" => Fits(running.job, running.tick)'
  BY DEF JobKinds, Shrinks, Fits
<1> QED
  BY <1>1, <1>2, <1>3 DEF JobKinds

LEMMA KindsAdd ==
  ASSUME TimerInv, JobKinds, NEW j \in TimedJobs, NEW b \in BOOLEAN, AddEvent(j, b),
         created \subseteq created', Fits(j, b)'
  PROVE  JobKinds'
<1>1. PICK e \in Events :
            /\ e \notin Alive /\ Alive' = Alive \union {e}
            /\ timing'[e].job = j /\ timing'[e].tick = b
            /\ \A x \in Events : x # e => timing'[x] = timing[x]
            /\ UNCHANGED <<stopMe, worker, running, owner>>
  BY AddEffect
<1>2. \A x \in Alive' : Fits(timing[x].job, timing[x].tick)'
  BY <1>1, InWords DEF JobKinds, Fits
<1>3. worker' = "ticking" => Fits(running.job, running.tick)'
  BY <1>1 DEF JobKinds, Fits
<1>4. ASSUME worker' = "ticking", ~running'.tick
      PROVE  timing'[running'.event].job = running'.job
  <2>1. running.event \in Alive /\ running.event \in Events
    BY <1>1, <1>4, InWords DEF Alive, InFlight
  <2> QED
    BY <1>1, <1>4, <2>1 DEF JobKinds
<1> QED
  BY <1>2, <1>3, <1>4 DEF JobKinds

LEMMA KindsBegin ==
  ASSUME TimerInv, JobKinds, NEW e \in Pending, Begun(e), UNCHANGED created
  PROVE  JobKinds'
<1>1. e \in Alive /\ Alive \subseteq Events
  BY InWords DEF Alive
<1>2. \A x \in Alive' : Fits(timing[x].job, timing[x].tick)'
  BY <1>1 DEF Begun, JobKinds, Fits
<1>3. Fits(running.job, running.tick)'
  BY <1>1 DEF Begun, JobKinds, Fits
<1>4. ~running'.tick => timing'[running'.event].job = running'.job
  BY <1>1 DEF Begun
<1> QED
  BY <1>2, <1>3, <1>4 DEF JobKinds

LEMMA JobKindsKept ==
  ASSUME TimerInv, ScriptTypes, JobKinds, Next
  PROVE  JobKinds'
<1> USE DEF flashVars, runnerVars, scriptVars
<1>0. ASSUME UNCHANGED timerVars, created \subseteq created'
      PROVE  JobKinds'
  <2>1. Shrinks
    BY <1>0, SameEffect DEF timerVars, listVars, workerVars
  <2> QED
    BY <1>0, <2>1, KindsShrink
<1>r. ASSUME NEW j \in TimedJobs, removeJob(j), created \subseteq created'
      PROVE  JobKinds'
  BY <1>r, RemoveEffect, KindsShrink
<1>f. ASSUME NEW j, NEW b, SetStopMe(j, b), created \subseteq created'
      PROVE  JobKinds'
  <2>1. Shrinks
    BY <1>f, SameEffect DEF SetStopMe, listVars, workerVars
  <2> QED
    BY <1>f, <2>1, KindsShrink
<1>1. CASE WorkerStep
  BY <1>1, WorkerEffect, KindsShrink, KindsBegin DEF WorkerStep
<1>2. CASE ClockStep \/ OwnerStep
  BY <1>2, AdvanceEffect, OwnerEffect, KindsShrink DEF ClockStep, OwnerStep
<1>3. CASE TickStep
  <2>1. ASSUME NEW t \in Timers, TickTimer(t) \/ CountTick(t)
        PROVE  JobKinds'
    BY <1>0, <1>f, <2>1 DEF TickTimer, CountTick
  <2>2. ASSUME NEW r \in Runners, TickRunner(r) \/ CallReturns(r) \/ ClearOwn(r) \/ RemoveOwn(r)
        PROVE  JobKinds'
    BY <1>0, <1>r, <2>2, JobSets DEF TickRunner, CallReturns, ClearOwn, RemoveOwn
  <2>3. CASE TickEnds
    BY <2>3, TickReturnsEffect, KindsShrink DEF TickEnds
  <2> QED
    BY <1>3, <2>1, <2>2, <2>3 DEF TickStep
<1>4. CASE VmHandles
  BY <1>0, <1>4 DEF VmHandles, HandleTimerEvent, AnswerCall
<1>5. CASE VmGoesOn
  <2>1. ASSUME NEW t \in Timers, AddTimer(t)
        PROVE  JobKinds'
    <3>1. t \in TimedJobs /\ \A b \in BOOLEAN : Fits(t, b)'
      BY JobSets, ScriptAssumption DEF Fits, Runners
    <3>2. UNCHANGED created /\ \E b \in BOOLEAN : AddEvent(t, b)
      BY <2>1 DEF AddTimer, addWait, addTick
    <3> QED
      BY <3>1, <3>2, KindsAdd
  <2>2. ASSUME NEW r \in Runners, FinishRunner(r) \/ RemoveRunner(r)
        PROVE  JobKinds'
    BY <1>0, <1>r, <2>2, JobSets DEF FinishRunner, RemoveRunner
  <2> QED
    BY <1>5, <2>1, <2>2 DEF VmGoesOn
<1>6. CASE ScriptStep
  <2>1. ASSUME NEW t \in Timers, StartTimer(t) \/ StopTimer(t) \/ ResetTimer(t)
        PROVE  JobKinds'
    BY <1>0, <1>r, <1>f, <2>1, JobSets DEF StartTimer, StopTimer, ResetTimer
  <2>2. ASSUME NEW t \in Timers, NEW n, SetRepeatCount(t, n)
        PROVE  JobKinds'
    <3>1. removeJob(t) \/ UNCHANGED timerVars
      BY <2>2 DEF SetRepeatCount
    <3> QED
      BY <1>0, <1>r, <2>2, <3>1, JobSets DEF SetRepeatCount
  <2>3. ASSUME NEW r \in Runners, ClearInterval(r)
        PROVE  JobKinds'
    BY <1>0, <2>3 DEF ClearInterval
  <2>4. ASSUME NEW r \in Runners, SetupTimer(r)
        PROVE  JobKinds'
    <3>1. created' = created \union {r}
      BY <2>4 DEF SetupTimer
    <3>2. \E b \in BOOLEAN : AddEvent(r, b) /\ Fits(r, b)'
      <4>1. CASE r \in Intervals
        BY <2>4, <3>1, <4>1, ScriptAssumption DEF SetupTimer, addTick, Fits
      <4>2. CASE r \notin Intervals
        BY <2>4, <3>1, <4>2 DEF SetupTimer, addWait, Fits
      <4> QED
        BY <4>1, <4>2
    <3> QED
      BY <3>1, <3>2, JobSets, KindsAdd
  <2> QED
    BY <1>6, <2>1, <2>2, <2>3, <2>4 DEF ScriptStep
<1>7. CASE EndStep
  BY <1>0, <1>7, <1>r, JobSets DEF EndStep, Shutdown, DropRunner
<1> QED
  BY <1>1, <1>2, <1>3, <1>4, <1>5, <1>6, <1>7 DEF Next

(***************************************************************************)
(* The types.                                                              *)
(***************************************************************************)
LEMMA CountedType == ASSUME ScriptTypes, NEW t \in Timers
                     PROVE  Counted(t) \in Nat /\ (repeatCount[t] = 1 => Completed(t))
<1>1. MaxCount \in RepeatCounts /\ \A m \in RepeatCounts : m <= MaxCount
  BY ScriptAssumption DEF MaxCount
<1>2. MaxCount \in Nat /\ currentCount[t] \in Nat /\ repeatCount[t] \in RepeatCounts
  BY <1>1, ScriptAssumption DEF ScriptTypes
<1> QED
  BY <1>1, <1>2 DEF Counted, Completed

LEMMA ScriptTypesKept ==
  ASSUME ScriptTypes, Next
  PROVE  ScriptTypes'
<1> USE DEF ScriptTypes, flashVars, runnerVars, scriptVars
<1>1. CASE WorkerStep \/ ClockStep \/ OwnerStep
  BY <1>1 DEF WorkerStep, ClockStep, OwnerStep
<1>f. Free \in [op : {"free", "add", "finish", "remove"}, job : TimedJobs]
  BY JobsAssumption DEF Free, SomeJob
<1>2. CASE TickStep
  <2>1. ASSUME NEW t \in Timers, TickTimer(t) PROVE ScriptTypes'
    BY <2>1, ScriptAssumption DEF TickTimer
  <2>2. ASSUME NEW t \in Timers, CountTick(t) PROVE ScriptTypes'
    BY <2>2, CountedType DEF CountTick
  <2>3. ASSUME NEW r \in Runners, TickRunner(r) PROVE ScriptTypes'
    <3>1. CallLater(r) \in 0..2
      BY DEF CallLater
    <3>2. /\ busy' = busy \/ busy' = [busy EXCEPT ![r] = TRUE]
          /\ call' = call \/ call' = [call EXCEPT ![r] = "queued"]
          /\ late' = late \/ late' = [late EXCEPT ![r] = CallLater(r)]
          /\ step' \in {"return", "wait"}
          /\ UNCHANGED <<flashVars, finished, runners, created, script, manager, shutdown, scene>>
      BY <2>3 DEF TickRunner
    <3>3. busy' \in [Runners -> BOOLEAN]
      <4>1. busy \in [Runners -> BOOLEAN]
        OBVIOUS
      <4> QED
        BY <3>2, <4>1
    <3>4. call' \in [Runners -> {"none", "queued", "done"}]
      <4>1. call \in [Runners -> {"none", "queued", "done"}]
        OBVIOUS
      <4>2. [call EXCEPT ![r] = "queued"] \in [Runners -> {"none", "queued", "done"}]
        BY <4>1
      <4> QED
        BY <3>2, <4>1, <4>2
    <3>5. late' \in [Runners -> 0..2]
      <4>1. late \in [Runners -> 0..2]
        OBVIOUS
      <4>2. [late EXCEPT ![r] = CallLater(r)] \in [Runners -> 0..2]
        BY <3>1, <4>1
      <4> QED
        BY <3>2, <4>1, <4>2
    <3> QED
      BY <3>2, <3>3, <3>4, <3>5
  <2>4. ASSUME NEW r \in Runners, CallReturns(r) \/ ClearOwn(r) \/ RemoveOwn(r) PROVE ScriptTypes'
    BY <2>4 DEF CallReturns, ClearOwn, RemoveOwn
  <2>5. CASE TickEnds
    BY <2>5 DEF TickEnds
  <2> QED
    BY <1>2, <2>1, <2>2, <2>3, <2>4, <2>5 DEF TickStep
<1>3. CASE VmHandles
  <2>1. ASSUME NEW t \in Timers, HandleTimerEvent(t) PROVE ScriptTypes'
    BY <2>1, ScriptAssumption DEF HandleTimerEvent
  <2> QED
    BY <1>3, <2>1 DEF VmHandles, AnswerCall
<1>4. CASE VmGoesOn
  BY <1>4, <1>f DEF VmGoesOn, AddTimer, FinishRunner, RemoveRunner
<1>5. CASE ScriptStep
  <2>1. ASSUME NEW t \in Timers, StartTimer(t) \/ StopTimer(t) \/ ResetTimer(t) PROVE ScriptTypes'
    <3>1. CASE StartTimer(t)
      BY <3>1, JobSets DEF StartTimer
    <3>2. CASE StopTimer(t)
      BY <3>2 DEF StopTimer
    <3>3. CASE ResetTimer(t)
      BY <3>3 DEF ResetTimer
    <3> QED
      BY <2>1, <3>1, <3>2, <3>3
  <2>2. ASSUME NEW t \in Timers, NEW n \in RepeatCounts, SetRepeatCount(t, n) PROVE ScriptTypes'
    BY <2>2 DEF SetRepeatCount
  <2>3. ASSUME NEW r \in Runners, SetupTimer(r) \/ ClearInterval(r) PROVE ScriptTypes'
    BY <2>3, JobSets DEF SetupTimer, ClearInterval
  <2> QED
    BY <1>5, <2>1, <2>2, <2>3 DEF ScriptStep
<1>6. CASE EndStep
  BY <1>6 DEF EndStep, Shutdown, DropRunner
<1> QED
  BY <1>1, <1>2, <1>3, <1>4, <1>5, <1>6 DEF Next

(***************************************************************************)
(* A runner that scripts can reach is there.                               *)
(***************************************************************************)
\* A runner that is not in the map while nobody is clearing it is not reached.
LEMMA NeededWhenFree ==
  ASSUME Clearing, script.op # "finish" \/ manager = "free"
  PROVE  Needed = runners
<1>1. script.op # "finish"
  BY DEF Clearing
<1> QED
  BY <1>1 DEF Needed

LEMMA OwedStaysOne ==
  ASSUME OwedOne, Needed' \subseteq Needed, shutdown => shutdown',
         \A r \in Needed' : owed'[r] = owed[r]
  PROVE  OwedOne'
BY DEF OwedOne

\* Before it is set up a runner has no event, so it is owed no fence.
LEMMA NotYetOwed ==
  ASSUME TimerInv, JobKinds, NEW r \in Runners, r \notin created
  PROVE  owed[r] = 0
<1>1. {e \in Alive : timing[e].job = r} = {}
  BY DEF JobKinds, Fits
<1> QED
  BY <1>1, JobSets, FS_EmptySet DEF TimerInv, OwedExact

LEMMA OwedOneKept ==
  ASSUME TimerInv, ScriptTypes, JobKinds, OwedOne, Clearing, Next
  PROVE  OwedOne'
<1> USE DEF flashVars, runnerVars, scriptVars
<1>n. Needed \subseteq Runners /\ runners \subseteq Needed /\ Needed \subseteq TimedJobs
  BY JobSets DEF Needed, ScriptTypes
<1>s. UNCHANGED <<runners, script>> => Needed' = Needed
  BY DEF Needed
<1>f. script'.op # "finish" => Needed' = runners'
  BY DEF Needed
<1>t. \A t \in Timers : t \notin Needed
  BY <1>n, ScriptAssumption
<1>o. UNCHANGED timerVars => owed' = owed
  BY DEF timerVars, listVars
<1>1. CASE WorkerStep
  <2>1. \A r \in Needed : owed'[r] = owed[r]
    BY <1>1, <1>n, WorkerEffect DEF WorkerStep, Clearing
  <2> QED
    BY <1>1, <1>s, <2>1, OwedStaysOne DEF WorkerStep
<1>2. CASE ClockStep
  BY <1>2, <1>s, <1>n, AdvanceEffect, OwedStaysOne DEF ClockStep
<1>3. CASE OwnerStep
  <2>1. owner' = "deleted" => Needed = {}
    BY <1>3 DEF OwnerStep, Needed
  <2> QED
    BY <1>3, <1>s, <2>1, OwnerEffect, OwedStaysOne DEF OwnerStep
<1>4. CASE TickStep
  <2>1. ASSUME NEW t \in Timers, TickTimer(t) \/ CountTick(t) PROVE OwedOne'
    BY <2>1, <1>s, <1>o, OwedStaysOne DEF TickTimer, CountTick, SetStopMe, listVars
  <2>2. ASSUME NEW r \in Runners, TickRunner(r) \/ CallReturns(r) PROVE OwedOne'
    BY <2>2, <1>s, <1>o, OwedStaysOne DEF TickRunner, CallReturns
  <2>3. ASSUME NEW r \in Runners, ClearOwn(r) PROVE OwedOne'
    <3>1. Needed = runners /\ script' = script /\ runners' = runners \ {r} /\ shutdown' = shutdown
      BY <2>3, NeededWhenFree DEF ClearOwn
    <3>2. Needed' = runners \ {r}
      BY <3>1, <2>3 DEF Needed, ClearOwn, Clearing
    <3>3. \A k \in TimedJobs : k # r => owed'[k] = owed[k]
      BY <2>3, <1>o, RemoveEffect, JobSets DEF ClearOwn
    <3> QED
      BY <1>n, <3>1, <3>2, <3>3, OwedStaysOne
  <2>4. ASSUME NEW r \in Runners, RemoveOwn(r) PROVE OwedOne'
    <3>1. CASE finished[r]
      <4>1. r \notin Needed
        BY <3>1 DEF Clearing, Left
      <4>2. \A k \in TimedJobs : k # r => owed'[k] = owed[k]
        BY <2>4, <3>1, RemoveEffect, JobSets DEF RemoveOwn
      <4> QED
        BY <2>4, <1>n, <1>s, <4>1, <4>2, OwedStaysOne DEF RemoveOwn
    <3> QED
      BY <2>4, <1>s, <1>o, <3>1, OwedStaysOne DEF RemoveOwn
  <2>5. CASE TickEnds
    <3>1. ASSUME NEW r \in Needed, ~shutdown, owed'[r] # owed[r] PROVE FALSE
      <4>1. r = running.job /\ ~running.tick /\ worker = "ticking" /\ step = "return"
        BY <2>5, <3>1, <1>n, TickReturnsEffect DEF TickEnds
      <4>2. r \in Timeouts
        BY <4>1, <1>n DEF JobKinds, Fits, Runners
      <4> QED
        BY <3>1, <4>1, <4>2 DEF Clearing, Left, Ticking
    <3>2. Needed' = Needed /\ shutdown' = shutdown
      BY <2>5, <1>s DEF TickEnds
    <3> QED
      BY <3>1, <3>2 DEF OwedOne
  <2> QED
    BY <1>4, <2>1, <2>2, <2>3, <2>4, <2>5 DEF TickStep
<1>5. CASE VmHandles
  BY <1>5, <1>s, <1>o, OwedStaysOne DEF VmHandles, HandleTimerEvent, AnswerCall
<1>6. CASE VmGoesOn
  <2>1. ASSUME NEW t \in Timers, AddTimer(t) PROVE OwedOne'
    <3>1. Needed' = runners' /\ runners' = runners /\ shutdown' = shutdown
      BY <2>1, <1>f DEF AddTimer, Free
    <3>2. \E b \in BOOLEAN : AddEvent(t, b)
      BY <2>1 DEF AddTimer, addWait, addTick
    <3>3. \A k \in TimedJobs : k # t => owed'[k] = owed[k]
      BY <3>2, JobSets, AddEffect
    <3> QED
      BY <3>1, <3>3, <1>n, <1>t, OwedStaysOne
  <2>2. ASSUME NEW r \in Runners, FinishRunner(r) PROVE OwedOne'
    BY <2>2, <1>f, <1>n, <1>o, OwedStaysOne DEF FinishRunner, Free
  <2>3. ASSUME NEW r \in Runners, RemoveRunner(r) PROVE OwedOne'
    <3>1. Needed' = runners /\ r \notin runners /\ shutdown' = shutdown
      BY <2>3, <1>f DEF RemoveRunner, Clearing, Free
    <3>2. \A k \in TimedJobs : k # r => owed'[k] = owed[k]
      BY <2>3, RemoveEffect, JobSets DEF RemoveRunner
    <3> QED
      BY <3>1, <3>2, <1>n, OwedStaysOne
  <2> QED
    BY <1>6, <2>1, <2>2, <2>3 DEF VmGoesOn
<1>7. CASE ScriptStep
  <2>1. ASSUME NEW t \in Timers, StartTimer(t) PROVE OwedOne'
    <3>1. script'.op # "finish" /\ UNCHANGED <<runners, owed, shutdown>>
      BY <2>1 DEF StartTimer, SetStopMe, listVars
    <3> QED
      BY <3>1, <1>f, <1>n, OwedStaysOne
  <2>2. ASSUME NEW t \in Timers, removeJob(t), UNCHANGED <<runners, script, shutdown>> PROVE OwedOne'
    <3>1. \A k \in TimedJobs : k # t => owed'[k] = owed[k]
      BY <2>2, RemoveEffect, JobSets
    <3> QED
      BY <2>2, <3>1, <1>n, <1>s, <1>t, OwedStaysOne
  <2>3. ASSUME NEW t \in Timers, StopTimer(t) \/ ResetTimer(t) PROVE OwedOne'
    BY <2>2, <2>3, <1>s, <1>o, OwedStaysOne DEF StopTimer, ResetTimer
  <2>4. ASSUME NEW t \in Timers, NEW n, SetRepeatCount(t, n) PROVE OwedOne'
    <3>1. removeJob(t) \/ UNCHANGED timerVars
      BY <2>4 DEF SetRepeatCount
    <3> QED
      BY <2>2, <2>4, <3>1, <1>s, <1>o, OwedStaysOne DEF SetRepeatCount
  <2>5. ASSUME NEW r \in Runners, SetupTimer(r) PROVE OwedOne'
    <3>1. r \notin created /\ runners' = runners \union {r} /\ UNCHANGED <<script, shutdown>>
          /\ script.op = "free"
      BY <2>5 DEF SetupTimer, ScriptFree
    <3>2. Needed' = Needed \union {r} /\ owed[r] = 0
      BY <3>1, NotYetOwed DEF Needed
    <3>3. \E b \in BOOLEAN : AddEvent(r, b)
      BY <2>5 DEF SetupTimer, addTick, addWait
    <3>4. owed'[r] = 1 /\ \A k \in TimedJobs : k # r => owed'[k] = owed[k]
      BY <3>2, <3>3, JobSets, AddEffect
    <3> QED
      BY <3>1, <3>2, <3>4, <1>n DEF OwedOne
  <2>6. ASSUME NEW r \in Runners, ClearInterval(r) PROVE OwedOne'
    <3>1. Needed' \subseteq Needed /\ shutdown' = shutdown /\ owed' = owed
      BY <2>6, <1>o DEF ClearInterval, Needed
    <3> QED
      BY <3>1, OwedStaysOne
  <2> QED
    BY <1>7, <2>1, <2>3, <2>4, <2>5, <2>6 DEF ScriptStep
<1>8. CASE EndStep
  <2>1. ASSUME NEW r \in Runners, DropRunner(r) PROVE OwedOne'
    <3>1. Needed' = runners \ {r} /\ shutdown' = shutdown
      BY <2>1, <1>f DEF DropRunner
    <3>2. \A k \in TimedJobs : k # r => owed'[k] = owed[k]
      BY <2>1, RemoveEffect, JobSets DEF DropRunner
    <3> QED
      BY <3>1, <3>2, <1>n, OwedStaysOne
  <2> QED
    BY <1>8, <2>1 DEF EndStep, Shutdown, OwedOne
<1> QED
  BY <1>1, <1>2, <1>3, <1>4, <1>5, <1>6, <1>7, <1>8 DEF Next

(***************************************************************************)
(* clearInterval and a timeout that ends keep out of each other's way.     *)
(***************************************************************************)
LEMMA LeftStays ==
  ASSUME NEW r, Left(r), Needed' \subseteq Needed, created \subseteq created'
  PROVE  Left(r)'
BY DEF Left

\* Steps that leave the runners, and what the scripts are doing, alone.
LEMMA ClearingSame ==
  ASSUME Clearing, UNCHANGED <<runners, created, finished, script, manager, shutdown>>,
         \A r \in Runners : ~stopMe'[r],
         \A r \in Timeouts : Ticking(r)' /\ step' \in {"final", "return"} /\ ~shutdown
                                => Ticking(r) /\ step \in {"final", "return"},
         worker' # "ticking" => step' = "begin"
  PROVE  Clearing'
<1>1. \A r : Left(r)' = Left(r)
  BY DEF Left, Needed
<1> QED
  BY <1>1 DEF Clearing

LEMMA ClearingKept ==
  ASSUME TimerInv, ScriptTypes, JobKinds, Clearing, Next
  PROVE  Clearing'
<1> USE DEF flashVars, runnerVars, scriptVars
<1>d. /\ Timers \intersect Runners = {} /\ Timeouts \subseteq Runners /\ Intervals \intersect Timeouts = {}
      /\ runners \subseteq created /\ created \subseteq Runners
  BY ScriptAssumption DEF Runners, ScriptTypes
<1>c. ASSUME NEW r \in Runners, Ticking(r) PROVE r \in created
  BY <1>c DEF Ticking, JobKinds, Fits
<1>s. UNCHANGED timerVars => UNCHANGED <<stopMe, worker, running>> /\ \A j : Ticking(j)' = Ticking(j)
  BY DEF timerVars, workerVars, Ticking
<1>r. ASSUME NEW j \in TimedJobs, removeJob(j)
      PROVE  UNCHANGED <<stopMe, worker, running>> /\ \A k : Ticking(k)' = Ticking(k)
  BY <1>r DEF removeJob, workerVars, Ticking
<1>f. ASSUME NEW t \in Timers, NEW b, SetStopMe(t, b)
      PROVE  /\ UNCHANGED <<worker, running>> /\ \A k : Ticking(k)' = Ticking(k)
             /\ \A r \in Runners : stopMe'[r] = stopMe[r]
  BY <1>f, <1>d, InWords DEF SetStopMe, workerVars, Ticking
<1>1. CASE WorkerStep
  <2>1. UNCHANGED <<stopMe, scriptVars>> /\ worker # "ticking"
    BY <1>1, WorkerEffect DEF WorkerStep
  <2>2. step' = "begin"
    BY <2>1 DEF Clearing
  <2> QED
    BY <2>1, <2>2, ClearingSame DEF Clearing
<1>2. CASE ClockStep \/ OwnerStep
  <2>1. UNCHANGED <<stopMe, worker, running, scriptVars>>
    BY <1>2, AdvanceEffect, OwnerEffect DEF ClockStep, OwnerStep
  <2> QED
    BY <2>1, ClearingSame DEF Clearing, Ticking
<1>3. CASE TickStep
  <2>1. ASSUME NEW t \in Timers, TickTimer(t) PROVE Clearing'
    <3>1. worker = "ticking" /\ UNCHANGED <<stopMe, worker, running>> /\ step' = "count"
      BY <2>1, <1>s DEF TickTimer, Ticking
    <3> QED
      BY <2>1, <3>1, ClearingSame DEF TickTimer, Clearing
  <2>2. ASSUME NEW t \in Timers, CountTick(t) PROVE Clearing'
    <3>1. worker = "ticking" /\ UNCHANGED <<worker, running>> /\ \A r \in Runners : ~Ticking(r)'
      BY <2>2, <1>s, <1>f, <1>d DEF CountTick, Ticking
    <3>2. \A r \in Runners : ~stopMe'[r]
      BY <2>2, <1>s, <1>f DEF CountTick, Clearing
    <3> QED
      BY <2>2, <1>d, <3>1, <3>2, ClearingSame DEF CountTick
  <2>3. ASSUME NEW r \in Runners, TickRunner(r) PROVE Clearing'
    <3>1. worker = "ticking" /\ UNCHANGED <<stopMe, worker, running>>
          /\ (step' = "wait" \/ (step' = "return" /\ shutdown))
      BY <2>3, <1>s DEF TickRunner, Ticking
    <3> QED
      BY <2>3, <3>1, ClearingSame DEF TickRunner, Clearing
  <2>4. ASSUME NEW r \in Runners, CallReturns(r) PROVE Clearing'
    <3>1. /\ worker = "ticking" /\ UNCHANGED <<stopMe, worker, running>>
          /\ step' = "clear" \/ (step' = "final" /\ r \notin Timeouts)
          /\ running.job = r
      BY <2>4, <1>s DEF CallReturns, Ticking
    <3> QED
      BY <2>4, <3>1, ClearingSame DEF CallReturns, Clearing, Ticking
  <2>5. ASSUME NEW r \in Runners, ClearOwn(r) PROVE Clearing'
    <3>1. /\ worker = "ticking" /\ running.job = r /\ UNCHANGED <<stopMe, worker, running>>
          /\ r \in created /\ UNCHANGED <<created, finished, script, manager, shutdown>>
          /\ runners' = runners \ {r} /\ manager = "free"
      BY <2>5, <1>s, <1>r, <1>c, JobSets DEF ClearOwn, Ticking
    <3>2. Needed' = runners \ {r} /\ Needed = runners
      BY <3>1, NeededWhenFree DEF Needed, Clearing
    <3>3. Left(r)' /\ \A k \in Runners : Left(k) => Left(k)'
      BY <3>1, <3>2 DEF Left
    <3> QED
      BY <3>1, <3>3, <1>d DEF Clearing, Ticking
  <2>6. ASSUME NEW r \in Runners, RemoveOwn(r) PROVE Clearing'
    <3>1. /\ worker = "ticking" /\ UNCHANGED <<stopMe, worker, running>> /\ step = "final"
      BY <2>6, <1>s, <1>r, JobSets DEF RemoveOwn, Ticking
    <3> QED
      BY <2>6, <3>1, ClearingSame DEF RemoveOwn, Clearing, Ticking
  <2>7. CASE TickEnds
    <3>1. UNCHANGED stopMe /\ worker' = "top" /\ step' = "begin"
      BY <2>7, TickReturnsEffect DEF TickEnds
    <3> QED
      BY <2>7, <3>1, ClearingSame DEF TickEnds, Clearing
  <2> QED
    BY <1>3, <2>1, <2>2, <2>3, <2>4, <2>5, <2>6, <2>7 DEF TickStep
<1>4. CASE VmHandles
  <2>1. UNCHANGED <<stopMe, worker, running, runners, created, finished, script, manager, shutdown, step>>
    BY <1>4, <1>s DEF VmHandles, HandleTimerEvent, AnswerCall
  <2> QED
    BY <2>1, ClearingSame DEF Clearing, Ticking
<1>5. CASE VmGoesOn
  <2>1. ASSUME NEW t \in Timers, AddTimer(t) PROVE Clearing'
    <3>1. UNCHANGED <<stopMe, worker, running>>
      BY <2>1, JobSets, AddEffect DEF AddTimer, addTick, addWait
    <3>2. /\ UNCHANGED <<runners, created, finished, manager, shutdown, step>>
          /\ script.op = "add" /\ script'.op = "free"
      BY <2>1 DEF AddTimer, Free
    <3>3. \A r : Left(r)' = Left(r)
      BY <3>2 DEF Left, Needed
    <3> QED
      BY <3>1, <3>2, <3>3 DEF Clearing, Ticking
  <2>2. ASSUME NEW r \in Runners, FinishRunner(r) PROVE Clearing'
    <3>1. /\ UNCHANGED <<stopMe, worker, running, runners, created, shutdown, step>>
          /\ script.op = "finish" /\ script'.op = "free" /\ manager' = "free" /\ script.job = r
          /\ finished' = [finished EXCEPT ![r] = TRUE]
      BY <2>2, <1>s DEF FinishRunner, Free
    <3>2. Needed' = runners /\ runners \subseteq Needed /\ r \in created /\ r \notin runners
      BY <3>1 DEF Needed, Clearing
    <3>3. Left(r)' /\ \A k \in Runners : Left(k) => Left(k)'
      BY <3>1, <3>2 DEF Left
    <3>4. \A k \in Runners : finished'[k] => finished[k] \/ k = r
      BY <3>1 DEF ScriptTypes
    <3> QED
      BY <3>1, <3>3, <3>4, <1>d DEF Clearing, Ticking
  <2>3. ASSUME NEW r \in Runners, RemoveRunner(r) PROVE Clearing'
    <3>1. /\ UNCHANGED <<stopMe, worker, running, runners, created, finished, shutdown, step>>
          /\ script.op = "remove" /\ script'.op = "free" /\ manager' = "free"
      BY <2>3, <1>r, JobSets DEF RemoveRunner, Free
    <3>2. \A k : Left(k)' = Left(k)
      BY <3>1 DEF Left, Needed
    <3> QED
      BY <3>1, <3>2 DEF Clearing, Ticking
  <2> QED
    BY <1>5, <2>1, <2>2, <2>3 DEF VmGoesOn
<1>6. CASE ScriptStep
  <2>1. ASSUME NEW t \in Timers, StartTimer(t) PROVE Clearing'
    <3>1. /\ UNCHANGED <<worker, running, runners, created, finished, manager, shutdown, step>>
          /\ script.op = "free" /\ script'.op = "add" /\ \A r \in Runners : ~stopMe'[r]
      BY <2>1, <1>f DEF StartTimer, ScriptFree, Clearing
    <3>2. \A k : Left(k)' = Left(k)
      BY <3>1 DEF Left, Needed
    <3> QED
      BY <3>1, <3>2, <1>d DEF Clearing, Ticking
  <2>2. ASSUME NEW t \in Timers, NEW n, StopTimer(t) \/ ResetTimer(t) \/ SetRepeatCount(t, n) PROVE Clearing'
    <3>1. removeJob(t) \/ UNCHANGED timerVars
      BY <2>2 DEF StopTimer, ResetTimer, SetRepeatCount
    <3>2. UNCHANGED <<stopMe, worker, running, runners, created, finished, script, manager, shutdown, step>>
      BY <2>2, <3>1, <1>s, <1>r, JobSets DEF StopTimer, ResetTimer, SetRepeatCount
    <3> QED
      BY <3>2, ClearingSame DEF Clearing, Ticking
  <2>3. ASSUME NEW r \in Runners, SetupTimer(r) PROVE Clearing'
    <3>1. UNCHANGED <<stopMe, worker, running>>
      BY <2>3, JobSets, AddEffect DEF SetupTimer, addTick, addWait
    <3>2. /\ UNCHANGED <<finished, script, manager, shutdown, step>> /\ manager = "free"
          /\ r \notin created /\ runners' = runners \union {r} /\ created' = created \union {r}
      BY <2>3 DEF SetupTimer
    <3>3. \A k : Left(k) => Left(k)'
      BY <3>2 DEF Left, Needed
    <3> QED
      BY <3>1, <3>2, <3>3, <1>d DEF Clearing, Ticking
  <2>4. ASSUME NEW r \in Runners, ClearInterval(r) PROVE Clearing'
    <3>1. /\ UNCHANGED <<stopMe, worker, running, finished, created, shutdown, step>>
          /\ r \in runners /\ runners' = runners \ {r} /\ manager' = "script"
          /\ script.op = "free" /\ script'.job = r /\ script'.op \in {"finish", "remove"}
      BY <2>4, <1>s DEF ClearInterval, ScriptFree
    <3>2. \A k : Left(k) => Left(k)'
      BY <3>1, <1>d DEF Left, Needed
    <3> QED
      BY <3>1, <3>2, <1>d DEF Clearing, Ticking
  <2> QED
    BY <1>6, <2>1, <2>2, <2>3, <2>4 DEF ScriptStep
<1>7. CASE EndStep
  <2>1. CASE Shutdown
    <3>1. UNCHANGED <<stopMe, worker, running, runners, created, finished, script, manager, step>> /\ shutdown'
      BY <2>1, <1>s DEF Shutdown
    <3>2. \A k : Left(k)' = Left(k)
      BY <3>1 DEF Left, Needed
    <3> QED
      BY <3>1, <3>2, <1>d DEF Clearing, Ticking
  <2>2. ASSUME NEW r \in Runners, DropRunner(r) PROVE Clearing'
    <3>1. /\ UNCHANGED <<stopMe, worker, running, created, finished, script, manager, shutdown, step>>
          /\ runners' = runners \ {r} /\ script.op = "free"
      BY <2>2, <1>r, JobSets DEF DropRunner
    <3>2. \A k : Left(k) => Left(k)'
      BY <3>1 DEF Left, Needed
    <3> QED
      BY <3>1, <3>2, <1>d DEF Clearing, Ticking
  <2> QED
    BY <1>7, <2>1, <2>2 DEF EndStep
<1> QED
  BY <1>1, <1>2, <1>3, <1>4, <1>5, <1>6, <1>7 DEF Next

(***************************************************************************)
(* A Timer that says it is running is scheduled.                           *)
(***************************************************************************)
\* A step that takes no event of the Timer and does not end its last tick.
LEMMA ScheduledStays ==
  ASSUME NEW t \in Timers, Scheduled(t),
         Claims(t)' => Claims(t) /\ repeatCount'[t] = repeatCount[t],
         \A e \in Pending : timing[e].job = t => Stays(e),
         Ticking(t) /\ step \in {"begin", "count"} /\ repeatCount[t] = 1 /\ Claims(t)'
            => Ticking(t)' /\ step' \in {"begin", "count"}
  PROVE  Scheduled(t)'
<1> SUFFICES ASSUME Claims(t)'
             PROVE  \/ \E e \in Pending' : timing'[e].job = t /\ (timing'[e].tick \/ repeatCount'[t] = 1)
                    \/ Ticking(t)' /\ step' \in {"begin", "count"} /\ repeatCount'[t] = 1
  BY DEF Scheduled
<1>1. CASE \E e \in Pending : timing[e].job = t /\ (timing[e].tick \/ repeatCount[t] = 1)
  BY <1>1 DEF Stays
<1> QED
  BY <1>1 DEF Scheduled

\* Steps of the timer thread and of runners.
LEMMA ScheduledSame ==
  ASSUME NEW t \in Timers, Scheduled(t),
         UNCHANGED <<flashVars, stopMe>>, owner # "deleted",
         script = [op |-> "add", job |-> t] => script' = script,
         \A e \in Pending : timing[e].job = t => Stays(e),
         Ticking(t) /\ step \in {"begin", "count"} => Ticking(t)' /\ step' \in {"begin", "count"}
  PROVE  Scheduled(t)'
BY ScheduledStays DEF Claims, flashVars

LEMMA WorkerSchedules ==
  ASSUME TimerInv, NEW t \in Timers, Scheduled(t), Clearing, WorkerStep
  PROVE  Scheduled(t)'
<1>1. /\ UNCHANGED <<scriptVars, stopMe, owner>> /\ worker # "ticking" /\ step = "begin"
  BY WorkerEffect DEF WorkerStep, Clearing
<1>2. UNCHANGED <<flashVars, script, step>>
  BY <1>1 DEF scriptVars
<1>3. Claims(t)' => Claims(t) /\ ~stopMe[t]
  BY <1>1, <1>2 DEF Claims, flashVars
<1>4. CASE \A e \in Pending : stopMe[timing[e].job] \/ Stays(e)
  BY <1>1, <1>2, <1>3, <1>4 DEF Scheduled, Ticking, Stays, flashVars
<1>5. ASSUME NEW e \in Pending, Begun(e) PROVE Scheduled(t)'
  <2>1. CASE timing[e].job = t /\ ~timing[e].tick /\ repeatCount[t] = 1
    BY <1>1, <1>2, <1>5, <2>1 DEF Scheduled, Ticking, Begun, flashVars
  <2>2. CASE ~(timing[e].job = t /\ ~timing[e].tick /\ repeatCount[t] = 1)
    BY <1>1, <1>2, <1>3, <1>5, <2>2 DEF Scheduled, Ticking, Begun, Stays, flashVars
  <2> QED
    BY <2>1, <2>2
<1> QED
  BY <1>4, <1>5, WorkerEffect DEF WorkerStep

\* timer events: a tick counts, and the last of repeatCount stops the Timer.
LEMMA CountSchedules ==
  ASSUME TimerInv, ScriptTypes, NEW t \in Timers, Scheduled(t), NEW u \in Timers, CountTick(u)
  PROVE  Scheduled(t)'
<1>1. /\ UNCHANGED <<active, repeatCount, rescheduled, script>>
      /\ UNCHANGED timerVars \/ SetStopMe(u, TRUE)
      /\ Ticking(u)
  BY DEF CountTick
<1>2. UNCHANGED <<pendingEvents, timing, owed, worker, running, owner>>
  BY <1>1 DEF timerVars, SetStopMe, listVars, workerVars
<1>3. \A e \in Pending : Stays(e)
  BY <1>2, SameEffect
<1>4. stopMe'[t] = stopMe[t] \/ stopMe'[t]
  BY <1>1, JobSets DEF timerVars, SetStopMe, TimerInv, TimerTypeOK
<1>5. Claims(t)' => Claims(t)
  BY <1>1, <1>2, <1>4 DEF Claims
<1>6. Ticking(t) /\ repeatCount[t] = 1 => stopMe'[t]
  <2>1. Ticking(t) => t = u
    BY <1>1 DEF Ticking
  <2>2. t = u /\ repeatCount[t] = 1 => SetStopMe(t, TRUE)
    BY CountedType DEF CountTick
  <2>3. t \in TimedJobs /\ stopMe \in [TimedJobs -> BOOLEAN]
    BY JobSets DEF TimerInv, TimerTypeOK
  <2> QED
    BY <2>1, <2>2, <2>3 DEF SetStopMe
<1> QED
  BY <1>1, <1>3, <1>5, <1>6, ScheduledStays DEF Claims

\* Timer::start has added its event: one that repeats, or a single shot.
LEMMA AddSchedules ==
  ASSUME TimerInv, NEW t \in Timers, Scheduled(t), NEW u \in Timers, AddTimer(u)
  PROVE  Scheduled(t)'
<1>1. AddEvent(u, repeatCount[u] # 1)
  <2>1. CASE repeatCount[u] = 1
    BY <2>1 DEF AddTimer, addWait
  <2>2. CASE repeatCount[u] # 1
    BY <2>2 DEF AddTimer, addTick
  <2> QED
    BY <2>1, <2>2
<1>2. (repeatCount[u] # 1) \in BOOLEAN /\ u \in TimedJobs
  BY JobSets
<1> DEFINE b == repeatCount[u] # 1
<1>3. b \in BOOLEAN /\ AddEvent(u, b)
  BY <1>1, <1>2
<1> HIDE DEF b
<1>4. PICK e \in Events :
            /\ e \notin Alive /\ Pending' = Pending \union {e}
            /\ timing'[e].job = u /\ timing'[e].tick = b
            /\ \A x \in Events : x # e => timing'[x] = timing[x]
            /\ UNCHANGED <<stopMe, worker, running, owner>>
  BY <1>2, <1>3, AddEffect
<1>5. \A x \in Pending : Stays(x)
  BY <1>4, InWords DEF Stays, Alive
<1>6. UNCHANGED <<flashVars, step>> /\ script = [op |-> "add", job |-> u] /\ script' = Free
  BY DEF AddTimer
<1>7. CASE t = u
  BY <1>4, <1>6, <1>7 DEF Scheduled, flashVars, b
<1>8. CASE t # u
  <2>1. Claims(t)' => Claims(t) /\ repeatCount'[t] = repeatCount[t]
    BY <1>4, <1>6, <1>8 DEF Claims, flashVars
  <2>2. Ticking(t)' = Ticking(t)
    BY <1>4 DEF Ticking
  <2> QED
    BY <1>5, <1>6, <2>1, <2>2, ScheduledStays
<1> QED
  BY <1>7, <1>8

LEMMA ScheduledKept ==
  ASSUME TimerInv, ScriptTypes, JobKinds, Clearing, Next, NEW t \in Timers, Scheduled(t)
  PROVE  Scheduled(t)'
<1>d. t \notin Runners /\ t \in TimedJobs
  BY ScriptAssumption, JobSets
<1>s. UNCHANGED timerVars => /\ UNCHANGED <<stopMe, owner>> /\ (\A e \in Pending : Stays(e))
                             /\ \A j : Ticking(j)' = Ticking(j)
  BY SameEffect DEF timerVars, listVars, workerVars, Ticking
<1>r. ASSUME NEW j \in TimedJobs, removeJob(j)
      PROVE  /\ UNCHANGED <<stopMe, owner>> /\ owner # "deleted" /\ \A k : Ticking(k)' = Ticking(k)
             /\ j # t => \A e \in Pending : timing[e].job = t => Stays(e)
  BY <1>r, RemoveEffect DEF removeJob, Unlocked, Ticking
<1>o. owner # "deleted" \/ (UNCHANGED owner => Scheduled(t)')
  BY DEF Scheduled, Claims
<1>1. CASE WorkerStep
  BY <1>1, WorkerSchedules
<1>2. CASE ClockStep
  BY <1>2, <1>o, AdvanceEffect, ScheduledSame DEF ClockStep, scriptVars, Ticking
<1>3. CASE OwnerStep
  <2>1. CASE owner' = "deleted"
    BY <2>1 DEF Scheduled, Claims
  <2>2. CASE owner' # "deleted"
    BY <1>3, <2>2, OwnerEffect, ScheduledSame DEF OwnerStep, scriptVars, Ticking
  <2> QED
    BY <2>1, <2>2
<1>4. CASE TickStep
  <2>1. ASSUME NEW u \in Timers, TickTimer(u) PROVE Scheduled(t)'
    <3>1. Ticking(u) /\ step' = "count" /\ UNCHANGED <<active, repeatCount, rescheduled, script, timerVars>>
      BY <2>1 DEF TickTimer
    <3>2. Claims(t)' => Claims(t) /\ repeatCount'[t] = repeatCount[t]
      BY <3>1, <1>s DEF Claims
    <3> QED
      BY <3>1, <3>2, <1>s, ScheduledStays
  <2>2. ASSUME NEW u \in Timers, CountTick(u) PROVE Scheduled(t)'
    BY <2>2, CountSchedules
  <2>3. ASSUME NEW r \in Runners, TickRunner(r) \/ CallReturns(r) \/ ClearOwn(r) \/ RemoveOwn(r)
        PROVE  Scheduled(t)'
    <3>1. r # t /\ ~Ticking(t) /\ UNCHANGED <<flashVars, script>> /\ (UNCHANGED timerVars \/ removeJob(r))
      BY <2>3, <1>d DEF TickRunner, CallReturns, ClearOwn, RemoveOwn, Ticking, runnerVars
    <3> QED
      BY <3>1, <1>s, <1>r, <1>o, JobSets, ScheduledSame
  <2>4. CASE TickEnds
    <3>1. step = "return" /\ UNCHANGED <<flashVars, script>>
      BY <2>4 DEF TickEnds
    <3>2. UNCHANGED <<stopMe, owner>> /\ \A e \in Pending : Stays(e)
      BY <2>4, TickReturnsEffect DEF TickEnds
    <3> QED
      BY <3>1, <3>2, <1>o, ScheduledSame
  <2> QED
    BY <1>4, <2>1, <2>2, <2>3, <2>4 DEF TickStep
<1>5. CASE VmHandles
  <2>1. ASSUME NEW u \in Timers, HandleTimerEvent(u) PROVE Scheduled(t)'
    <3>1. UNCHANGED <<timerVars, repeatCount, rescheduled, script, step>> /\ (active'[t] => active[t])
      BY <2>1 DEF HandleTimerEvent, ScriptTypes
    <3>2. Claims(t)' => Claims(t)
      BY <3>1, <1>s DEF Claims
    <3> QED
      BY <3>1, <3>2, <1>s, ScheduledStays
  <2>2. ASSUME NEW r \in Runners, AnswerCall(r) PROVE Scheduled(t)'
    BY <2>2, <1>s, <1>o, ScheduledSame DEF AnswerCall
  <2> QED
    BY <1>5, <2>1, <2>2 DEF VmHandles
<1>6. CASE VmGoesOn
  <2>1. ASSUME NEW u \in Timers, AddTimer(u) PROVE Scheduled(t)'
    BY <2>1, AddSchedules
  <2>2. ASSUME NEW r \in Runners, FinishRunner(r) \/ RemoveRunner(r) PROVE Scheduled(t)'
    <3>1. r # t /\ script # [op |-> "add", job |-> t] /\ UNCHANGED <<flashVars, step>>
          /\ (UNCHANGED timerVars \/ removeJob(r))
      BY <2>2, <1>d DEF FinishRunner, RemoveRunner
    <3> QED
      BY <3>1, <1>s, <1>r, <1>o, JobSets, ScheduledSame DEF Claims
  <2> QED
    BY <1>6, <2>1, <2>2 DEF VmGoesOn
<1>7. CASE ScriptStep
  <2>1. ASSUME NEW u \in Timers, StartTimer(u) PROVE Scheduled(t)'
    <3>1. /\ script' = [op |-> "add", job |-> u] /\ script.op = "free" /\ UNCHANGED <<repeatCount, step>>
          /\ UNCHANGED <<pendingEvents, timing, owed, worker, running, owner>>
      BY <2>1 DEF StartTimer, ScriptFree, SetStopMe, listVars, workerVars
    <3>2. CASE u = t
      BY <3>1, <3>2 DEF Scheduled, Claims
    <3>3. CASE u # t
      <4>1. active'[t] = active[t] /\ rescheduled'[t] = rescheduled[t] /\ stopMe'[t] = stopMe[t]
        BY <2>1, <3>3, <1>d DEF StartTimer, SetStopMe, ScriptTypes, TimerInv, TimerTypeOK
      <4>2. Claims(t)' => Claims(t)
        BY <3>1, <4>1 DEF Claims
      <4> QED
        BY <3>1, <4>2, SameEffect, ScheduledStays DEF Ticking
    <3> QED
      BY <3>2, <3>3
  <2>2. ASSUME NEW u \in Timers, NEW n, StopTimer(u) \/ ResetTimer(u) \/ SetRepeatCount(u, n)
        PROVE  Scheduled(t)'
    <3>1. /\ UNCHANGED <<script, step>> /\ (UNCHANGED timerVars \/ (removeJob(u) /\ ~active'[u]))
          /\ active'[t] => active[t]
          /\ ~rescheduled'[t] => ~rescheduled[t] /\ repeatCount'[t] = repeatCount[t]
      <4>1. CASE StopTimer(u)
        BY <4>1 DEF StopTimer, ScriptTypes
      <4>2. CASE ResetTimer(u)
        BY <4>2 DEF ResetTimer, ScriptTypes
      <4>3. CASE SetRepeatCount(u, n)
        BY <4>3 DEF SetRepeatCount, ScriptTypes
      <4> QED
        BY <2>2, <4>1, <4>2, <4>3
    <3>2. Claims(t)' => Claims(t) /\ repeatCount'[t] = repeatCount[t] /\ (UNCHANGED timerVars \/ u # t)
      BY <3>1, <1>s, <1>r, JobSets DEF Claims
    <3>3. CASE ~Claims(t)'
      BY <3>3 DEF Scheduled
    <3>4. CASE Claims(t)'
      BY <3>1, <3>2, <3>4, <1>s, <1>r, JobSets, ScheduledStays
    <3> QED
      BY <3>3, <3>4
  <2>3. ASSUME NEW r \in Runners, SetupTimer(r) PROVE Scheduled(t)'
    <3>1. \E b \in BOOLEAN : AddEvent(r, b)
      BY <2>3 DEF SetupTimer, addTick, addWait
    <3>2. UNCHANGED <<flashVars, script, step>>
      BY <2>3 DEF SetupTimer
    <3>3. UNCHANGED <<stopMe, worker, running, owner>> /\ \A x \in Pending : Stays(x)
      BY <3>1, JobSets, AddEffect, InWords DEF Stays, Alive
    <3> QED
      BY <3>2, <3>3, <1>o, ScheduledSame DEF Ticking
  <2>4. ASSUME NEW r \in Runners, ClearInterval(r) PROVE Scheduled(t)'
    <3>1. UNCHANGED <<flashVars, timerVars, step>> /\ script.op = "free"
      BY <2>4 DEF ClearInterval, ScriptFree
    <3> QED
      BY <3>1, <1>s, <1>o, ScheduledSame
  <2> QED
    BY <1>7, <2>1, <2>2, <2>3, <2>4 DEF ScriptStep
<1>8. CASE EndStep
  <2>1. CASE Shutdown
    BY <2>1, <1>s, <1>o, ScheduledSame DEF Shutdown
  <2>2. ASSUME NEW r \in Runners, DropRunner(r) PROVE Scheduled(t)'
    BY <2>2, <1>r, <1>d, JobSets, ScheduledSame DEF DropRunner
  <2> QED
    BY <1>8, <2>1, <2>2 DEF EndStep
<1> QED
  BY <1>1, <1>2, <1>3, <1>4, <1>5, <1>6, <1>7, <1>8 DEF Next

(***************************************************************************)
(* The theorems.                                                           *)
(***************************************************************************)
LEMMA ScriptInitInv == Init => ScriptInv
<1> SUFFICES ASSUME Init PROVE ScriptInv
  OBVIOUS
<1>1. TimerInv
  BY TimerInitInv DEF Init
<1>2. ScriptTypes
  <2>1. Free \in [op : {"free", "add", "finish", "remove"}, job : TimedJobs]
    BY JobsAssumption DEF Free, SomeJob
  <2>2. posted \in [Timers -> 0..MaxPosted] /\ currentCount \in [Timers -> Nat]
    BY ScriptAssumption DEF Init
  <2>3. active \in [Timers -> BOOLEAN] /\ rescheduled \in [Timers -> BOOLEAN]
    BY DEF Init
  <2>4. busy \in [Runners -> BOOLEAN] /\ finished \in [Runners -> BOOLEAN]
    BY DEF Init
  <2>5. call \in [Runners -> {"none", "queued", "done"}] /\ late \in [Runners -> 0..2]
    BY DEF Init
  <2>6. repeatCount \in [Timers -> RepeatCounts] /\ step = "begin" /\ script = Free
        /\ manager = "free" /\ shutdown = FALSE /\ scene \in Scenes /\ runners = {} /\ created = {}
    BY DEF Init
  <2> QED
    BY <2>1, <2>2, <2>3, <2>4, <2>5, <2>6 DEF ScriptTypes
<1>3. Alive = {} /\ worker = "top" /\ \A j \in TimedJobs : ~stopMe[j]
  BY DEF Init, TimerInit, Alive, Pending, InFlight
<1>4. JobKinds
  BY <1>3 DEF JobKinds
<1>5. Needed = {}
  BY DEF Init, Needed, Free
<1>6. OwedOne
  BY <1>5 DEF OwedOne
<1>7. Clearing
  BY <1>3, <1>5, JobSets DEF Init, Clearing, Free, Ticking, Runners
<1>8. \A t \in Timers : Scheduled(t)
  BY DEF Init, Scheduled, Claims
<1> QED
  BY <1>1, <1>2, <1>4, <1>6, <1>7, <1>8 DEF ScriptInv

LEMMA ScriptStepInv == ScriptInv /\ [Next]_vars => ScriptInv'
<1> SUFFICES ASSUME ScriptInv, [Next]_vars PROVE ScriptInv'
  OBVIOUS
<1>1. TimerInv'
  BY StepMaps, TimerStepInv DEF ScriptInv
<1>2. CASE Next
  BY <1>1, <1>2, ScriptTypesKept, JobKindsKept, OwedOneKept, ClearingKept, ScheduledKept DEF ScriptInv
<1>3. CASE UNCHANGED vars
  <2>1. UNCHANGED <<pendingEvents, timing, owed, stopMe, worker, running, owner>> /\ UNCHANGED scriptVars
    BY <1>3 DEF vars, timerVars, listVars, workerVars
  <2> USE DEF scriptVars, flashVars, runnerVars
  <2>2. Shrinks /\ \A e \in Pending : Stays(e)
    BY <2>1, SameEffect
  <2>3. ScriptTypes' /\ Needed' = Needed
    BY <2>1 DEF ScriptInv, ScriptTypes, Needed
  <2>4. JobKinds'
    BY <2>1, <2>2, KindsShrink DEF ScriptInv
  <2>5. OwedOne' /\ Clearing'
    BY <2>1, <2>3 DEF ScriptInv, OwedOne, Clearing, Left, Ticking
  <2>6. \A t \in Timers : Scheduled(t)'
    BY <2>1, <2>2, ScheduledStays DEF ScriptInv, Claims, Ticking
  <2> QED
    BY <1>1, <2>3, <2>4, <2>5, <2>6 DEF ScriptInv
<1> QED
  BY <1>2, <1>3

\* The invariant of the scripts' timers, in every state the VM thread, the
\* timer thread and the thread that ends them can reach.
THEOREM ScriptInvHolds == Spec => []ScriptInv
BY ScriptInitInv, ScriptStepInv, PTL DEF Spec

\* clearInterval and clearTimeout find an IntervalRunner that has not deleted
\* itself: until the shutdown a runner of IntervalManager::runners, and one
\* that is about to be told to finish, is owed its tickFence
\* (IntervalManager.cpp, IntervalRunner.cpp).
THEOREM ClearFindsItsRunner == Spec => []RunnerExists
<1>1. ScriptInv => RunnerExists
  <2> SUFFICES ASSUME ScriptInv, ~shutdown
               PROVE  (\A r \in runners : owed[r] = 1) /\ (script.op = "finish" => owed[script.job] = 1)
    BY DEF RunnerExists
  <2>1. ASSUME script.op = "finish" PROVE script.job \in Needed
    <3>1. script.job \in Runners
      BY <2>1 DEF ScriptInv, Clearing, ScriptTypes
    <3>2. script = [op |-> "finish", job |-> script.job]
      BY <2>1 DEF ScriptInv, ScriptTypes
    <3> QED
      BY <3>1, <3>2 DEF Needed
  <2> QED
    BY <2>1 DEF ScriptInv, OwedOne, Needed
<1> QED
  BY <1>1, ScriptInvHolds, PTL

\* A Timer that says it is running, was not told to end and kept the repeat
\* count it was started with has an event in the list or is in its tick
\* (Timer.cpp): it does not fall silent.
THEOREM RunningTimerTicks == Spec => []RunningTimerScheduled
<1>1. ScriptInv => RunningTimerScheduled
  BY DEF ScriptInv, Scheduled, Claims, RunningTimerScheduled, ScriptFree, Listed
<1> QED
  BY <1>1, ScriptInvHolds, PTL

\* The types of the timers and runners of scripts and of the timer thread.
THEOREM ScriptTypeCorrect == Spec => []TypeOK
<1>1. ScriptInv => TypeOK
  BY DEF ScriptInv, ScriptTypes, TimerInv, TypeOK
<1> QED
  BY <1>1, ScriptInvHolds, PTL
(***************************************************************************)
(* A runner is set up once, deleted once, and calls its function at most   *)
(* once more after it was cleared.                                         *)
(***************************************************************************)
\* The runner has no event in the list, and gets none in a step.
Unlisted(r) == \A e \in Pending : timing[e].job # r
NoNew(r) == \A e \in Pending' : timing'[e].job = r => e \in Pending /\ timing[e].job = r

\* A script, or the timeout itself, is done with the runner.
GivenUp(r) == r \in created /\ r \notin runners /\ ~(manager = "script" /\ script.job = r)

\* The runner begins no tick any more, or will see that it has finished.
Out(r)     == Unlisted(r) /\ ~(Ticking(r) /\ step = "begin")
Leaving(r) == finished[r] /\ Ticking(r) /\ step \in {"wait", "clear", "final"}

LastCall(r) ==
    /\ late[r] > 0 => late[r] = 1 /\ GivenUp(r) /\ (Out(r) \/ Leaving(r))
    /\ GivenUp(r) => finished[r] \/ Unlisted(r)
RunnerInv(r) == owed[r] <= 1 /\ LastCall(r)

LEMMA OwedShrinks ==
  ASSUME TimerInv, TimerInv', Shrinks, NEW k \in TimedJobs
  PROVE  owed'[k] <= owed[k]
<1> DEFINE S == {e \in Alive : timing[e].job = k}
           T == {e \in Alive' : timing'[e].job = k}
<1>1. owed[k] = Cardinality(S) /\ owed'[k] = Cardinality(T)
  BY DEF TimerInv, OwedExact
<1>2. T \in SUBSET S
  BY DEF Shrinks
<1>3. IsFiniteSet(S)
  BY InWords, EventsAssumption, FS_Subset
<1> HIDE DEF S, T
<1> QED
  BY <1>1, <1>2, <1>3, FS_Subset

\* A step that only takes events, while the worker stays where it is.
LEMMA TakesOnly ==
  ASSUME TimerInv', Shrinks, UNCHANGED <<worker, running>>, NEW r
  PROVE  NoNew(r)
<1> SUFFICES ASSUME NEW e \in Pending', timing'[e].job = r
             PROVE  e \in Pending /\ timing[e].job = r
  BY DEF NoNew
<1>1. InFlight' = InFlight /\ e \notin InFlight'
  BY DEF InFlight, TimerInv, EventOnce
<1>2. e \in Alive' /\ e \in Alive /\ timing'[e].job = timing[e].job
  BY DEF Alive, Shrinks
<1> QED
  BY <1>1, <1>2 DEF Alive

LEMMA RemovedAlone ==
  ASSUME TimerInv, TimerInv', NEW r \in TimedJobs, owed[r] <= 1, removeJob(r)
  PROVE  Unlisted(r)'
<1>1. CASE ~Listed(r) /\ UNCHANGED <<listVars, newEvent>>
  BY <1>1 DEF Unlisted, Listed, Pending, listVars
<1>2. CASE \E i \in 1..Len(pendingEvents) : RemoveFirstOf(r, i)
  <2>1. owed' = [owed EXCEPT ![r] = @ - 1]
    BY <1>2 DEF RemoveFirstOf, FenceAndDelete, IsFirstOf
  <2>2. owed'[r] <= 0
    BY <2>1, InWords
  <2> DEFINE T == {e \in Alive' : timing'[e].job = r}
  <2>3. owed'[r] = Cardinality(T) /\ IsFiniteSet(T)
    <3>1. Alive' \in SUBSET Events
      <4>1. pendingEvents' \in Seq(Events) /\ InFlight' \in SUBSET Events
        BY DEF TimerInv, TimerTypeOK, InFlight
      <4>2. Pending' \in SUBSET Events
        BY <4>1 DEF Pending
      <4> QED
        BY <4>1, <4>2 DEF Alive
    <3>2. owed'[r] = Cardinality(T)
      BY DEF TimerInv, OwedExact
    <3> QED
      BY <3>1, <3>2, EventsAssumption, FS_Subset
  <2> HIDE DEF T
  <2>4. Cardinality(T) = 0
    BY <2>2, <2>3, FS_CardinalityType
  <2>5. T = {}
    BY <2>3, <2>4, FS_EmptySet
  <2> QED
    BY <2>5 DEF T, Unlisted, Alive
<1> QED
  BY <1>1, <1>2 DEF removeJob

\* What a step does to the events of a runner: it takes some, or sets it up.
\* A tick begins with an event of the list.
Taken(r) ==
    /\ owed'[r] <= owed[r] /\ NoNew(r)
    /\ Ticking(r)' /\ step' = "begin" => (Ticking(r) /\ step = "begin") \/ ~Unlisted(r)

LEMMA TakenSame ==
  ASSUME ScriptInv, NEW r \in Runners, UNCHANGED <<pendingEvents, timing, owed, worker, running>>,
         step' = "begin" => step = "begin"
  PROVE  Taken(r)
<1>1. owed[r] \in Int /\ Pending' = Pending
  BY InWords, JobSets DEF ScriptInv, Pending
<1>2. Ticking(r)' = Ticking(r)
  BY DEF Ticking
<1> QED
  BY <1>1, <1>2 DEF Taken, NoNew

LEMMA TakenRemoved ==
  ASSUME ScriptInv, TimerInv', NEW r \in Runners, NEW j \in TimedJobs, removeJob(j),
         step' = "begin" => step = "begin"
  PROVE  Taken(r)
<1>1. Shrinks /\ UNCHANGED <<worker, running>>
  BY RemoveEffect DEF ScriptInv
<1>2. NoNew(r) /\ owed'[r] <= owed[r]
  BY <1>1, TakesOnly, OwedShrinks, JobSets DEF ScriptInv
<1>3. Ticking(r)' = Ticking(r)
  BY <1>1 DEF Ticking
<1> QED
  BY <1>2, <1>3 DEF Taken

LEMMA TakenAdded ==
  ASSUME ScriptInv, NEW r \in Runners, NEW j \in TimedJobs, j # r, NEW b \in BOOLEAN, AddEvent(j, b),
         step' = step
  PROVE  Taken(r)
<1>1. PICK e \in Events :
            /\ e \notin Alive /\ Pending' = Pending \union {e}
            /\ timing'[e].job = j
            /\ \A x \in Events : x # e => timing'[x] = timing[x]
            /\ \A k \in TimedJobs : k # j => owed'[k] = owed[k]
            /\ UNCHANGED <<worker, running>>
  BY AddEffect DEF ScriptInv
<1>2. owed'[r] = owed[r] /\ owed[r] \in Int /\ Pending \in SUBSET Events
  BY <1>1, JobSets, InWords DEF ScriptInv
<1>3. Ticking(r)' = Ticking(r)
  BY <1>1 DEF Ticking
<1>4. NoNew(r)
  BY <1>1, <1>2 DEF NoNew
<1> QED
  BY <1>2, <1>3, <1>4 DEF Taken

LEMMA TakenWorker ==
  ASSUME ScriptInv, TimerInv', NEW r \in Runners, Worker \/ TickReturns \/ Advance \/ Owner,
         step' = "begin" => step = "begin" \/ TickReturns
  PROVE  Taken(r)
<1>1. CASE Worker
  <2>1. worker # "ticking" /\ r \in TimedJobs /\ ~stopMe[r] /\ Pending = Alive
    BY <1>1, WorkerEffect, JobSets DEF ScriptInv, Clearing, Alive, InFlight
  <2>2. CASE worker' # "ticking" /\ Shrinks
    <3>1. NoNew(r)
      BY <2>1, <2>2 DEF NoNew, Shrinks, Alive
    <3>2. owed'[r] <= owed[r]
      BY <2>1, <2>2, OwedShrinks DEF ScriptInv
    <3> QED
      BY <3>1, <3>2, <2>2 DEF Taken, Ticking
  <2>3. CASE \E e \in Pending : Begun(e)
    <3>1. PICK e \in Pending : Begun(e)
      BY <2>3
    <3>2. Alive' = Alive /\ Pending' \subseteq Alive' /\ Alive \in SUBSET Events
      BY <3>1, InWords DEF Begun, Alive, ScriptInv
    <3>3. NoNew(r)
      BY <2>1, <3>1, <3>2 DEF NoNew, Begun
    <3>4. owed'[r] = owed[r] /\ owed[r] \in Int
      BY <1>1, <2>1, WorkerEffect, InWords DEF ScriptInv
    <3>5. Ticking(r)' => ~Unlisted(r)
      BY <3>1 DEF Begun, Ticking, Unlisted
    <3> QED
      BY <3>3, <3>4, <3>5 DEF Taken
  <2> QED
    BY <1>1, <2>2, <2>3, WorkerEffect DEF ScriptInv
<1>2. CASE TickReturns
  <2>1. Shrinks /\ worker' = "top" /\ Pending' = Pending
    BY <1>2, TickReturnsEffect DEF ScriptInv, TickReturns, Pending
  <2>2. NoNew(r)
    BY <2>1 DEF NoNew, Shrinks, Alive
  <2>3. owed'[r] <= owed[r]
    BY <2>1, OwedShrinks, JobSets DEF ScriptInv
  <2> QED
    BY <2>1, <2>2, <2>3 DEF Taken, Ticking
<1>3. CASE Advance \/ Owner
  <2>1. Shrinks /\ UNCHANGED <<worker, running>>
    BY <1>3, AdvanceEffect, OwnerEffect DEF ScriptInv
  <2>2. NoNew(r) /\ owed'[r] <= owed[r]
    BY <2>1, TakesOnly, OwedShrinks, JobSets DEF ScriptInv
  <2>3. Ticking(r)' = Ticking(r)
    BY <2>1 DEF Ticking
  <2>4. ~TickReturns
    BY <1>3 DEF TickReturns, Advance, Owner, SetStopped, SignalStop, Join, Destroy, workerVars, ScriptInv, TimerInv, TimerTypeOK
  <2> QED
    BY <2>2, <2>3, <2>4 DEF Taken
<1> QED
  BY <1>1, <1>2, <1>3
\* A step of others: the runner may begin the last tick of its list.
LEMMA RunnerSame ==
  ASSUME ScriptInv, TimerInv', NEW r \in Runners, RunnerInv(r), Taken(r), late'[r] = late[r],
         GivenUp(r)' <=> GivenUp(r), finished[r] => finished'[r], Leaving(r) => Leaving(r)' \/ Out(r)'
  PROVE  RunnerInv(r)'
<1>1. owed[r] \in Int /\ owed'[r] \in Int
  BY JobSets, InWords DEF ScriptInv, TimerInv, TimerTypeOK
<1>2. owed'[r] <= 1
  BY <1>1 DEF Taken, RunnerInv
<1>3. Unlisted(r) => Unlisted(r)'
  BY DEF Unlisted, Taken, NoNew
<1>4. Out(r) => Out(r)'
  BY <1>3 DEF Out, Taken
<1>5. LastCall(r)'
  BY <1>3, <1>4 DEF RunnerInv, LastCall
<1> QED
  BY <1>2, <1>5 DEF RunnerInv

LEMMA LateTypes ==
  ASSUME ScriptInv, NEW r \in Runners
  PROVE  /\ late[r] \in 0..2 /\ owed[r] \in Int /\ r \in TimedJobs
         /\ manager = "script" <=> script.op \in {"finish", "remove"}
         /\ \A k \in Runners : late' = [late EXCEPT ![k] = late'[k]] /\ k # r => late'[r] = late[r]
         /\ \A k \in Runners : finished' = [finished EXCEPT ![k] = TRUE] /\ finished[r] => finished'[r]
BY JobSets, InWords DEF ScriptInv, ScriptTypes, Clearing

\* A tick of the runner itself: it calls its function, and then it may end.
LEMMA TickOnce ==
  ASSUME ScriptInv, TimerInv', NEW r \in Runners, RunnerInv(r), TickRunner(r)
  PROVE  RunnerInv(r)'
<1>1. /\ Ticking(r) /\ step = "begin" /\ UNCHANGED timerVars
      /\ UNCHANGED <<finished, runners, created, script, manager>>
      /\ \/ shutdown /\ step' = "return" /\ late' = late
         \/ step' = "wait" /\ late' = [late EXCEPT ![r] = CallLater(r)]
  BY DEF TickRunner
<1>2. /\ UNCHANGED <<pendingEvents, timing, owed, worker, running>> /\ ~(step' = "begin")
  BY <1>1 DEF timerVars, listVars, workerVars
<1>3. Ticking(r)' /\ Pending' = Pending /\ (GivenUp(r)' <=> GivenUp(r))
  BY <1>1, <1>2 DEF Ticking, Pending, GivenUp
<1>4. Unlisted(r)' <=> Unlisted(r)
  BY <1>2, <1>3 DEF Unlisted
<1>5. ~Out(r) /\ ~Leaving(r)
  BY <1>1 DEF Out, Leaving
<1>6. late[r] = 0
  BY <1>5, LateTypes DEF RunnerInv, LastCall
<1>7. late'[r] = 0 \/ (late'[r] = 1 /\ Cleared(r) /\ step' = "wait")
  BY <1>1, <1>6, LateTypes DEF CallLater, ScriptInv, ScriptTypes
<1>8. Cleared(r) => GivenUp(r)
  BY DEF Cleared, GivenUp
<1>9. GivenUp(r) => finished[r] \/ Unlisted(r)
  BY DEF RunnerInv, LastCall
<1>10. GivenUp(r)' => finished'[r] \/ Unlisted(r)'
  BY <1>1, <1>3, <1>4, <1>9
<1>11. ASSUME late'[r] > 0
       PROVE  late'[r] = 1 /\ GivenUp(r)' /\ (Out(r)' \/ Leaving(r)')
  <2>1. late'[r] = 1 /\ GivenUp(r)' /\ step' = "wait"
    BY <1>3, <1>7, <1>8, <1>11
  <2>2. CASE finished[r]
    BY <2>1, <2>2, <1>1, <1>3 DEF Leaving
  <2>3. CASE Unlisted(r)
    BY <2>1, <2>3, <1>4 DEF Out
  <2> QED
    BY <2>1, <2>2, <2>3, <1>3, <1>9
<1>12. owed'[r] <= 1
  BY <1>2 DEF RunnerInv
<1> QED
  BY <1>10, <1>11, <1>12 DEF RunnerInv, LastCall

\* The runner is taken from the list for good: the one event it had goes.
LEMMA RemovedOnce ==
  ASSUME ScriptInv, TimerInv', NEW r \in Runners, RunnerInv(r), removeJob(r),
         late'[r] = late[r], late[r] > 0 => GivenUp(r)', ~(Ticking(r) /\ step' = "begin")
  PROVE  RunnerInv(r)'
<1>1. r \in TimedJobs /\ owed[r] \in Int /\ owed'[r] \in Int /\ owed[r] <= 1
  BY LateTypes DEF RunnerInv, TimerInv, TimerTypeOK
<1>2. Shrinks /\ UNCHANGED <<worker, running>> /\ Unlisted(r)'
  BY <1>1, RemoveEffect, RemovedAlone DEF ScriptInv
<1>3. owed'[r] <= owed[r]
  BY <1>1, <1>2, OwedShrinks DEF ScriptInv
<1>4. owed'[r] <= 1
  BY <1>1, <1>3
<1>5. Out(r)'
  BY <1>2 DEF Out, Ticking
<1>6. late[r] > 0 => late[r] = 1
  BY DEF RunnerInv, LastCall
<1> QED
  BY <1>2, <1>4, <1>5, <1>6 DEF RunnerInv, LastCall

LEMMA RunnerTicks ==
  ASSUME ScriptInv, TimerInv', NEW r \in Runners, RunnerInv(r), TickStep
  PROVE  RunnerInv(r)'
<1> USE DEF flashVars, runnerVars, scriptVars
<1>g. UNCHANGED <<runners, created, script, manager>> => (GivenUp(r)' <=> GivenUp(r))
  BY DEF GivenUp
<1>v. UNCHANGED timerVars => UNCHANGED <<pendingEvents, timing, owed, worker, running>>
                             /\ \A k : Ticking(k)' <=> Ticking(k)
  BY DEF timerVars, listVars, workerVars, Ticking
<1>t. \A t \in Timers : t # r /\ t \in TimedJobs
  BY JobSets, ScriptAssumption
<1>o. \A j, k : Ticking(j) /\ Ticking(k) => j = k
  BY DEF Ticking
<1>1. ASSUME NEW t \in Timers, TickTimer(t) \/ CountTick(t) PROVE RunnerInv(r)'
  <2>1. /\ UNCHANGED <<pendingEvents, timing, owed, worker, running, late, finished, runners, created, script, manager>>
        /\ Ticking(t) /\ step' # "begin"
    BY <1>1, <1>v DEF TickTimer, CountTick, SetStopMe, listVars, workerVars
  <2>2. ~Leaving(r)
    BY <2>1, <1>o, <1>t DEF Leaving
  <2> QED
    BY <2>1, <2>2, <1>g, TakenSame, RunnerSame
<1>2. ASSUME NEW k \in Runners, TickRunner(k) PROVE RunnerInv(r)'
  <2>1. CASE k = r
    BY <1>2, <2>1, TickOnce
  <2>2. CASE k # r
    <3>1. /\ UNCHANGED <<pendingEvents, timing, owed, worker, running, finished, runners, created, script, manager>>
          /\ Ticking(k) /\ step' # "begin"
          /\ late' = late \/ late' = [late EXCEPT ![k] = CallLater(k)]
      BY <1>2, <1>v DEF TickRunner
    <3>2. ~Leaving(r) /\ late'[r] = late[r]
      BY <3>1, <2>2, <1>o DEF Leaving, ScriptInv, ScriptTypes
    <3> QED
      BY <3>1, <3>2, <1>g, TakenSame, RunnerSame
  <2> QED
    BY <2>1, <2>2
<1>3. ASSUME NEW k \in Runners, CallReturns(k) PROVE RunnerInv(r)'
  <2>1. /\ UNCHANGED <<pendingEvents, timing, owed, worker, running, late, finished, runners, created, script, manager>>
        /\ step' \in {"clear", "final"}
    BY <1>3, <1>v DEF CallReturns
  <2>2. Leaving(r) => Leaving(r)'
    BY <2>1 DEF Leaving, Ticking
  <2> QED
    BY <2>1, <2>2, <1>g, TakenSame, RunnerSame
<1>4. ASSUME NEW k \in Runners, ClearOwn(k) PROVE RunnerInv(r)'
  <2>1. /\ Ticking(k) /\ step = "clear" /\ step' = "final" /\ manager = "free"
        /\ removeJob(k) \/ (k \notin runners /\ UNCHANGED timerVars)
        /\ runners' = runners \ {k} /\ UNCHANGED <<late, finished, created, script, manager>>
    BY <1>4 DEF ClearOwn
  <2>2. removeJob(k) => UNCHANGED <<worker, running>>
    BY DEF removeJob, workerVars
  <2>3. \A j : Ticking(j)' <=> Ticking(j)
    BY <2>1, <2>2, <1>v DEF Ticking
  <2>4. Leaving(r) => Leaving(r)'
    BY <2>1, <2>3 DEF Leaving
  <2>5. Taken(r)
    BY <2>1, <1>v, TakenSame, TakenRemoved, JobSets
  <2>6. CASE k # r \/ r \notin runners
    <3>1. GivenUp(r)' <=> GivenUp(r)
      BY <2>1, <2>6 DEF GivenUp
    <3> QED
      BY <2>1, <2>4, <2>5, <3>1, RunnerSame
  <2>7. CASE k = r /\ r \in runners
    <3>1. removeJob(r) /\ ~GivenUp(r) /\ late[r] = 0
      BY <2>1, <2>7, LateTypes DEF GivenUp, RunnerInv, LastCall
    <3> QED
      BY <2>1, <3>1, RemovedOnce
  <2> QED
    BY <2>6, <2>7
<1>5. ASSUME NEW k \in Runners, RemoveOwn(k) PROVE RunnerInv(r)'
  <2>1. /\ Ticking(k) /\ step = "final" /\ step' = "return"
        /\ removeJob(k) \/ (~finished[k] /\ UNCHANGED timerVars)
        /\ UNCHANGED <<late, finished, runners, created, script, manager>>
    BY <1>5 DEF RemoveOwn
  <2>2. CASE k = r /\ removeJob(r)
    <3>1. late[r] > 0 => GivenUp(r)'
      BY <2>1, <1>g DEF RunnerInv, LastCall
    <3> QED
      BY <2>1, <2>2, <3>1, RemovedOnce
  <2>3. CASE ~(k = r /\ removeJob(r))
    <3>1. Taken(r)
      BY <2>1, <1>v, TakenSame, TakenRemoved, JobSets
    <3>2. ~Leaving(r)
      BY <2>1, <2>3, <1>o DEF Leaving
    <3> QED
      BY <2>1, <3>1, <3>2, <1>g, RunnerSame
  <2> QED
    BY <2>2, <2>3
<1>6. CASE TickEnds
  <2>1. /\ step = "return" /\ TickReturns /\ UNCHANGED <<late, finished, runners, created, script, manager>>
    BY <1>6 DEF TickEnds
  <2>2. Taken(r)
    BY <2>1, TakenWorker
  <2>3. ~Leaving(r)
    BY <2>1 DEF Leaving
  <2> QED
    BY <2>1, <2>2, <2>3, <1>g, RunnerSame
<1> QED
  BY <1>1, <1>2, <1>3, <1>4, <1>5, <1>6 DEF TickStep
LEMMA RunnerScripts ==
  ASSUME ScriptInv, TimerInv', NEW r \in Runners, RunnerInv(r), VmHandles \/ VmGoesOn \/ ScriptStep \/ EndStep
  PROVE  RunnerInv(r)'
<1> USE DEF flashVars, runnerVars, scriptVars
<1>v. UNCHANGED timerVars => UNCHANGED <<pendingEvents, timing, owed, worker, running>>
  BY DEF timerVars, listVars, workerVars
<1>t. r \in TimedJobs /\ \A t \in Timers : t # r /\ t \in TimedJobs
  BY JobSets, ScriptAssumption
<1>m. manager = "script" <=> script.op \in {"finish", "remove"}
  BY LateTypes
<1>l. r \in runners \/ r \notin created \/ (manager = "script" /\ script.job = r) => ~GivenUp(r) /\ late[r] = 0
  BY LateTypes DEF GivenUp, RunnerInv, LastCall
<1>s. ASSUME Taken(r), UNCHANGED <<worker, running, step, late>>, GivenUp(r)' <=> GivenUp(r),
             finished[r] => finished'[r]
      PROVE  RunnerInv(r)'
  <2>1. Leaving(r) => Leaving(r)'
    BY <1>s DEF Leaving, Ticking
  <2> QED
    BY <1>s, <2>1, RunnerSame
<1>r. ASSUME NEW j \in TimedJobs, removeJob(j) PROVE UNCHANGED <<worker, running>>
  BY <1>r DEF removeJob, workerVars
<1>a. ASSUME NEW j \in TimedJobs, NEW b \in BOOLEAN, AddEvent(j, b) PROVE UNCHANGED <<worker, running>>
  BY <1>a DEF AddEvent, workerVars
<1>1. CASE VmHandles
  <2>1. UNCHANGED <<pendingEvents, timing, owed, worker, running, step, late, finished, runners, created, script, manager>>
    BY <1>1, <1>v DEF VmHandles, HandleTimerEvent, AnswerCall
  <2> QED
    BY <2>1, <1>s, TakenSame DEF GivenUp
<1>2. CASE VmGoesOn
  <2>1. ASSUME NEW t \in Timers, AddTimer(t) PROVE RunnerInv(r)'
    <3>1. /\ UNCHANGED <<step, late, finished, runners, created, manager>> /\ script.op = "add"
          /\ \E b \in BOOLEAN : AddEvent(t, b)
      BY <2>1 DEF AddTimer, addTick, addWait
    <3>2. GivenUp(r)' <=> GivenUp(r)
      BY <3>1, <1>m DEF GivenUp
    <3>3. Taken(r) /\ UNCHANGED <<worker, running>>
      BY <3>1, <1>t, <1>a, TakenAdded
    <3> QED
      BY <3>1, <3>2, <3>3, <1>s
  <2>2. ASSUME NEW k \in Runners, FinishRunner(k) PROVE RunnerInv(r)'
    <3>1. /\ UNCHANGED <<pendingEvents, timing, owed, worker, running, step, late, runners, created>>
          /\ manager = "script" /\ script.job = k /\ manager' = "free"
          /\ finished' = [finished EXCEPT ![k] = TRUE]
      BY <2>2, <1>v, <1>m DEF FinishRunner
    <3>2. Taken(r) /\ (finished[r] => finished'[r])
      BY <3>1, TakenSame, LateTypes
    <3>3. CASE k # r
      <4>1. GivenUp(r)' <=> GivenUp(r)
        BY <3>1, <3>3 DEF GivenUp
      <4> QED
        BY <3>1, <3>2, <4>1, <1>s
    <3>4. CASE k = r
      <4>1. late'[r] = 0 /\ finished'[r] /\ owed'[r] = owed[r]
        BY <3>1, <3>4, <1>l DEF ScriptInv, ScriptTypes
      <4> QED
        BY <4>1 DEF RunnerInv, LastCall
    <3> QED
      BY <3>3, <3>4
  <2>3. ASSUME NEW k \in Runners, RemoveRunner(k) PROVE RunnerInv(r)'
    <3>1. /\ UNCHANGED <<step, late, finished, runners, created>> /\ removeJob(k)
          /\ manager = "script" /\ script.job = k /\ manager' = "free"
      BY <2>3, <1>m DEF RemoveRunner
    <3>2. UNCHANGED <<worker, running>> /\ Taken(r)
      BY <3>1, <1>r, TakenRemoved, JobSets
    <3>3. CASE k # r
      <4>1. GivenUp(r)' <=> GivenUp(r)
        BY <3>1, <3>3 DEF GivenUp
      <4> QED
        BY <3>1, <3>2, <4>1, <1>s
    <3>4. CASE k = r
      <4>1. late[r] = 0 /\ late'[r] = 0
        BY <3>1, <3>4, <1>l
      <4>2. owed'[r] <= 1
        BY <3>2, LateTypes DEF Taken, RunnerInv, TimerInv, TimerTypeOK
      <4>3. Unlisted(r)'
        BY <3>1, <3>4, <1>t, RemovedAlone DEF ScriptInv, RunnerInv
      <4> QED
        BY <4>1, <4>2, <4>3 DEF RunnerInv, LastCall
    <3> QED
      BY <3>3, <3>4
  <2> QED
    BY <1>2, <2>1, <2>2, <2>3 DEF VmGoesOn
<1>3. CASE ScriptStep
  <2>1. ASSUME NEW t \in Timers, StartTimer(t) PROVE RunnerInv(r)'
    <3>1. /\ UNCHANGED <<pendingEvents, timing, owed, worker, running, step, late, finished, runners, created, manager>>
          /\ script.op = "free"
      BY <2>1 DEF StartTimer, SetStopMe, ScriptFree, listVars, workerVars
    <3>2. GivenUp(r)' <=> GivenUp(r)
      BY <3>1, <1>m DEF GivenUp
    <3> QED
      BY <3>1, <3>2, <1>s, TakenSame
  <2>2. ASSUME NEW t \in Timers, NEW n, StopTimer(t) \/ ResetTimer(t) \/ SetRepeatCount(t, n)
        PROVE  RunnerInv(r)'
    <3>1. /\ removeJob(t) \/ UNCHANGED timerVars
          /\ UNCHANGED <<step, late, finished, runners, created, script, manager>>
      BY <2>2 DEF StopTimer, ResetTimer, SetRepeatCount
    <3>2. UNCHANGED <<worker, running>> /\ Taken(r)
      BY <3>1, <1>r, <1>v, <1>t, TakenRemoved, TakenSame
    <3> QED
      BY <3>1, <3>2, <1>s DEF GivenUp
  <2>3. ASSUME NEW k \in Runners, SetupTimer(k) PROVE RunnerInv(r)'
    <3>1. /\ UNCHANGED <<step, late, finished, script, manager>> /\ k \notin created /\ manager = "free"
          /\ runners' = runners \union {k} /\ created' = created \union {k}
          /\ \E b \in BOOLEAN : AddEvent(k, b)
      BY <2>3 DEF SetupTimer, addTick, addWait
    <3>2. CASE k # r
      <4>1. Taken(r) /\ UNCHANGED <<worker, running>>
        BY <3>1, <3>2, <1>a, JobSets, TakenAdded
      <4>2. GivenUp(r)' <=> GivenUp(r)
        BY <3>1, <3>2 DEF GivenUp
      <4> QED
        BY <3>1, <4>1, <4>2, <1>s
    <3>3. CASE k = r
      <4>1. owed[r] = 0 /\ late'[r] = 0 /\ ~GivenUp(r)'
        BY <3>1, <3>3, <1>l, NotYetOwed DEF ScriptInv, GivenUp
      <4>2. owed'[r] = owed[r] + 1
        BY <3>1, <3>3, <1>t, AddEffect DEF ScriptInv
      <4> QED
        BY <4>1, <4>2 DEF RunnerInv, LastCall
    <3> QED
      BY <3>2, <3>3
  <2>4. ASSUME NEW k \in Runners, ClearInterval(k) PROVE RunnerInv(r)'
    <3>1. /\ UNCHANGED <<pendingEvents, timing, owed, worker, running, step, late, finished, created>>
          /\ k \in runners /\ runners' = runners \ {k} /\ manager = "free" /\ manager' = "script"
          /\ script'.job = k
      BY <2>4, <1>v DEF ClearInterval
    <3>2. CASE k # r
      <4>1. GivenUp(r)' <=> GivenUp(r)
        BY <3>1, <3>2 DEF GivenUp
      <4> QED
        BY <3>1, <4>1, <1>s, TakenSame
    <3>3. CASE k = r
      <4>1. late'[r] = 0 /\ ~GivenUp(r)' /\ owed'[r] = owed[r]
        BY <3>1, <3>3, <1>l DEF GivenUp
      <4> QED
        BY <4>1 DEF RunnerInv, LastCall
    <3> QED
      BY <3>2, <3>3
  <2> QED
    BY <1>3, <2>1, <2>2, <2>3, <2>4 DEF ScriptStep
<1>4. CASE EndStep
  <2>1. CASE Shutdown
    <3>1. UNCHANGED <<pendingEvents, timing, owed, worker, running, step, late, finished, runners, created, script, manager>>
      BY <2>1, <1>v DEF Shutdown
    <3> QED
      BY <3>1, <1>s, TakenSame DEF GivenUp
  <2>2. ASSUME NEW k \in Runners, DropRunner(k) PROVE RunnerInv(r)'
    <3>1. /\ UNCHANGED <<step, late, finished, created, script, manager>> /\ removeJob(k)
          /\ k \in runners /\ runners' = runners \ {k} /\ owner = "joined" /\ script.op = "free"
      BY <2>2 DEF DropRunner
    <3>2. UNCHANGED <<worker, running>> /\ Taken(r)
      BY <3>1, <1>r, TakenRemoved, JobSets
    <3>3. CASE k # r
      <4>1. GivenUp(r)' <=> GivenUp(r)
        BY <3>1, <3>3 DEF GivenUp
      <4> QED
        BY <3>1, <3>2, <4>1, <1>s
    <3>4. CASE k = r
      <4>1. late[r] = 0 /\ removeJob(r)
        BY <3>1, <3>4, <1>l
      <4>2. ~Ticking(r)
        BY <3>1 DEF Ticking, ScriptInv, TimerInv, TimerTypeOK
      <4> QED
        BY <3>1, <4>1, <4>2, RemovedOnce
    <3> QED
      BY <3>3, <3>4
  <2> QED
    BY <1>4, <2>1, <2>2 DEF EndStep
<1> QED
  BY <1>1, <1>2, <1>3, <1>4

LEMMA RunnerStep ==
  ASSUME ScriptInv, TimerInv', [Next]_vars, NEW r \in Runners, RunnerInv(r)
  PROVE  RunnerInv(r)'
<1> USE DEF flashVars, runnerVars, scriptVars
<1>1. CASE WorkerStep \/ OwnerStep \/ ClockStep
  <2>1. /\ Worker \/ Owner \/ Advance
        /\ UNCHANGED <<step, late, finished, runners, created, script, manager>>
    BY <1>1 DEF WorkerStep, OwnerStep, ClockStep
  <2>2. Taken(r)
    BY <2>1, TakenWorker
  <2>3. Leaving(r) => Leaving(r)'
    <3>1. CASE Worker
      BY <3>1, WorkerEffect DEF ScriptInv, Leaving, Ticking
    <3>2. CASE Owner \/ Advance
      <4>1. UNCHANGED <<worker, running>>
        BY <3>2, OwnerEffect, AdvanceEffect DEF ScriptInv
      <4> QED
        BY <4>1, <2>1 DEF Leaving, Ticking
    <3> QED
      BY <2>1, <3>1, <3>2
  <2> QED
    BY <2>1, <2>2, <2>3, RunnerSame DEF GivenUp
<1>2. CASE TickStep
  BY <1>2, RunnerTicks
<1>3. CASE VmHandles \/ VmGoesOn \/ ScriptStep \/ EndStep
  BY <1>3, RunnerScripts
<1>4. CASE UNCHANGED vars
  <2>1. UNCHANGED <<pendingEvents, timing, owed, worker, running, step, late, finished, runners, created, script, manager>>
    BY <1>4 DEF vars, timerVars, listVars, workerVars
  <2>2. Leaving(r) => Leaving(r)'
    BY <2>1 DEF Leaving, Ticking
  <2> QED
    BY <2>1, <2>2, RunnerSame, TakenSame DEF GivenUp
<1> QED
  BY <1>1, <1>2, <1>3, <1>4 DEF Next

LEMMA RunnerInvHolds == Spec => [](ScriptInv /\ \A r \in Runners : RunnerInv(r))
<1>1. Init => ScriptInv /\ \A r \in Runners : RunnerInv(r)
  <2> SUFFICES ASSUME Init, NEW r \in Runners PROVE RunnerInv(r)
    BY ScriptInitInv
  <2>1. owed[r] = 0 /\ late[r] = 0 /\ ~GivenUp(r)
    BY JobSets DEF Init, TimerInit, GivenUp
  <2> QED
    BY <2>1 DEF RunnerInv, LastCall
<1>2. ScriptInv /\ (\A r \in Runners : RunnerInv(r)) /\ [Next]_vars
        => (ScriptInv /\ \A r \in Runners : RunnerInv(r))'
  <2> SUFFICES ASSUME ScriptInv, \A r \in Runners : RunnerInv(r), [Next]_vars
               PROVE  ScriptInv' /\ \A r \in Runners : RunnerInv(r)'
    OBVIOUS
  <2>1. ScriptInv' /\ TimerInv'
    BY ScriptStepInv DEF ScriptInv
  <2> QED
    BY <2>1, RunnerStep
<1> QED
  BY <1>1, <1>2, PTL DEF Spec

\* An IntervalRunner deletes itself in its one tickFence (IntervalRunner.cpp): it
\* is never owed a second one, however clearInterval, the end of a timeout and
\* the end of the player meet.
THEOREM RunnerDeletedOnce == Spec => []RunnerFencedOnce
<1>1. ASSUME ScriptInv, \A r \in Runners : RunnerInv(r) PROVE RunnerFencedOnce
  <2> SUFFICES ASSUME NEW r \in Runners PROVE owed[r] \in {0, 1}
    BY DEF RunnerFencedOnce
  <2>1. IsFiniteSet({e \in Alive : timing[e].job = r})
    BY <1>1, InWords, EventsAssumption, FS_Subset DEF ScriptInv
  <2>2. owed[r] \in Nat
    BY <1>1, <2>1, JobSets, FS_CardinalityType DEF ScriptInv, TimerInv, OwedExact
  <2>3. owed[r] <= 1
    BY <1>1 DEF RunnerInv
  <2> QED
    BY <2>2, <2>3
<1> QED
  BY <1>1, RunnerInvHolds, PTL

\* A function of setInterval or setTimeout is called at most once after its runner
\* was cleared: either clearInterval has taken the event from the list, or the
\* runner sees "finished" after that one call and takes it itself
\* (IntervalRunner.cpp:60).
THEOREM ClearedCallsOnce == Spec => []ClearedCallsAtMostOnce
<1>1. ASSUME ScriptInv, \A r \in Runners : RunnerInv(r) PROVE ClearedCallsAtMostOnce
  <2> SUFFICES ASSUME NEW r \in Runners PROVE late[r] <= 1
    BY DEF ClearedCallsAtMostOnce
  <2>1. late[r] \in 0..2 /\ (late[r] > 0 => late[r] = 1)
    BY <1>1, LateTypes DEF RunnerInv, LastCall
  <2> QED
    BY <2>1
<1> QED
  BY <1>1, RunnerInvHolds, PTL
\* No step schedules a runner that exists or has existed.
LEMMA NotScheduledAgain ==
  ASSUME ScriptInv, TimerInv', [Next]_vars, NEW r \in Runners, r \in created
  PROVE  owed'[r] <= owed[r]
<1>t. r \in TimedJobs /\ owed[r] \in Int /\ \A t \in Timers : t # r /\ t \in TimedJobs
  BY JobSets, ScriptAssumption, LateTypes
<1>v. UNCHANGED owed => owed'[r] <= owed[r]
  BY <1>t
<1>r. ASSUME NEW j \in TimedJobs, removeJob(j) PROVE owed'[r] <= owed[r]
  BY <1>r, <1>t, RemoveEffect, OwedShrinks DEF ScriptInv
<1>a. ASSUME NEW j \in TimedJobs, j # r, addTick(j) \/ addWait(j) PROVE owed'[r] <= owed[r]
  <2>1. \E b \in BOOLEAN : AddEvent(j, b)
    BY <1>a DEF addTick, addWait
  <2>2. owed'[r] = owed[r]
    BY <1>a, <1>t, <2>1, AddEffect DEF ScriptInv
  <2> QED
    BY <2>2, <1>v, <1>t
<1>u. UNCHANGED timerVars => UNCHANGED owed
  BY DEF timerVars, listVars
<1>f. \A t, b : SetStopMe(t, b) => UNCHANGED owed
  BY DEF SetStopMe, listVars
<1>1. CASE WorkerStep \/ ClockStep \/ OwnerStep
  <2>1. CASE Worker
    BY <2>1, <1>t, <1>v, WorkerEffect DEF ScriptInv, Clearing
  <2>2. CASE Advance \/ Owner
    BY <2>2, <1>t, AdvanceEffect, OwnerEffect, OwedShrinks DEF ScriptInv
  <2> QED
    BY <1>1, <2>1, <2>2 DEF WorkerStep, ClockStep, OwnerStep
<1>2. CASE TickStep
  <2>1. CASE TickEnds
    BY <2>1, <1>t, TickReturnsEffect, OwedShrinks DEF TickEnds, ScriptInv
  <2>2. ASSUME NEW t \in Timers, TickTimer(t) \/ CountTick(t) PROVE owed'[r] <= owed[r]
    BY <2>2, <1>v, <1>u, <1>f DEF TickTimer, CountTick
  <2>3. ASSUME NEW k \in Runners, TickRunner(k) \/ CallReturns(k) \/ ClearOwn(k) \/ RemoveOwn(k)
        PROVE  owed'[r] <= owed[r]
    BY <2>3, <1>v, <1>u, <1>r, JobSets DEF TickRunner, CallReturns, ClearOwn, RemoveOwn
  <2> QED
    BY <1>2, <2>1, <2>2, <2>3 DEF TickStep
<1>3. CASE VmHandles \/ VmGoesOn
  <2>1. ASSUME NEW t \in Timers, HandleTimerEvent(t) \/ AddTimer(t) PROVE owed'[r] <= owed[r]
    BY <2>1, <1>v, <1>u, <1>a, <1>t DEF HandleTimerEvent, AddTimer
  <2>2. ASSUME NEW k \in Runners, AnswerCall(k) \/ FinishRunner(k) \/ RemoveRunner(k) PROVE owed'[r] <= owed[r]
    BY <2>2, <1>v, <1>u, <1>r, JobSets DEF AnswerCall, FinishRunner, RemoveRunner
  <2> QED
    BY <1>3, <2>1, <2>2 DEF VmHandles, VmGoesOn
<1>4. CASE ScriptStep
  <2>1. ASSUME NEW t \in Timers, NEW n, StartTimer(t) \/ StopTimer(t) \/ ResetTimer(t) \/ SetRepeatCount(t, n)
        PROVE  owed'[r] <= owed[r]
    <3>1. UNCHANGED timerVars \/ removeJob(t) \/ SetStopMe(t, FALSE)
      BY <2>1 DEF StartTimer, StopTimer, ResetTimer, SetRepeatCount
    <3> QED
      BY <3>1, <1>v, <1>u, <1>r, <1>f, <1>t
  <2>2. ASSUME NEW k \in Runners, SetupTimer(k) \/ ClearInterval(k) PROVE owed'[r] <= owed[r]
    BY <2>2, <1>v, <1>u, <1>a, JobSets DEF SetupTimer, ClearInterval
  <2> QED
    BY <1>4, <2>1, <2>2 DEF ScriptStep
<1>5. CASE EndStep
  BY <1>5, <1>v, <1>u, <1>r, JobSets DEF EndStep, Shutdown, DropRunner
<1>6. CASE UNCHANGED vars
  BY <1>6, <1>v, <1>u DEF vars
<1> QED
  BY <1>1, <1>2, <1>3, <1>4, <1>5, <1>6 DEF Next

\* A runner that has deleted itself is not scheduled again: no step of a script, of
\* the timer thread or of the end of the player gives the pointer of a deleted
\* IntervalRunner to addTick or addWait.
THEOREM RunnersStayDeleted == Spec => DeletedForGood
<1>1. ScriptInv /\ ScriptInv' /\ [Next]_vars
        => [\A r \in Runners : r \in created /\ owed[r] = 0 => owed'[r] = 0]_vars
  <2> SUFFICES ASSUME ScriptInv, ScriptInv', [Next]_vars, NEW r \in Runners, r \in created, owed[r] = 0
               PROVE  owed'[r] = 0
    OBVIOUS
  <2>1. TimerInv' /\ r \in TimedJobs /\ Alive' \in SUBSET Events
    <3>1. pendingEvents' \in Seq(Events) /\ InFlight' \in SUBSET Events
      BY DEF ScriptInv, TimerInv, TimerTypeOK, InFlight
    <3>2. Pending' \in SUBSET Events
      BY <3>1 DEF Pending
    <3> QED
      BY <3>1, <3>2, JobSets DEF Alive, ScriptInv
  <2> DEFINE T == {e \in Alive' : timing'[e].job = r}
  <2>2. owed'[r] = Cardinality(T) /\ IsFiniteSet(T)
    BY <2>1, EventsAssumption, FS_Subset DEF TimerInv, OwedExact
  <2> HIDE DEF T
  <2>3. owed'[r] \in Nat
    BY <2>2, FS_CardinalityType
  <2>4. owed'[r] <= owed[r]
    BY <2>1, NotScheduledAgain
  <2> QED
    BY <2>3, <2>4
<1> QED
  BY <1>1, ScriptInvHolds, PTL DEF Spec, DeletedForGood
=============================================================================
