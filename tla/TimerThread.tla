---------------------------- MODULE TimerThread ----------------------------
(***************************************************************************)
(* The thread that runs the timed jobs of the player (timer.cpp).          *)
(*                                                                         *)
(* pendingEvents is the list of TimingEvents, in the order of their wake   *)
(* up times.  The worker holds the mutex of the thread all the time except *)
(* while it waits on newEvent and while a job ticks.  Any other thread     *)
(* adds and removes events under the mutex, in one critical section each.  *)
(* stop() sets a flag and signals newEvent WITHOUT the mutex.              *)
(*                                                                         *)
(* Times are relative to now: `due' is wakeUpTime minus the clock, which   *)
(* Advance lowers.  A due below zero matters by its sign and by the sign   *)
(* of due + tickTime only, so it stops at -MaxLate, and MaxLate is at      *)
(* least every tick time.                                                  *)
(***************************************************************************)
EXTENDS Integers, Sequences, FiniteSets, SequencesExt

CONSTANTS
    Events,      \* the TimingEvent objects that can exist at a time
    TimedJobs,   \* the ITickJob objects
    tickTime,    \* the tick time of the events of a job
    MaxLate,     \* bound: how late a wake up time can be told to be
    NoEvent      \* no TimingEvent

ASSUME EventsAssumption == IsFiniteSet(Events) /\ NoEvent \notin Events
ASSUME TickTimeAssumption ==
    /\ MaxLate \in Nat
    /\ tickTime \in [TimedJobs -> Nat]
    /\ \A j \in TimedJobs : tickTime[j] <= MaxLate
ASSUME JobsAssumption == TimedJobs # {}

VARIABLES
    pendingEvents,  \* TimerThread::pendingEvents
    timing,         \* what a TimingEvent holds: its job, isTick and due
    owed,           \* the calls of tickFence() a job can still expect
    stopMe,         \* ITickJob::stopMe
    worker,         \* where TimerThread::worker is
    running,        \* the job that ticks, and its event if it is a single shot
    until,          \* when the timed wait of the worker ends, else 0
    newEvent,       \* a signal the waiting worker has not yet seen
    stopped,        \* TimerThread::stopped
    owner           \* the thread that stops and deletes the timer thread

listVars   == <<pendingEvents, timing, owed>>
workerVars == <<worker, running, until>>
timerVars  == <<listVars, stopMe, workerVars, newEvent, stopped, owner>>

SomeJob == CHOOSE j \in TimedJobs : TRUE
Idle == [event |-> NoEvent, job |-> SomeJob, tick |-> FALSE]

\* CondTime takes the time of the call and not its argument: a new event is
\* due at once.
NewTiming(j, tick) == [job |-> j, tick |-> tick, due |-> 0]

TimerInit ==
    /\ pendingEvents = <<>>
    /\ timing = [e \in Events |-> NewTiming(SomeJob, FALSE)]
    /\ owed = [j \in TimedJobs |-> 0]
    /\ stopMe = [j \in TimedJobs |-> FALSE]
    /\ worker = "top" /\ running = Idle /\ until = 0
    /\ newEvent = FALSE /\ stopped = FALSE /\ owner = "using"

(***************************************************************************)
(* The list.                                                               *)
(***************************************************************************)
Pending == {pendingEvents[i] : i \in 1..Len(pendingEvents)}

\* The events that exist: those of the list and the single shot that ticks.
InFlight == IF worker = "ticking" /\ ~running.tick THEN {running.event} ELSE {}
Alive    == Pending \union InFlight

\* Where insertNewEvent_nolock puts an event due at d among the list q: in
\* front of the first event that is later, or at the end.
IsPlace(q, d, p) ==
    /\ p \in 1..(Len(q) + 1)
    /\ \A i \in 1..(p - 1) : timing[q[i]].due <= d
    /\ p <= Len(q) => timing[q[p]].due > d

\* newEvent.signal(): only a thread that waits sees it.
Signal == newEvent' = (newEvent \/ worker \in {"empty", "timed"})
\* Mutant: the worker is not told of a new first event.
NeverSignalled(b) == UNCHANGED newEvent

SignalIf(b) == IF b THEN Signal ELSE UNCHANGED newEvent

\* Every critical section of another thread.  The worker has the mutex
\* between the end of a tick, or of a wait, and the next wait.
Unlocked == worker # "top" /\ owner # "deleted"

AddEvent(j, tick) ==
    /\ Unlocked
    /\ Events \ Alive # {}
    /\ LET e == CHOOSE x \in Events \ Alive : TRUE IN
       /\ timing' = [timing EXCEPT ![e] = NewTiming(j, tick)]
       /\ \E p \in 1..(Len(pendingEvents) + 1) :
            /\ IsPlace(pendingEvents, 0, p)
            /\ pendingEvents' = InsertAt(pendingEvents, p, e)
            /\ SignalIf(p = 1)
    /\ owed' = [owed EXCEPT ![j] = @ + 1]
    /\ UNCHANGED <<stopMe, workerVars, stopped, owner>>

addTick(j) == AddEvent(j, TRUE)
addWait(j) == AddEvent(j, FALSE)

\* An event ends: tickFence() of its job is called and the event deleted.
FenceAndDelete(e) ==
    /\ owed' = [owed EXCEPT ![timing[e].job] = @ - 1]
    /\ timing' = [timing EXCEPT ![e] = NewTiming(SomeJob, FALSE)]

\* The first event of the list that runs job j.
IsFirstOf(j, i) ==
    /\ timing[pendingEvents[i]].job = j
    /\ \A k \in 1..(i - 1) : timing[pendingEvents[k]].job # j

RemoveFirstOf(j, i) ==
    /\ IsFirstOf(j, i)
    /\ FenceAndDelete(pendingEvents[i])
    /\ pendingEvents' = RemoveAt(pendingEvents, i)
    /\ SignalIf(i = 1)

\* removeJob(): of the events of the job the first one goes, if there is one.
\* A tick of the job that runs is not waited for.
Listed(j) == \E e \in Pending : timing[e].job = j

removeJob(j) ==
    /\ Unlocked
    /\ \/ \E i \in 1..Len(pendingEvents) : RemoveFirstOf(j, i)
       \/ ~Listed(j) /\ UNCHANGED <<listVars, newEvent>>
    /\ UNCHANGED <<stopMe, workerVars, stopped, owner>>

\* The flag of a job is written without any lock.
SetStopMe(j, b) ==
    /\ stopMe' = [stopMe EXCEPT ![j] = b]
    /\ UNCHANGED <<listVars, workerVars, newEvent, stopped, owner>>

(***************************************************************************)
(* The worker.                                                             *)
(***************************************************************************)
First == pendingEvents[1]

\* The head of the loop: with an empty list the worker waits for a signal,
\* else for a signal or the wake up time of the first event.
Sleep ==
    /\ worker = "top"
    /\ \/ pendingEvents = <<>> /\ worker' = "empty" /\ UNCHANGED until
       \/ pendingEvents # <<>> /\ worker' = "timed" /\ until' = timing[First].due
    /\ UNCHANGED <<listVars, stopMe, running, newEvent, stopped, owner>>

\* The untimed wait ends with a signal only; then stopped is tested.
WakeEmpty ==
    /\ worker = "empty" /\ newEvent
    /\ newEvent' = FALSE
    /\ worker' = IF stopped THEN "exited" ELSE "top"
    /\ UNCHANGED <<listVars, stopMe, running, until, stopped, owner>>

TimedWaitEnds == worker = "timed" /\ (newEvent \/ until <= 0)

\* Mutant: stopped is tested after the untimed wait only.
StopUnseen == FALSE

WakeToStop ==
    /\ TimedWaitEnds /\ stopped
    /\ newEvent' = FALSE /\ worker' = "exited" /\ until' = 0
    /\ UNCHANGED <<listVars, stopMe, running, stopped, owner>>

Due == pendingEvents # <<>> /\ timing[First].due <= 0

\* The list has become empty, or its first event is in the future.
WakeForNothing ==
    /\ TimedWaitEnds /\ ~stopped /\ ~Due
    /\ newEvent' = FALSE /\ worker' = "top" /\ until' = 0
    /\ UNCHANGED <<listVars, stopMe, running, stopped, owner>>

\* The job of the first event wants no more ticks.
WakeToDrop ==
    /\ TimedWaitEnds /\ ~stopped /\ Due
    /\ stopMe[timing[First].job]
    /\ newEvent' = FALSE /\ worker' = "top" /\ until' = 0
    /\ pendingEvents' = Tail(pendingEvents)
    /\ FenceAndDelete(First)
    /\ UNCHANGED <<stopMe, running, stopped, owner>>

\* addMilliseconds: the next wake up time is not in the past.
NextDue(d, ms) == IF d + ms < 0 THEN ms ELSE d + ms

\* A tick event is put back before its job ticks: from then on removeJob may
\* delete it, and the worker does not look at it again.
Requeue(e) ==
    LET d == NextDue(timing[e].due, tickTime[timing[e].job]) IN
    /\ timing' = [timing EXCEPT ![e].due = d]
    /\ \E p \in 1..Len(pendingEvents) :
         /\ IsPlace(Tail(pendingEvents), d, p)
         /\ pendingEvents' = InsertAt(Tail(pendingEvents), p, e)

WakeToTick ==
    /\ TimedWaitEnds /\ ~stopped /\ Due
    /\ ~stopMe[timing[First].job]
    /\ newEvent' = FALSE /\ worker' = "ticking" /\ until' = 0
    /\ running' = [event |-> IF timing[First].tick THEN NoEvent ELSE First,
                    job |-> timing[First].job, tick |-> timing[First].tick]
    /\ IF timing[First].tick
         THEN Requeue(First)
         ELSE pendingEvents' = Tail(pendingEvents) /\ UNCHANGED timing
    /\ UNCHANGED <<owed, stopMe, stopped, owner>>

\* Mutant: a single shot is not fenced when it has ticked.
ReturnsUnfenced ==
    /\ worker = "ticking"
    /\ worker' = "top" /\ running' = Idle
    /\ UNCHANGED <<listVars, stopMe, until, newEvent, stopped, owner>>

\* tick() has returned.  The event of a tick may be gone, its job too.
TickReturns ==
    /\ worker = "ticking"
    /\ worker' = "top" /\ running' = Idle
    /\ IF running.tick THEN UNCHANGED <<owed, timing>> ELSE FenceAndDelete(running.event)
    /\ UNCHANGED <<pendingEvents, stopMe, until, newEvent, stopped, owner>>

(***************************************************************************)
(* The clock, and the thread that stops the timer thread: stop(), by       *)
(* setError or as the first half of wait(), then wait(), then the          *)
(* destructor, which finds the worker ended and takes no mutex.            *)
(***************************************************************************)
Earlier(d) == IF d > -MaxLate THEN d - 1 ELSE d

Advance ==
    /\ timing' = [e \in Events |-> IF e \in Pending
                                      THEN [timing[e] EXCEPT !.due = Earlier(@)]
                                      ELSE timing[e]]
    /\ until' = IF worker = "timed" THEN Earlier(until) ELSE until
    /\ UNCHANGED <<pendingEvents, owed, stopMe, worker, running, newEvent, stopped, owner>>

SetStopped ==
    /\ owner = "using" /\ ~stopped
    /\ stopped' = TRUE
    /\ UNCHANGED <<listVars, stopMe, workerVars, newEvent, owner>>

\* setError stops and goes on; wait() stops and joins.
SignalStop(next) ==
    /\ owner = "using" /\ stopped
    /\ Signal /\ owner' = next
    /\ UNCHANGED <<listVars, stopMe, workerVars, stopped>>

Join ==
    /\ owner = "joining" /\ worker = "exited"
    /\ owner' = "joined"
    /\ UNCHANGED <<listVars, stopMe, workerVars, newEvent, stopped>>

Destroy ==
    /\ owner = "joined"
    /\ owner' = "deleted"
    /\ owed' = [j \in TimedJobs |-> owed[j] - Cardinality({e \in Pending : timing[e].job = j})]
    /\ pendingEvents' = <<>>
    /\ timing' = [e \in Events |-> NewTiming(SomeJob, FALSE)]
    /\ UNCHANGED <<stopMe, workerVars, newEvent, stopped>>

Worker == Sleep \/ WakeEmpty \/ WakeToStop \/ WakeForNothing \/ WakeToDrop \/ WakeToTick

Owner == SetStopped \/ SignalStop("using") \/ SignalStop("joining") \/ Join \/ Destroy

Clients == \E j \in TimedJobs : addTick(j) \/ addWait(j) \/ removeJob(j)
                                 \/ \E b \in BOOLEAN : SetStopMe(j, b)

TimerNext == Worker \/ TickReturns \/ Advance \/ Owner \/ Clients

TimerSpec == TimerInit /\ [][TimerNext]_timerVars

(***************************************************************************)
(* Properties.                                                             *)
(***************************************************************************)
TimerTypeOK ==
    /\ pendingEvents \in Seq(Events)
    /\ timing \in [Events -> [job : TimedJobs, tick : BOOLEAN, due : Int]]
    /\ owed \in [TimedJobs -> Int]
    /\ stopMe \in [TimedJobs -> BOOLEAN]
    /\ worker \in {"top", "empty", "timed", "ticking", "exited"}
    /\ running \in [event : Events \union {NoEvent}, job : TimedJobs, tick : BOOLEAN]
    /\ worker = "ticking" /\ ~running.tick => running.event \in Events
    /\ until \in Int /\ newEvent \in BOOLEAN /\ stopped \in BOOLEAN
    /\ owner \in {"using", "joining", "joined", "deleted"}
    /\ owner \in {"joined", "deleted"} => worker = "exited"

\* Every addTick and addWait is answered by one tickFence: what a job can
\* still expect is one call for each of its events in the list, and one for
\* the single shot that ticks.  A Timer keeps its script object alive by it,
\* and an IntervalRunner deletes itself in it.
OwedExact ==
    \A j \in TimedJobs : owed[j] = Cardinality({e \in Alive : timing[e].job = j})

\* An event is in the list once, and never while it ticks as a single shot:
\* removeJob deletes what it finds, and the worker what it has popped.
EventOnce ==
    /\ \A i, k \in 1..Len(pendingEvents) : pendingEvents[i] = pendingEvents[k] => i = k
    /\ InFlight \intersect Pending = {}

\* The first event of the list is the next one due.
ListSorted ==
    \A i, k \in 1..Len(pendingEvents) :
        i < k => timing[pendingEvents[i]].due <= timing[pendingEvents[k]].due

\* The worker never sleeps past an event: with a list that is not empty it
\* waits with a limit no later than the first wake up time, or is signalled.
NoOversleep ==
    ~newEvent /\ pendingEvents # <<>> =>
        /\ worker # "empty"
        /\ worker = "timed" => until <= timing[First].due
=============================================================================
