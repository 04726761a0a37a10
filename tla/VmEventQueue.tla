----------------------------- MODULE VmEventQueue -----------------------------
(***************************************************************************)
(* The event queue of the ActionScript VM (ABCVm in                        *)
(* src/src/scripting/abc.cpp) with the threads that post to it and wait,   *)
(* and the shutdown of the player (SystemState::destroy in swf.cpp).       *)
(*                                                                         *)
(* A section under event_queue_mutex is one step.  What the VM thread does *)
(* to the queues without the mutex (the SHUTDOWN event, and                *)
(* signalEventWaiters) is broken into the reads and writes other threads   *)
(* can come between.  The case runSingleThreaded is left out.              *)
(***************************************************************************)
EXTENDS Integers, Sequences, FiniteSets, Functions

CONSTANTS
    Posters,     \* the threads other than the VM thread that post events
    VM,          \* the VM thread, which posts while it handles an event
    Main,        \* the thread in SystemState::destroy
    Events, NoEvent,
    Program,     \* what each thread posts, in order
    Kind,        \* the class of an event, as far as handleEvent tells it apart
    Method,      \* the operation that posts it
    Similar,     \* the events an idle event posted with removeprevious replaces
    Routed,      \* events addressed to a background worker
    GcOf,        \* the GarbageCollectionEvent an IDLE_EVENT creates
    Failures,    \* the exceptions that may be thrown in the handling of an event
    Options,     \* "ignore": ignoreUnhandledExceptions; "exit": exitOnError
    ShutdownEvent, \* the event tryHandleEvent posts for an object that was thrown
    Joined       \* the posters destroy() joins first (InputThread)

Kinds    == {"plain", "tick", "func", "call", "idle", "gc", "flush", "flushHead", "shutdown"}
Methods  == {"add", "prepend", "force", "addIdle", "replaceIdle", "buffer", "bufferHead"}
Idles    == {e \in Events : Kind[e] = "idle"}
Threads  == Posters \cup {VM, Main}

\* A ScriptLimitException, another LightsparkException, and of the objects a
\* script throws those that are an ASError and the others.
Exceptions == {"limit", "internal", "error", "object"}
Thrown     == {"error", "object"}

ASSUME EventsAssumption ==
    /\ IsFiniteSet(Events) /\ NoEvent \notin Events
    /\ Kind \in [Events -> Kinds] /\ Method \in [Events -> Methods]
    /\ Similar \in [Events -> SUBSET Events] /\ Routed \subseteq Events
ASSUME ThreadsAssumption ==
    /\ IsFiniteSet(Posters) /\ VM \notin Posters /\ Main \notin Posters /\ VM # Main
    /\ Joined \subseteq Posters
    /\ Program \in [Threads -> Seq(Events)] /\ Len(Program[Main]) = 1
\* An event is an object that is posted once, a collection by the VM only; who
\* waits for an event posts it with addEvent or prependEvent and no target, so
\* that no worker gets it; SHUTDOWN is posted with addEvent.
ASSUME ProgramsAssumption ==
    /\ \A t, u \in Threads : \A i \in DOMAIN Program[t], k \in DOMAIN Program[u] :
          Program[t][i] = Program[u][k] => t = u /\ i = k
    /\ \A t \in Threads : \A i \in DOMAIN Program[t], d \in Idles : Program[t][i] # GcOf[d]
    /\ \A d, f \in Idles : GcOf[d] = GcOf[f] => d = f
    /\ \A t \in Threads : \A i \in DOMAIN Program[t] : Program[t][i] # ShutdownEvent
    /\ \A e \in Events : Kind[e] \in {"func", "call", "idle"}
                          => Method[e] \in {"add", "prepend", "force"} /\ e \notin Routed
    /\ \A e \in Events : Kind[e] = "shutdown" => Method[e] = "add"
ASSUME HandlingAssumption ==
    /\ GcOf \in [Idles -> {e \in Events : Kind[e] = "gc"}]
    /\ Failures \in [Events -> SUBSET Exceptions] /\ Options \subseteq {"ignore", "exit"}
    /\ ShutdownEvent \in Events \ Routed /\ Kind[ShutdownEvent] = "shutdown"

VARIABLES
    events_queue, idleevents_queue, event_buffer,
    half,           \* an event push_back has stored but not yet counted in
    shuttingdown, isIdle, halted, status,
    vpc, cur, exc,  \* the VM thread: position, the events being handled, the exception
    front,          \* signalEventWaiters: its copy of the front
    fate, handled,  \* what became of an event ("lost": overwritten or popped by the
                    \* unlocked move of SHUTDOWN, "mistaken": popped in the place of
                    \* another by signalEventWaiters); WaitableEvent::handled
    behind,         \* history: what was in front of the gc event when it was queued
    ppc, next,      \* posters: position, index of the next event to post
    mpc, engines,   \* destroy(): position, and whether stopEngines was reached
    shutdown, error, terminated  \* SystemState: flags, and the semaphore

queueVars == <<events_queue, idleevents_queue, event_buffer, half>>
flagVars  == <<shuttingdown, isIdle, halted, status>>
vmVars    == <<vpc, cur, exc, front>>
eventVars == <<fate, handled, behind>>
postVars  == <<ppc, next>>
sysVars   == <<mpc, engines, shutdown, error, terminated>>
vars == <<queueVars, flagVars, vmVars, eventVars, postVars, sysVars>>

-----------------------------------------------------------------------------
Waitable(e) == Kind[e] \in {"func", "call", "idle"}

\* Events whose handling runs ActionScript: the code may post, wait or throw.
Scripted(e) == Kind[e] \in {"plain", "func", "call"}

\* An event being handled; an exception stops at the frames of tryHandleEvent.
Frame == [ev : Events, try : BOOLEAN]

Init ==
    /\ events_queue = <<>> /\ idleevents_queue = <<>> /\ event_buffer = <<>>
    /\ half = NoEvent
    /\ shuttingdown = FALSE /\ isIdle = TRUE /\ halted = FALSE /\ status = "CREATED"
    /\ vpc = "init" /\ cur = <<>> /\ exc = "none" /\ front = NoEvent
    /\ fate = [e \in Events |-> "new"] /\ handled = [e \in Events |-> FALSE]
    /\ behind = [i \in Idles |-> {}]
    /\ ppc = [p \in Posters |-> "run"] /\ next = [t \in Threads |-> 1]
    /\ mpc = "wait" /\ engines = FALSE
    /\ shutdown = FALSE /\ error = FALSE /\ terminated = 0

-----------------------------------------------------------------------------
(***************************************************************************)
(* Enqueueing.  Each operator fixes the next value of the queues, of vpc,  *)
(* fate and handled.                                                       *)
(***************************************************************************)

\* sem_event_cond.signal(); the VM thread waits with the mutex released.
NotifyForgotten == UNCHANGED vpc
NotifyVm == vpc' = IF vpc = "asleep" THEN "loop" ELSE vpc

AcceptedAlways    == TRUE
NewEventsAccepted == ~shuttingdown

Accept(e) ==
    /\ fate' = [fate EXCEPT ![e] = "queued"]
    /\ UNCHANGED handled

RefuseSilently(e) ==
    /\ fate' = [fate EXCEPT ![e] = "refused"]
    /\ UNCHANGED <<queueVars, handled, vpc>>

\* addEvent signals the event it does not take, the other operations do not.
Refuse(e) ==
    /\ fate' = [fate EXCEPT ![e] = "refused"]
    /\ handled' = [handled EXCEPT ![e] = @ \/ Waitable(e)]
    /\ UNCHANGED <<queueVars, vpc>>

Reroute(e) ==
    /\ fate' = [fate EXCEPT ![e] = "elsewhere"]
    /\ UNCHANGED <<queueVars, handled, vpc>>

PushFront(e) == events_queue' = <<e>> \o events_queue /\ UNCHANGED half /\ Accept(e)

\* A push_back between the two halves of the VM thread's unlocked push_back
\* stores into the same cell of the deque: one of the two events is lost.
Overwritten(e) == [fate EXCEPT ![e] = "lost"]
PushBack(e) ==
    /\ \/ /\ events_queue' = Append(events_queue, e)
          /\ half' = NoEvent
          /\ fate' = [f \in Events |-> IF f = e THEN "queued"
                                      ELSE IF f = half THEN "lost" ELSE fate[f]]
       \/ /\ half # NoEvent
          /\ fate' = Overwritten(e)
          /\ UNCHANGED <<events_queue, half>>
    /\ UNCHANGED handled

AddEvent(e) ==
    IF e \in Routed THEN Reroute(e)
    ELSE IF ~NewEventsAccepted THEN Refuse(e)
    ELSE /\ PushBack(e) /\ NotifyVm
         /\ UNCHANGED <<idleevents_queue, event_buffer>>

AtFront(e) == isIdle \/ Method[e] = "force"

PrependEvent(e) ==
    IF ~NewEventsAccepted THEN RefuseSilently(e)
    ELSE /\ IF AtFront(e) THEN PushFront(e) ELSE PushBack(e)
         /\ NotifyVm
         /\ UNCHANGED <<idleevents_queue, event_buffer>>

\* removeprevious: only the first similar event is erased.
FirstSimilar(e) ==
    {i \in DOMAIN idleevents_queue :
        /\ Method[e] = "replaceIdle" /\ idleevents_queue[i] \in Similar[e]
        /\ \A k \in 1 .. i - 1 : idleevents_queue[k] \notin Similar[e]}

WithoutNone(q, i) == q
Without(q, i) == SubSeq(q, 1, i - 1) \o SubSeq(q, i + 1, Len(q))

AddIdleEvent(e) ==
    IF ~NewEventsAccepted THEN RefuseSilently(e)
    ELSE IF e \in Routed THEN Reroute(e)
    ELSE /\ \/ /\ FirstSimilar(e) = {}
               /\ idleevents_queue' = Append(idleevents_queue, e)
               /\ Accept(e)
            \/ \E i \in FirstSimilar(e) :
               /\ idleevents_queue' = Append(Without(idleevents_queue, i), e)
               /\ fate' = [fate EXCEPT ![e] = "queued", ![idleevents_queue[i]] = "replaced"]
               /\ UNCHANGED handled
         /\ UNCHANGED <<events_queue, event_buffer, half, vpc>>

AddBufferEvent(e) ==
    IF ~NewEventsAccepted THEN RefuseSilently(e)
    ELSE /\ event_buffer' = IF Method[e] = "bufferHead" THEN <<e>> \o event_buffer
                            ELSE Append(event_buffer, e)
         /\ Accept(e)
         /\ UNCHANGED <<events_queue, idleevents_queue, half, vpc>>

\* The operation a thread other than the VM thread calls for e.
Call(e) ==
    CASE Method[e] = "add"                        -> AddEvent(e)
      [] Method[e] \in {"prepend", "force"}       -> PrependEvent(e)
      [] Method[e] \in {"addIdle", "replaceIdle"} -> AddIdleEvent(e)
      [] Method[e] \in {"buffer", "bufferHead"}   -> AddBufferEvent(e)

-----------------------------------------------------------------------------
(***************************************************************************)
(* The posting threads: timer threads (tick events, IdleEvent, the         *)
(* FunctionEvent of an interval), the input thread and the browser.        *)
(***************************************************************************)

ToPost(t) == Program[t][next[t]]
HasNext(t) == next[t] <= Len(Program[t])

\* mainsignalCond.broadcast(), without mainsignalMutex.
Awake == [p \in Posters |-> IF ppc[p] = "asleep" THEN "check" ELSE ppc[p]]
AfterSignal == IF handled' = handled THEN ppc ELSE Awake

\* SystemState::tick returns before it posts anything when the player is
\* shutting down or halted; otherwise it clears isIdle, without the mutex.
BeginTick(p) ==
    /\ ppc[p] = "run" /\ HasNext(p) /\ Kind[ToPost(p)] = "tick"
    /\ IF shutdown \/ halted
       THEN /\ next' = [next EXCEPT ![p] = Len(Program[p]) + 1]
            /\ UNCHANGED <<isIdle, ppc>>
       ELSE /\ isIdle' = FALSE
            /\ ppc' = [ppc EXCEPT ![p] = "tick"]
            /\ UNCHANGED next
    /\ UNCHANGED <<queueVars, shuttingdown, halted, status, vmVars, eventVars, sysVars>>

\* Who waits after the call: input and tick only if the event was taken, the
\* interval runner in any case.
Waits(e) ==
    /\ Waitable(e)
    /\ fate'[e] = "queued" \/ (Kind[e] = "func" /\ Method[e] = "add")

Post(p) ==
    /\ HasNext(p)
    /\ ppc[p] = IF Kind[ToPost(p)] = "tick" THEN "tick" ELSE "run"
    /\ ~(Kind[ToPost(p)] = "shutdown" /\ error)
    /\ Call(ToPost(p))
    /\ next' = [next EXCEPT ![p] = @ + 1]
    /\ ppc' = [AfterSignal EXCEPT ![p] = IF ~Waits(ToPost(p)) THEN "run"
                                         ELSE IF Kind[ToPost(p)] = "idle" THEN "signal"
                                         ELSE "check"]
    /\ UNCHANGED <<flagVars, cur, exc, front, behind, sysVars>>

\* setShutdownFlag after an error does not go through the VM.
Runs(t) == IF t = VM THEN vpc = "handle" /\ Scripted(cur[1].ev) ELSE ppc[t] = "run"

ShutdownOnError(t) ==
    /\ Runs(t) /\ HasNext(t) /\ Kind[ToPost(t)] = "shutdown" /\ error
    /\ fate' = [fate EXCEPT ![ToPost(t)] = "elsewhere"]
    /\ shutdown' = TRUE /\ terminated' = terminated + 1
    /\ next' = [next EXCEPT ![t] = @ + 1]
    /\ UNCHANGED <<queueVars, flagVars, vmVars, handled, behind, ppc, mpc, engines, error>>

\* tick calls sendMainSignal before it waits for the IdleEvent.
TickSignal(p) ==
    /\ ppc[p] = "signal"
    /\ ppc' = [Awake EXCEPT ![p] = "check"]
    /\ UNCHANGED <<queueVars, flagVars, vmVars, eventVars, next, sysVars>>

\* WaitableEvent::wait: handled is read without any lock, and
\* waitMainSignal sleeps without looking at it again.
Waited(p) == Program[p][next[p] - 1]

Check(p) ==
    /\ ppc[p] = "check"
    /\ ppc' = [ppc EXCEPT ![p] = IF handled[Waited(p)] THEN "run" ELSE "enter"]
    /\ UNCHANGED <<queueVars, flagVars, vmVars, eventVars, next, sysVars>>

Enter(p) ==
    /\ ppc[p] = "enter"
    /\ ppc' = [ppc EXCEPT ![p] = "asleep"]
    /\ UNCHANGED <<queueVars, flagVars, vmVars, eventVars, next, sysVars>>

Finished(p) == ppc[p] = "run" /\ ~HasNext(p)

-----------------------------------------------------------------------------
(***************************************************************************)
(* ABCVm::Run and ABCVm::handleEvent                                       *)
(***************************************************************************)

InitVm ==
    /\ vpc = "init"
    /\ vpc' = "loop" /\ status' = "STARTED"
    /\ UNCHANGED <<queueVars, shuttingdown, isIdle, halted, cur, exc, front, eventVars,
                   postVars, sysVars>>

Sleep ==
    /\ vpc = "loop" /\ events_queue = <<>> /\ ~shuttingdown
    /\ vpc' = "asleep"
    /\ UNCHANGED <<queueVars, flagVars, cur, exc, front, eventVars, postVars, sysVars>>

\* The VM thread goes on after the events being handled, or takes a new one.
Resume(stack) == vpc' = IF stack = <<>> THEN "loop" ELSE "handle"

\* After a script limit error only these are still handled.
OnlyShutdown(e)      == Kind[e] = "shutdown"
HandledWhenHalted(e) == Kind[e] = "shutdown" \/ Waitable(e)

\* handleFrontEvent goes through tryHandleEvent, which catches exceptions.
Unguarded(e) == [ev |-> e, try |-> FALSE]
Guarded(e)   == [ev |-> e, try |-> TRUE]

HandleFrontEvent ==
    LET e == Head(events_queue) IN
    /\ events_queue' = Tail(events_queue)
    /\ IF halted /\ ~HandledWhenHalted(e)
       THEN /\ fate' = [fate EXCEPT ![e] = "dropped"]
            /\ UNCHANGED <<vpc, cur>>
       ELSE /\ fate' = [fate EXCEPT ![e] = "handling"]
            /\ cur' = <<Guarded(e)>> \o cur
            /\ vpc' = "handle"
    /\ UNCHANGED <<idleevents_queue, event_buffer, half, flagVars, exc, front, handled,
                   behind, postVars, sysVars>>

Take == vpc = "loop" /\ events_queue # <<>> /\ HandleFrontEvent

Handling(e) == vpc = "handle" /\ cur[1].ev = e

\* Code on the VM thread that waits for data looks for a call of the browser.
CheckExternalCallEvent ==
    /\ Runs(VM) /\ ~shuttingdown /\ events_queue # <<>>
    /\ Kind[Head(events_queue)] = "call"
    /\ HandleFrontEvent

\* The VM thread posts an event; a waitable one it handles at once, outside
\* tryHandleEvent.
VmPost ==
    /\ Runs(VM) /\ HasNext(VM)
    /\ ~(Kind[ToPost(VM)] = "shutdown" /\ error)
    /\ next' = [next EXCEPT ![VM] = @ + 1]
    /\ LET e == ToPost(VM) IN
         IF Waitable(e) /\ Method[e] \in {"add", "prepend", "force"}
         THEN /\ fate' = [fate EXCEPT ![e] = "handling"]
              /\ cur' = <<Unguarded(e)>> \o cur
              /\ UNCHANGED <<queueVars, handled, ppc, vpc>>
         ELSE Call(e) /\ ppc' = AfterSignal /\ UNCHANGED cur
    /\ UNCHANGED <<flagVars, exc, front, behind, sysVars>>

\* The effect of the event is complete; what is left is the signal.
HandlePlain ==
    /\ vpc = "handle" /\ Kind[cur[1].ev] \in {"plain", "tick", "func", "call", "gc"}
    /\ vpc' = "finish"
    /\ UNCHANGED <<queueVars, flagVars, cur, exc, front, eventVars, postVars, sysVars>>

GcFirst(q, i) == q \o <<GcOf[i]>> \o idleevents_queue
GcLast(q, i)  == q \o idleevents_queue \o <<GcOf[i]>>
WithIdleEvents(q, i) == GcLast(q, i)

HandleIdle ==
    \E i \in Idles :
    /\ Handling(i)
    /\ events_queue' = WithIdleEvents(events_queue, i)
    /\ behind' = [behind EXCEPT ![i] = Range(events_queue) \cup Range(idleevents_queue)]
    /\ idleevents_queue' = <<>>
    /\ fate' = [fate EXCEPT ![GcOf[i]] = "queued"]
    /\ isIdle' = TRUE
    /\ vpc' = "finish"
    /\ UNCHANGED <<event_buffer, half, shuttingdown, halted, status, cur, exc, front,
                   handled, postVars, sysVars>>

\* The reverse iterators of the code are turned back by base(): the buffer
\* keeps its order in every case.
BufferKept  == UNCHANGED event_buffer
ClearBuffer == event_buffer' = <<>>

HandleFlushBuffer ==
    /\ vpc = "handle" /\ Kind[cur[1].ev] \in {"flush", "flushHead"}
    /\ events_queue' = IF Kind[cur[1].ev] = "flush" THEN events_queue \o event_buffer
                       ELSE event_buffer \o events_queue
    /\ ClearBuffer
    /\ vpc' = "finish"
    /\ UNCHANGED <<idleevents_queue, half, flagVars, cur, exc, front, eventVars, postVars,
                   sysVars>>

\* SHUTDOWN moves the idle events without the mutex: push_back stores the
\* event, then counts it; then pop_front.
ShutdownStore ==
    /\ vpc = "handle" /\ Kind[cur[1].ev] = "shutdown" /\ idleevents_queue # <<>>
    /\ half' = Head(idleevents_queue)
    /\ vpc' = "move"
    /\ UNCHANGED <<events_queue, idleevents_queue, event_buffer, flagVars, cur, exc, front,
                   eventVars, postVars, sysVars>>

\* What was moved is queued, also if a thread has replaced it meanwhile: then
\* another event is popped.
AfterMove ==
    [e \in Events |->
        IF e = half THEN "queued"
        ELSE IF idleevents_queue # <<>> /\ e = Head(idleevents_queue) /\ fate[e] = "queued" THEN "lost"
        ELSE fate[e]]

ShutdownCount ==
    /\ vpc = "move"
    /\ events_queue' = IF half = NoEvent THEN events_queue ELSE Append(events_queue, half)
    /\ half' = NoEvent
    /\ idleevents_queue' = SubSeq(idleevents_queue, 2, Len(idleevents_queue))
    /\ fate' = AfterMove
    /\ vpc' = "handle"
    /\ UNCHANGED <<event_buffer, flagVars, cur, exc, front, handled, behind, postVars, sysVars>>

ShutdownMoved ==
    /\ vpc = "handle" /\ Kind[cur[1].ev] = "shutdown" /\ idleevents_queue = <<>>
    /\ vpc' = "flag"
    /\ UNCHANGED <<queueVars, flagVars, cur, exc, front, eventVars, postVars, sysVars>>

ShutdownFlag ==
    /\ vpc = "flag"
    /\ shuttingdown' = TRUE
    /\ vpc' = "terminate"
    /\ UNCHANGED <<queueVars, isIdle, halted, status, cur, exc, front, eventVars, postVars,
                   sysVars>>

SignalTerminated ==
    /\ vpc = "terminate"
    /\ shutdown' = TRUE /\ terminated' = terminated + 1
    /\ vpc' = "finish"
    /\ UNCHANGED <<queueVars, flagVars, cur, exc, front, eventVars, postVars, mpc, engines,
                   error>>

\* The end of handleEvent: a waitable event is signalled.
Signal(e)          == handled' = [handled EXCEPT ![e] = TRUE]
SignalForgotten(e) == UNCHANGED handled
SignalWaiter(e)    == IF Waitable(e) THEN Signal(e) ELSE UNCHANGED handled

Finish ==
    LET e == cur[1].ev IN
    /\ vpc = "finish"
    /\ SignalWaiter(e)
    /\ ppc' = AfterSignal
    /\ fate' = [fate EXCEPT ![e] = "handled"]
    /\ cur' = Tail(cur)
    /\ Resume(cur')
    /\ UNCHANGED <<queueVars, flagVars, exc, front, behind, next, sysVars>>

\* An exception leaves the handling of an event.  FUNCTION and EXTERNAL_CALL
\* signal the waiter before they let it pass; EXTERNAL_CALL reports an object
\* to the browser instead.
Reported(e) == exc' \in Thrown /\ Kind[e] = "call"

Throw ==
    LET e == cur[1].ev IN
    /\ vpc = "handle" /\ Scripted(e)
    /\ exc' \in Failures[e] /\ ~Reported(e)
    /\ vpc' = "unwind"
    /\ UNCHANGED <<queueVars, flagVars, cur, front, eventVars, postVars, sysVars>>

PassOn(e) == SignalWaiter(e)

\* setError, and setShutdownFlag once there is an error.
RaiseShutdown == shutdown' = TRUE /\ terminated' = terminated + 1
SetError ==
    /\ error' = TRUE
    /\ IF "exit" \in Options THEN RaiseShutdown ELSE UNCHANGED <<shutdown, terminated>>

\* tryHandleEvent: a script limit halts the VM for good; another exception of
\* the engine is recorded and the queue is emptied; an ASError is ignored or
\* recorded; any other object ends the player.
Limited == /\ exc = "limit" /\ halted' = TRUE /\ Resume(cur')
           /\ UNCHANGED <<error, shutdown, terminated>>
Failed  == exc = "internal" /\ SetError /\ vpc' = "drain" /\ UNCHANGED halted
Erred   == /\ exc = "error" /\ Resume(cur') /\ UNCHANGED halted
           /\ IF "ignore" \in Options THEN UNCHANGED <<error, shutdown, terminated>> ELSE SetError
Hurled  == /\ exc = "object" /\ vpc' = "report"
           /\ UNCHANGED <<halted, error, shutdown, terminated>>

\* Below tryHandleEvent the script that had the event handled may catch an object.
CaughtByScript == exc \in Thrown /\ exc' = "none" /\ vpc' = "handle"

Unwind ==
    LET e == cur[1].ev IN
    /\ vpc = "unwind"
    /\ PassOn(e)
    /\ ppc' = AfterSignal
    /\ fate' = [fate EXCEPT ![e] = "handled"]
    /\ cur' = Tail(cur)
    /\ IF cur[1].try
       THEN exc' = "none" /\ (Limited \/ Failed \/ Erred \/ Hurled)
       ELSE /\ CaughtByScript \/ UNCHANGED <<vpc, exc>>
            /\ UNCHANGED <<halted, error, shutdown, terminated>>
    /\ UNCHANGED <<queueVars, shuttingdown, isIdle, status, front, behind, next, mpc, engines>>

\* An object that is no ASError: setShutdownFlag, setError, setShutdownFlag.
ReportToVm ==
    /\ vpc = "report" /\ ~shutdown /\ ~error /\ fate[ShutdownEvent] = "new"
    /\ AddEvent(ShutdownEvent)
    /\ ppc' = AfterSignal
    /\ UNCHANGED <<flagVars, cur, exc, front, behind, next, sysVars>>

Report ==
    /\ vpc = "report" /\ (shutdown \/ error \/ fate[ShutdownEvent] # "new")
    /\ vpc' = "record"
    /\ IF error /\ ~shutdown THEN RaiseShutdown ELSE UNCHANGED <<shutdown, terminated>>
    /\ UNCHANGED <<queueVars, flagVars, cur, exc, front, eventVars, postVars, mpc, engines, error>>

Record ==
    /\ vpc = "record" /\ SetError
    /\ vpc' = "giveUp"
    /\ UNCHANGED <<queueVars, flagVars, cur, exc, front, eventVars, postVars, mpc, engines>>

GiveUp ==
    /\ vpc = "giveUp"
    /\ IF shutdown THEN UNCHANGED <<shutdown, terminated>> ELSE RaiseShutdown
    /\ Resume(cur)
    /\ UNCHANGED <<queueVars, flagVars, cur, exc, front, eventVars, postVars, mpc, engines, error>>

-----------------------------------------------------------------------------
(***************************************************************************)
(* ABCVm::signalEventWaiters, called by the VM thread after an exception   *)
(* and without the mutex: a thread may prepend between front and pop.      *)
(***************************************************************************)

DrainFront ==
    /\ vpc = "drain" /\ events_queue # <<>>
    /\ front' = Head(events_queue)
    /\ vpc' = "drop"
    /\ UNCHANGED <<queueVars, flagVars, cur, exc, eventVars, postVars, sysVars>>

DropFate == IF Head(events_queue) = front THEN "dropped" ELSE "mistaken"
DrainPop ==
    /\ vpc = "drop"
    /\ events_queue' = Tail(events_queue)
    /\ fate' = [fate EXCEPT ![Head(events_queue)] = DropFate]
    /\ SignalWaiter(front)
    /\ ppc' = AfterSignal
    /\ front' = NoEvent
    /\ vpc' = "drain"
    /\ UNCHANGED <<idleevents_queue, event_buffer, half, flagVars, cur, exc, behind, next,
                   sysVars>>

DrainEnd ==
    /\ vpc = "drain" /\ events_queue = <<>>
    /\ Resume(cur)
    /\ UNCHANGED <<queueVars, flagVars, cur, exc, front, eventVars, postVars, sysVars>>

\* The VM thread ends: shutdownVM sets the status, then does the rest.
StopOnEmptyQueue ==
    /\ vpc = "loop" /\ shuttingdown /\ events_queue = <<>>
    /\ vpc' = "closing" /\ status' = "TERMINATED"
    /\ UNCHANGED <<queueVars, shuttingdown, isIdle, halted, cur, exc, front, eventVars,
                   postVars, sysVars>>

NoSecondSignal == UNCHANGED terminated
SecondSignal   == terminated' = IF shutdown THEN terminated + 1 ELSE terminated

ShutdownVM ==
    /\ vpc = "closing"
    /\ SecondSignal
    /\ vpc' = "stopped"
    /\ UNCHANGED <<queueVars, flagVars, cur, exc, front, eventVars, postVars, mpc, engines,
                   shutdown, error>>

-----------------------------------------------------------------------------
(***************************************************************************)
(* SystemState::destroy and stopEngines                                    *)
(***************************************************************************)

Terminated(from, to) ==
    /\ mpc = from /\ terminated > 0
    /\ terminated' = terminated - 1
    /\ mpc' = to
    /\ UNCHANGED <<queueVars, flagVars, vmVars, eventVars, postVars, engines, shutdown, error>>

AwaitTermination == Terminated("wait", "join")

JoinPosters ==
    /\ mpc = "join" /\ \A p \in Joined : Finished(p)
    /\ mpc' = IF status = "TERMINATED" THEN "engines" ELSE "shutdown"
    /\ UNCHANGED <<queueVars, flagVars, vmVars, eventVars, postVars, engines, shutdown,
                   error, terminated>>

StopEngines ==
    /\ mpc = "engines"
    /\ mpc' = "shutdown" /\ engines' = TRUE
    /\ UNCHANGED <<queueVars, flagVars, vmVars, eventVars, postVars, shutdown, error, terminated>>

\* ABCVm::shutdown does something only for a VM that runs.
AfterShutdown == IF engines THEN "deleted" ELSE "post"

ShutdownBegin ==
    /\ mpc = "shutdown" /\ status = "STARTED"
    /\ shuttingdown' = TRUE
    /\ NotifyVm
    /\ mpc' = "joinVm"
    /\ UNCHANGED <<queueVars, isIdle, halted, status, cur, exc, front, eventVars, postVars,
                   engines, shutdown, error, terminated>>

ShutdownSkip ==
    /\ mpc = "shutdown" /\ status # "STARTED"
    /\ mpc' = AfterShutdown
    /\ UNCHANGED <<queueVars, flagVars, vmVars, eventVars, postVars, engines, shutdown,
                   error, terminated>>

JoinVm ==
    /\ mpc = "joinVm" /\ vpc = "stopped"
    /\ status' = "TERMINATED"
    /\ mpc' = "drain"
    /\ UNCHANGED <<queueVars, shuttingdown, isIdle, halted, vmVars, eventVars, postVars,
                   engines, shutdown, error, terminated>>

\* The signalEventWaiters that follows finds nothing: the VM thread ended
\* with an empty queue (NoEventStranded) and no event is accepted any more.
ShutdownEnd ==
    /\ mpc = "drain" /\ events_queue = <<>>
    /\ mpc' = AfterShutdown
    /\ UNCHANGED <<queueVars, flagVars, vmVars, eventVars, postVars, engines, shutdown,
                   error, terminated>>

PostShutdown ==
    /\ mpc = "post"
    /\ AddEvent(ToPost(Main))
    /\ next' = [next EXCEPT ![Main] = @ + 1]
    /\ ppc' = AfterSignal
    /\ mpc' = "again"
    /\ UNCHANGED <<flagVars, cur, exc, front, behind, engines, shutdown, error, terminated>>

AwaitAgain == Terminated("again", "engines")

-----------------------------------------------------------------------------
PosterStep(p) == BeginTick(p) \/ Post(p) \/ ShutdownOnError(p) \/ TickSignal(p)
                 \/ Check(p) \/ Enter(p)

HandleStep == HandlePlain \/ HandleIdle \/ HandleFlushBuffer \/ ShutdownStore
              \/ ShutdownCount \/ ShutdownMoved \/ ShutdownFlag \/ SignalTerminated
              \/ Finish
              \/ Throw \/ Unwind \/ ReportToVm \/ Report \/ Record \/ GiveUp
              \/ CheckExternalCallEvent \/ VmPost \/ ShutdownOnError(VM)

VmStep == InitVm \/ Sleep \/ Take \/ HandleStep
          \/ DrainFront \/ DrainPop \/ DrainEnd \/ StopOnEmptyQueue \/ ShutdownVM

MainStep == AwaitTermination \/ JoinPosters \/ StopEngines \/ ShutdownBegin
            \/ ShutdownSkip \/ JoinVm \/ ShutdownEnd
            \/ PostShutdown \/ AwaitAgain

Next == VmStep \/ MainStep \/ \E p \in Posters : PosterStep(p)

Spec == Init /\ [][Next]_vars

\* Every thread is scheduled by the operating system; a thread asleep on the
\* main signal has no step to take until someone broadcasts.
Fairness == WF_vars(VmStep) /\ WF_vars(MainStep) /\ \A p \in Posters : WF_vars(PosterStep(p))
FairSpec == Spec /\ Fairness

-----------------------------------------------------------------------------
(***************************************************************************)
(* Properties                                                              *)
(***************************************************************************)

Fates == {"new", "queued", "handling", "handled", "dropped", "refused", "replaced", "elsewhere",
          "lost", "mistaken"}

VmPositions == {"init", "loop", "asleep", "handle", "move", "flag", "terminate", "finish", "unwind",
                "report", "record", "giveUp", "drain", "drop", "closing", "stopped"}
PosterPositions == {"run", "tick", "signal", "check", "enter", "asleep"}
MainPositions == {"wait", "join", "shutdown", "joinVm", "drain", "post", "again", "engines",
                  "deleted"}

QueueType ==
    /\ events_queue \in Seq(Events) /\ idleevents_queue \in Seq(Events)
    /\ event_buffer \in Seq(Events) /\ half \in Events \cup {NoEvent}
FlagType ==
    /\ shuttingdown \in BOOLEAN /\ isIdle \in BOOLEAN /\ halted \in BOOLEAN
    /\ status \in {"CREATED", "STARTED", "TERMINATED"}
VmType ==
    /\ vpc \in VmPositions /\ cur \in Seq(Frame) /\ exc \in {"none"} \cup Exceptions
    /\ front \in Events \cup {NoEvent}
EventType ==
    /\ fate \in [Events -> Fates] /\ handled \in [Events -> BOOLEAN]
    /\ behind \in [Idles -> SUBSET Events]
PostType ==
    /\ ppc \in [Posters -> PosterPositions]
    /\ next \in [Threads -> Nat \ {0}]
SysType ==
    /\ mpc \in MainPositions /\ engines \in BOOLEAN
    /\ shutdown \in BOOLEAN /\ error \in BOOLEAN /\ terminated \in Nat

\* Every variable stays in its range.
TypeOK == QueueType /\ FlagType /\ VmType /\ EventType /\ PostType /\ SysType

Places(e) == {<<"queue", i>> : i \in {k \in DOMAIN events_queue : events_queue[k] = e}}
             \cup {<<"idle", i>> : i \in {k \in DOMAIN idleevents_queue : idleevents_queue[k] = e}}
             \cup {<<"buffer", i>> : i \in {k \in DOMAIN event_buffer : event_buffer[k] = e}}

\* An event a queueing operation took is in exactly one place of the three
\* containers until the VM takes it out: no path through idle queue, buffer,
\* flush, removal of similar events or draining loses or doubles it, but for
\* the two that the unlocked move of SHUTDOWN can make a lost one of: one of
\* two that go into the same cell, and what is popped in place of the event
\* that was moved.  (While SHUTDOWN moves an event it is in no or two places.)
NoEventLost ==
    vpc # "move" => \A e \in Events : Cardinality(Places(e)) = IF fate[e] = "queued" THEN 1 ELSE 0

\* What one thread posts with addEvent is begun in the order of its calls,
\* whatever is prepended, flushed or moved from the idle queue meanwhile.
Begun(e) == fate[e] \in {"handling", "handled", "dropped", "mistaken"}

TickOrder ==
    \A p \in Posters : \A i, k \in DOMAIN Program[p] :
        /\ i < k /\ Method[Program[p][i]] = "add" /\ Method[Program[p][k]] = "add"
        /\ Begun(Program[p][k])
        => fate[Program[p][i]] # "queued"

\* To who posts, the queue with its idle events and its buffer is one that
\* handles an event at most once and keeps the order of a thread's addEvents.
Delivery == INSTANCE EventDelivery
DeliversInOrder == Delivery!Spec

\* "ensure gc is done after _all_ events added during SystemState tick are
\* handled": the collection an IdleEvent asks for begins after every event
\* that was queued or idle when the IdleEvent was handled.
CollectedLast ==
    \A i \in Idles : Begun(GcOf[i]) => \A e \in behind[i] : fate[e] # "queued"

\* The VM thread never ends with events in events_queue, and none gets into it
\* afterwards.  (An event that waits in idleevents_queue or event_buffer then
\* stays there: SHUTDOWN moves the idle ones there are when it is handled.)
NoEventStranded == vpc \in {"closing", "stopped"} => events_queue = <<>>

\* No exception leaves Run: while one is thrown through the nested calls of
\* handleEvent there is a tryHandleEvent further down the stack that stops it.
ExceptionCaught == vpc = "unwind" => \E i \in DOMAIN cur : cur[i].try

\* The parts of an inductive invariant that NoEventStranded and
\* ExceptionCaught rest on: the VM thread handles an event exactly when its
\* stack is not empty and tryHandleEvent is its lowest frame; the queue of a
\* VM that ended is closed; signalEventWaiters pops what it saw; destroy
\* posts its own SHUTDOWN event once.
HandlerStack ==
    /\ vpc \in {"handle", "move", "flag", "terminate", "finish", "unwind"} => cur # <<>>
    /\ vpc \in {"init", "loop", "asleep", "closing", "stopped"} => cur = <<>>
    /\ cur # <<>> => cur[Len(cur)].try
QueueClosed == vpc \in {"closing", "stopped"} => shuttingdown /\ events_queue = <<>>
FrontThere  == vpc = "drop" => events_queue # <<>> /\ front # NoEvent
PostedOnce  ==
    /\ mpc \in {"wait", "join", "post"} => ~engines
    /\ mpc \in {"wait", "join", "shutdown", "joinVm", "drain", "post"} /\ ~engines
       => next[Main] = 1

IInv == TypeOK /\ HandlerStack /\ QueueClosed /\ FrontThere /\ PostedOnce

\* A thread that is about to wait, or waits, for an event the VM has not
\* signalled can count on it: the event is in the queue or being handled,
\* unless the unlocked move of SHUTDOWN or the unlocked pop of
\* signalEventWaiters has removed it in the place of another.
Astray(e) == fate[e] \in {"lost", "mistaken"}
Pending(e) == e \in Range(events_queue) \/ \E i \in DOMAIN cur : cur[i].ev = e

WaitedEventPending ==
    \A p \in Posters :
        ppc[p] \in {"signal", "check", "enter", "asleep"} /\ ~handled[Waited(p)]
        => Pending(Waited(p)) \/ Astray(Waited(p))

\* A waitable event that was queued is signalled, also when the VM is halted,
\* shutting down or an exception leaves the handler, unless it went astray.
QueuedWaitableSignalled ==
    \A e \in Events : Waitable(e) => (fate[e] = "queued" ~> handled[e] \/ Astray(e))

\* Once the SHUTDOWN event is queued the engines are stopped and deleted,
\* unless an exception empties the queue.
ShutdownCompletesUnlessError ==
    \A e \in Events : Kind[e] = "shutdown" => (fate[e] = "queued" ~> mpc = "deleted" \/ error)

-----------------------------------------------------------------------------
(***************************************************************************)
(* What the comments and assertions say and the code does not keep         *)
(***************************************************************************)

\* "no need to lock as this is the vm thread" (SHUTDOWN), "we do not need a lock
\* because th->shuttingdown keeps other events from being enqueued"
\* (signalEventWaiters): no event is overwritten or popped unseen.
NoEventAstray == \A e \in Events : ~Astray(e)

\* signalEventWaiters asserts shuttingdown.
DrainsClosedQueue == vpc \in {"drain", "drop"} => shuttingdown

\* "first shutdown the vm, because it can use all the others" (stopEngines).
VmStoppedBeforeEngines == mpc = "deleted" => vpc = "stopped"

\* signalEventWaiters "breaks the lock on all enqueued events to prevent
\* deadlocking": the player ends also after an exception.
ShutdownCompletes ==
    \A e \in Events : Kind[e] = "shutdown" => (fate[e] = "queued" ~> mpc = "deleted")
=============================================================================
