-------------------------- MODULE BackgroundWorkers --------------------------
(***************************************************************************)
(* Background workers (ASWorker.cpp): jobs of the thread pool that run     *)
(* ActionScript of their own, with a queue of events each.  The threads    *)
(* that meet here are the VM thread, the thread of each worker, and the    *)
(* one that stops the thread pool at the end.                              *)
(*                                                                         *)
(* What one thread does for a worker runs through three mutexes - of the   *)
(* VM's event queue, of the list of workers, of the pool - and through     *)
(* calls that call each other: jobFence posts an event, a post is passed   *)
(* on to the listed workers, an event nobody takes is answered by          *)
(* afterHandleEvent, which may remove a worker, and a removal fences the   *)
(* jobs that worker has started.  The calls of a thread are its stack      *)
(* `todo'; a mutex is held as long as its unlock is on a stack.  The       *)
(* mutexes are recursive.                                                  *)
(***************************************************************************)
EXTENDS Integers, Sequences, FiniteSets, SequencesExt

CONSTANTS
    Workers,    \* background workers, and their threads
    Vm, Main,   \* the VM thread, and the thread in SystemState::destroy
    Plain,      \* an event that has nothing to do with a worker's state
    MaxPlain,   \* bound: events of that kind
    Scenes      \* bound: what the scripts of a program do: which thread starts
                \* which worker where, terminates which, sends to which, and
                \* which workers have handlers that fail; whether there
                \* are listeners for the state of workers, and whether the player ends

ASSUME WorkersAssumption ==
    IsFiniteSet(Workers) /\ Vm \notin Workers /\ Main \notin Workers /\ Vm # Main
    /\ Plain \notin Workers /\ MaxPlain \in Nat

Threads == Workers \union {Vm, Main}

VARIABLES
    started, threadAborting,
    state,       \* ASWorker::state
    parser,      \* ASWorker::parser, and whether terminate() told it to stop
    events,      \* ASWorker::events_queue
    place,       \* where the thread pool has the worker
    from,        \* IThreadJob::fromWorker
    pc, cur,     \* the thread of a worker: where it is, the event it handles
    workerlist,  \* WorkerDomain::workerlist, without the worker of the VM
    vmQueue,     \* events of the VM about the state of workers
    shuttingdown, terminated, stopFlag,
    todo,        \* the calls each thread is in, the innermost first
    plain,       \* how many plain events were sent
    scene,       \* the program
    told, late, fences, quit, missed  \* history: terminate() was called; events
                     \* queued after the loop; fences; execute() gave up or was
                     \* not called; an abort was signalled before the worker waited

queueVars == <<events, late>>
jobVars   == <<place, from, fences>>
runVars   == <<pc, cur, parser>>
flagVars  == <<started, threadAborting, state, told, quit, missed>>
vmVars    == <<vmQueue, shuttingdown, terminated, stopFlag, plain, scene>>
vars == <<queueVars, jobVars, runVars, flagVars, vmVars, workerlist, todo>>

Frame(op, w) == [op |-> op, worker |-> w, about |-> w, index |-> 1]
unlockQueue   == Frame("unlockQueue", Vm)
unlockWorkers == Frame("unlockWorkers", Vm)
unlockPool    == Frame("unlockPool", Vm)

Init ==
    /\ started = [w \in Workers |-> FALSE] /\ threadAborting = started
    /\ state = [w \in Workers |-> "new"] /\ parser = [w \in Workers |-> "none"]
    /\ events = [w \in Workers |-> <<>>]
    /\ place = [w \in Workers |-> "new"] /\ from = [w \in Workers |-> Vm]
    /\ pc = [w \in Workers |-> "none"] /\ cur = [w \in Workers |-> Plain]
    /\ workerlist = <<>> /\ vmQueue = <<>> /\ shuttingdown = FALSE /\ terminated = FALSE /\ stopFlag = FALSE
    /\ todo = [t \in Threads |-> <<>>] /\ plain = 0 /\ scene \in Scenes
    /\ told = started /\ quit = started /\ missed = started
    /\ late = [w \in Workers |-> 0] /\ fences = late

(***************************************************************************)
(* Calls and mutexes.                                                      *)
(***************************************************************************)
Doing(t, op) == todo[t] # <<>> /\ Head(todo[t]).op = op
Top(t)       == Head(todo[t])

\* The innermost call of t goes on with these; an idle thread t begins them.
\* An unlock that comes first is done at once.
Unlocks      == {unlockQueue, unlockWorkers, unlockPool}
Unlocked(s)  == LET K == {i \in 1..Len(s) : s[i] \notin Unlocks}
                IN IF K = {} THEN <<>> ELSE SubSeq(s, Min(K), Len(s))
GoesOn(t, calls) == todo' = [todo EXCEPT ![t] = Unlocked(calls \o Tail(@))]
Begins(t, calls) == todo' = [todo EXCEPT ![t] = calls]

Holds(t, m)   == \E i \in 1..Len(todo[t]) : todo[t][i] = m
MayLock(t, m) == \A u \in Threads \ {t} : ~Holds(u, m)

\* Mutant: nobody is woken.
WokenNever(S) == pc

\* sem_event_cond.signal(): a worker that waits wakes up.
Woken(S) == [w \in Workers |-> IF w \in S /\ pc[w] = "asleep" THEN "loop" ELSE pc[w]]
Signal(S) == pc' = Woken(S) /\ UNCHANGED <<cur, parser>>

\* threadAbort() of the workers of S, with the flag that the pool sets before.
Abort(S) ==
    /\ threadAborting' = [w \in Workers |-> w \in S \/ threadAborting[w]]
    /\ missed' = [w \in Workers |-> missed[w] \/ (w \in S /\ pc[w] = "wait")]
    /\ Signal(S)

(***************************************************************************)
(* Posting an event about the state of a worker.                           *)
(***************************************************************************)
\* ABCVm::addEvent with isGlobalMessage.
AddEvent(t) ==
    /\ Doing(t, "post") /\ MayLock(t, unlockQueue)
    /\ LET w == Top(t).worker IN
       IF shuttingdown
         THEN GoesOn(t, <<Frame("after", w), unlockQueue>>) /\ UNCHANGED vmQueue
         ELSE /\ vmQueue' = Append(vmQueue, w)
              /\ GoesOn(t, <<Frame("broadcast", w), unlockQueue>>)
    /\ UNCHANGED <<queueVars, jobVars, runVars, flagVars, shuttingdown, terminated, stopFlag, plain, scene, workerlist>>

\* addEventToBackgroundWorkers, if the object has a listener: the loop looks
\* at the list anew each time.
Broadcast(t) ==
    /\ Doing(t, "broadcast") /\ MayLock(t, unlockWorkers)
    /\ GoesOn(t, IF scene.listens THEN <<Frame("tell", Top(t).worker), unlockWorkers>> ELSE <<>>)
    /\ UNCHANGED <<queueVars, jobVars, runVars, flagVars, vmVars, workerlist>>

\* ASWorker::addEvent: threadAborting is tested without a lock.
AddCall(v, about) ==
    IF threadAborting[v] THEN Frame("after", about)
                         ELSE [op |-> "push", worker |-> v, about |-> about, index |-> 1]

Tell(t) ==
    /\ Doing(t, "tell")
    /\ LET i == Top(t).index IN
       IF i > Len(workerlist)
         THEN GoesOn(t, <<>>)
         ELSE GoesOn(t, <<AddCall(workerlist[i], Top(t).about), [Top(t) EXCEPT !.index = i + 1]>>)
    /\ UNCHANGED <<queueVars, jobVars, runVars, flagVars, vmVars, workerlist>>

\* The loop of a worker has event_queue_mutex until it sleeps.
Gone(v) == pc[v] \in {"leave", "ended"}
Push(t) ==
    /\ Doing(t, "push")
    /\ LET v == Top(t).worker IN
       /\ pc[v] # "wait"
       /\ events' = [events EXCEPT ![v] = Append(@, Top(t).about)]
       /\ late' = [late EXCEPT ![v] = IF Gone(v) THEN @ + 1 ELSE @]
       /\ Signal({v})
    /\ GoesOn(t, <<>>)
    /\ UNCHANGED <<jobVars, flagVars, vmVars, workerlist>>

\* ASWorker::afterHandleEvent.
AfterHandleEvent(t) ==
    /\ Doing(t, "after")
    /\ LET w == Top(t).worker IN
       IF w # Plain /\ state[w] = "terminated" THEN GoesOn(t, <<Frame("remove", w)>>)
                                                ELSE GoesOn(t, <<>>)
    /\ UNCHANGED <<queueVars, jobVars, runVars, flagVars, vmVars, workerlist>>

(***************************************************************************)
(* removeWorker, which stops the jobs that the worker has started, and     *)
(* forceStop, which stops all jobs.                                        *)
(***************************************************************************)
RemoveWorker(t) ==
    /\ Doing(t, "remove") /\ MayLock(t, unlockWorkers)
    /\ workerlist' = RemoveFirst(workerlist, Top(t).worker)
    /\ GoesOn(t, <<Frame("sweep", Top(t).worker), Frame("extras", Top(t).worker), unlockWorkers>>)
    /\ UNCHANGED <<queueVars, jobVars, runVars, flagVars, vmVars>>

\* The jobs that a sweep for w is about; the thread Main stops all.
JobsOf(w) == IF w = Main THEN Workers ELSE {v \in Workers : from[v] = w}

\* A thread of the pool has the job from the start of execute() to its end.
Executing(v) == place[v] = "pool" /\ pc[v] # "ended"

\* Mutant: a fenced job stays in the queue of the pool.
SweepKeepsQueued(t) ==
    /\ Doing(t, "sweep") /\ MayLock(t, unlockPool)
    /\ LET J == JobsOf(Top(t).worker)
           Q == {v \in J : place[v] = "queued"} IN
       /\ Abort({v \in J : Executing(v)})
       /\ \E q \in SetToSeqs(Q) :
            GoesOn(t, [i \in 1..Cardinality(Q) |-> Frame("fence", q[i])] \o <<unlockPool>>)
    /\ UNCHANGED <<queueVars, jobVars, started, state, told, quit, vmVars, workerlist>>

\* The section under the mutex of the pool: queued jobs are fenced in it.
Sweep(t) ==
    /\ Doing(t, "sweep") /\ MayLock(t, unlockPool)
    /\ LET J == JobsOf(Top(t).worker)
           Q == {v \in J : place[v] = "queued"} IN
       /\ Abort({v \in J : Executing(v)})
       /\ place' = [v \in Workers |-> IF v \in Q THEN "swept" ELSE place[v]]
       /\ \E q \in SetToSeqs(Q) :
            GoesOn(t, [i \in 1..Cardinality(Q) |-> Frame("fence", q[i])] \o <<unlockPool>>)
    /\ UNCHANGED <<queueVars, from, fences, started, state, told, quit, vmVars, workerlist>>

\* The thread has fenced its job: an additional one has cleared its pair.
Ended(w) == pc[w] = "ended" /\ todo[w] = <<>>

\* The additional threads, outside the mutex: a job that is still there is
\* aborted and fenced, and its thread waited for.  A thread that has cleared
\* its job is waited for by forceStop only.
Extras(t) ==
    /\ Doing(t, "extras")
    /\ LET X == {v \in JobsOf(Top(t).worker) : place[v] = "extra" /\ ~Ended(v)} IN
       \/ /\ X = {} /\ GoesOn(t, <<>>) /\ UNCHANGED <<threadAborting, missed, runVars>>
       \/ \E v \in X :
            /\ Abort({v})
            /\ GoesOn(t, <<Frame("fence", v), Frame("join", v), Top(t)>>)
    /\ UNCHANGED <<queueVars, jobVars, started, state, told, quit, vmVars, workerlist>>

Join(t) ==
    /\ Doing(t, "join") /\ Ended(Top(t).worker)
    /\ GoesOn(t, <<>>)
    /\ UNCHANGED <<queueVars, jobVars, runVars, flagVars, vmVars, workerlist>>

\* forceStop joins the threads of the pool before it looks at the others.
JoinPool(t) ==
    /\ Doing(t, "joinpool")
    /\ \A v \in Workers : place[v] = "pool" => Ended(v)
    /\ GoesOn(t, <<>>)
    /\ UNCHANGED <<queueVars, jobVars, runVars, flagVars, vmVars, workerlist>>

jobFence(t) ==
    /\ Doing(t, "fence")
    /\ LET w == Top(t).worker IN
       /\ state' = [state EXCEPT ![w] = "terminated"]
       /\ fences' = [fences EXCEPT ![w] = @ + 1]
       /\ GoesOn(t, <<Frame("post", w), Frame("wake", w)>>)
    /\ UNCHANGED <<queueVars, place, from, runVars, started, threadAborting, told, quit, missed, vmVars, workerlist>>

Wake(t) ==
    /\ Doing(t, "wake")
    /\ Signal({Top(t).worker}) /\ GoesOn(t, <<>>)
    /\ UNCHANGED <<queueVars, jobVars, flagVars, vmVars, workerlist>>

Call(t) == \/ AddEvent(t) \/ Broadcast(t) \/ Tell(t) \/ Push(t) \/ AfterHandleEvent(t)
           \/ RemoveWorker(t) \/ Sweep(t) \/ Extras(t) \/ Join(t) \/ JoinPool(t) \/ jobFence(t) \/ Wake(t)

(***************************************************************************)
(* The thread of a worker: ASWorker::execute.                              *)
(***************************************************************************)
At(w, l)     == pc[w] = l /\ todo[w] = <<>>
MovesTo(w, l) == pc' = [pc EXCEPT ![w] = l]

\* A thread of the pool takes the job; an additional thread has one.
TakeJob(w) ==
    /\ place[w] = "queued" /\ ~stopFlag /\ MayLock(w, unlockPool)
    /\ place' = [place EXCEPT ![w] = "pool"]
    /\ MovesTo(w, "begin")
    /\ UNCHANGED <<queueVars, from, fences, cur, parser, flagVars, vmVars, workerlist, todo>>

\* The thread of the pool has the job, and finds that the pool was stopped:
\* it ends, and fences nothing.
Dropped(w) ==
    /\ At(w, "begin") /\ place[w] = "pool" /\ stopFlag
    /\ MovesTo(w, "ended") /\ quit' = [quit EXCEPT ![w] = TRUE]
    /\ UNCHANGED <<queueVars, jobVars, cur, parser, started, threadAborting, state, told, missed,
                   vmVars, workerlist, todo>>

CreateParser(w) ==
    /\ At(w, "begin")
    /\ parser' = [parser EXCEPT ![w] = "there"] /\ MovesTo(w, "enlist")
    /\ UNCHANGED <<queueVars, jobVars, cur, flagVars, vmVars, workerlist, todo>>

\* addWorker, then an event about the new state.
AddWorker(w) ==
    /\ At(w, "enlist") /\ MayLock(w, unlockWorkers)
    /\ workerlist' = Append(workerlist, w)
    /\ MovesTo(w, "test") /\ Begins(w, <<Frame("post", w)>>)
    /\ UNCHANGED <<queueVars, jobVars, cur, parser, flagVars, vmVars>>

\* The parser runs unless the worker is aborted, and ends with its data or
\* when it was told to.
DropParser(w) == parser' = [parser EXCEPT ![w] = "none"] /\ MovesTo(w, "loop")

\* Mutant: the parser runs although the worker is aborted.
ParseAnyway(w) ==
    /\ At(w, "test") /\ MovesTo(w, "parse")
    /\ UNCHANGED <<queueVars, jobVars, cur, parser, flagVars, vmVars, workerlist, todo>>

TestAborting(w) ==
    /\ At(w, "test")
    /\ IF threadAborting[w] THEN DropParser(w) ELSE MovesTo(w, "parse") /\ UNCHANGED parser
    /\ UNCHANGED <<queueVars, jobVars, cur, flagVars, vmVars, workerlist, todo>>

Parsed(w) ==
    /\ At(w, "parse") /\ DropParser(w)
    /\ UNCHANGED <<queueVars, jobVars, cur, flagVars, vmVars, workerlist, todo>>

\* Mutant: the loop ends with the flag, whatever is queued.
LeavesAtOnce(w) == threadAborting[w]

\* The head of the loop, with event_queue_mutex.
Leaves(w) == threadAborting[w] /\ events[w] = <<>>
LoopHead(w) ==
    /\ At(w, "loop")
    /\ \/ /\ ~threadAborting[w] /\ events[w] = <<>>
          /\ MovesTo(w, "wait") /\ UNCHANGED <<cur, events>>
       \/ /\ Leaves(w)
          /\ MovesTo(w, "leave") /\ UNCHANGED <<cur, events>>
       \/ /\ ~Leaves(w) /\ events[w] # <<>>
          /\ MovesTo(w, "handle")
          /\ cur' = [cur EXCEPT ![w] = Head(events[w])]
          /\ events' = [events EXCEPT ![w] = Tail(@)]
    /\ UNCHANGED <<late, jobVars, parser, flagVars, vmVars, workerlist, todo>>

\* Mutant: the mutex is not given back.
WaitKeepsMutex(w) == At(w, "wait") /\ UNCHANGED vars

\* sem_event_cond.wait() gives the mutex back.
Wait(w) ==
    /\ At(w, "wait") /\ MovesTo(w, "asleep")
    /\ UNCHANGED <<queueVars, jobVars, cur, parser, flagVars, vmVars, workerlist, todo>>

\* The event was handled, or an exception went through and set the flag.
Handled(w) ==
    /\ At(w, "handle")
    /\ \/ Begins(w, <<Frame("after", cur[w])>>) /\ UNCHANGED threadAborting
       \/ /\ w \in scene.fails
          /\ threadAborting' = [threadAborting EXCEPT ![w] = TRUE] /\ UNCHANGED todo
    /\ MovesTo(w, "handled")
    /\ UNCHANGED <<queueVars, jobVars, cur, parser, started, state, told, quit, missed, vmVars, workerlist>>

\* With ignoreUnhandledExceptions an exception ends execute() here.
GiveUp(w) ==
    /\ At(w, "handle") /\ w \in scene.fails
    /\ quit' = [quit EXCEPT ![w] = TRUE] /\ MovesTo(w, "leave")
    /\ UNCHANGED <<queueVars, jobVars, cur, parser, started, threadAborting, state, told, missed, vmVars, workerlist, todo>>

\* After an event an aborted worker answers what is left without handling it.
AfterEvent(w) ==
    /\ At(w, "handled")
    /\ \/ /\ ~threadAborting[w] /\ MovesTo(w, "loop") /\ UNCHANGED <<events, started, todo>>
       \/ /\ threadAborting[w] /\ events[w] # <<>>
          /\ Begins(w, <<Frame("after", Head(events[w]))>>)
          /\ events' = [events EXCEPT ![w] = Tail(@)]
          /\ UNCHANGED <<pc, started>>
       \/ /\ threadAborting[w] /\ events[w] = <<>>
          /\ started' = [started EXCEPT ![w] = FALSE]
          /\ MovesTo(w, "loop") /\ UNCHANGED <<events, todo>>
    /\ UNCHANGED <<late, jobVars, cur, parser, threadAborting, state, told, quit, missed, vmVars, workerlist>>

\* execute() has returned; a thread of the pool forgets the job and fences it.
Return(w) ==
    /\ At(w, "leave")
    /\ place[w] = "pool" => MayLock(w, unlockPool)
    /\ MovesTo(w, "ended") /\ Begins(w, <<Frame("fence", w)>>)
    /\ UNCHANGED <<queueVars, jobVars, cur, parser, flagVars, vmVars, workerlist>>

WorkerStep(w) == \/ TakeJob(w) \/ Dropped(w) \/ CreateParser(w) \/ AddWorker(w) \/ TestAborting(w) \/ Parsed(w)
                 \/ LoopHead(w) \/ Wait(w) \/ Handled(w) \/ GiveUp(w)
                 \/ AfterEvent(w) \/ Return(w)

(***************************************************************************)
(* Scripts: of the VM, or of a worker that parses or handles an event.     *)
(***************************************************************************)
RunsScript(t) ==
    /\ todo[t] = <<>>
    /\ t \in Workers => pc[t] \in {"parse", "handle"}

\* start(): a worker is started once here; addJob() may find the pool full.
Start(t, w) ==
    /\ RunsScript(t) /\ ~started[w] /\ place[w] = "new" /\ MayLock(t, unlockPool)
    /\ \E p \in {"queued", "extra"} : <<t, w, p>> \in scene.starts
    /\ started' = [started EXCEPT ![w] = TRUE]
    /\ from' = [from EXCEPT ![w] = t]
    /\ \/ /\ stopFlag /\ place' = [place EXCEPT ![w] = "swept"]
          /\ Begins(t, <<Frame("fence", w), unlockPool>>) /\ UNCHANGED pc
       \/ /\ ~stopFlag /\ <<t, w, "queued">> \in scene.starts
          /\ place' = [place EXCEPT ![w] = "queued"] /\ UNCHANGED <<pc, todo>>
       \/ /\ ~stopFlag /\ <<t, w, "extra">> \in scene.starts
          /\ place' = [place EXCEPT ![w] = "extra"]
          /\ MovesTo(w, "begin") /\ UNCHANGED todo
    /\ UNCHANGED <<queueVars, fences, cur, parser, threadAborting, state, told, quit, missed, vmVars, workerlist>>

Terminate(t, w) ==
    /\ RunsScript(t) /\ ~told[w] /\ <<t, w>> \in scene.ends
    /\ told' = [told EXCEPT ![w] = TRUE]
    /\ threadAborting' = [threadAborting EXCEPT ![w] = TRUE]
    /\ missed' = [missed EXCEPT ![w] = @ \/ pc[w] = "wait"]
    /\ parser' = [parser EXCEPT ![w] = IF @ = "there" THEN "told" ELSE @]
    /\ pc' = Woken({w}) /\ UNCHANGED cur
    /\ started' = [started EXCEPT ![w] = FALSE]
    /\ Begins(t, <<Frame("remove", w)>>)
    /\ UNCHANGED <<queueVars, jobVars, state, quit, vmVars, workerlist>>

\* An event for a worker that runs or has run, of a message channel say.
Send(t, w) ==
    /\ RunsScript(t) /\ plain < MaxPlain /\ <<t, w>> \in scene.sends /\ place[w] \in {"pool", "extra"}
    /\ plain' = plain + 1
    /\ Begins(t, <<AddCall(w, Plain)>>)
    /\ UNCHANGED <<queueVars, jobVars, runVars, flagVars, vmQueue, shuttingdown, terminated, stopFlag, scene, workerlist>>

Script(t) == \E w \in Workers : Start(t, w) \/ Terminate(t, w) \/ Send(t, w)

(***************************************************************************)
(* The VM thread, and the end of the player.                               *)
(***************************************************************************)
VmHandles ==
    /\ todo[Vm] = <<>> /\ vmQueue # <<>>
    /\ vmQueue' = Tail(vmQueue)
    /\ Begins(Vm, <<Frame("after", Head(vmQueue))>>)
    /\ UNCHANGED <<queueVars, jobVars, runVars, flagVars, shuttingdown, terminated, stopFlag, plain, scene, workerlist>>

\* SHUTDOWN: no more events; then stopAllBackgroundWorkers, where the first of
\* the list is the worker of the VM itself: its threadAbort() removes it.
VmShutdown ==
    /\ todo[Vm] = <<>> /\ ~shuttingdown /\ scene.closes
    /\ shuttingdown' = TRUE
    /\ Begins(Vm, <<Frame("remove", Vm), Frame("abortrest", Vm)>>)
    /\ UNCHANGED <<queueVars, jobVars, runVars, flagVars, vmQueue, terminated, stopFlag, plain, scene, workerlist>>

\* The list is shorter by one now, and the loop goes on with its index: it
\* misses the next one, and aborts the others.
AbortRest ==
    /\ Doing(Vm, "abortrest")
    /\ Abort({workerlist[i] : i \in 2..Len(workerlist)})
    /\ terminated' = TRUE
    /\ GoesOn(Vm, <<>>)
    /\ UNCHANGED <<queueVars, jobVars, started, state, told, quit, vmQueue, shuttingdown, stopFlag, plain, scene, workerlist>>

ForceStop ==
    /\ terminated /\ ~stopFlag
    /\ stopFlag' = TRUE
    /\ Begins(Main, <<Frame("sweep", Main), Frame("joinpool", Main), Frame("extras", Main)>>)
    /\ UNCHANGED <<queueVars, jobVars, runVars, flagVars, vmQueue, shuttingdown, terminated, plain, scene, workerlist>>

Next ==
    \/ \E t \in Threads : Call(t)
    \/ \E w \in Workers : WorkerStep(w)
    \/ \E t \in Workers \union {Vm} : Script(t)
    \/ VmHandles \/ VmShutdown \/ AbortRest \/ ForceStop

Spec == Init /\ [][Next]_vars

FairSpec ==
    /\ Spec
    /\ \A t \in Threads : WF_vars(Call(t))
    /\ \A w \in Workers : WF_vars(WorkerStep(w))
    /\ WF_vars(VmHandles \/ AbortRest) /\ WF_vars(ForceStop)

(***************************************************************************)
(* Properties.                                                             *)
(***************************************************************************)
Ops == {"post", "broadcast", "tell", "push", "after", "remove", "sweep", "extras", "join", "joinpool",
        "fence", "wake", "abortrest", "unlockQueue", "unlockWorkers", "unlockPool"}

TypeOK ==
    /\ {started, threadAborting, told, quit, missed} \subseteq [Workers -> BOOLEAN]
    /\ state \in [Workers -> {"new", "terminated"}]
    /\ parser \in [Workers -> {"none", "there", "told"}]
    /\ \A w \in Workers : events[w] \in Seq(Workers \union {Plain})
    /\ place \in [Workers -> {"new", "queued", "swept", "pool", "extra"}]
    /\ from \in [Workers -> Threads]
    /\ pc \in [Workers -> {"none", "begin", "enlist", "test", "parse", "loop", "wait", "asleep",
                           "handle", "handled", "leave", "ended"}]
    /\ cur \in [Workers -> Workers \union {Plain}]
    /\ workerlist \in Seq(Workers) /\ vmQueue \in Seq(Workers)
    /\ {shuttingdown, terminated, stopFlag} \subseteq BOOLEAN
    /\ \A t \in Threads : \A i \in 1..Len(todo[t]) : todo[t][i].op \in Ops
    /\ plain \in 0..MaxPlain /\ late \in [Workers -> Nat] /\ fences \in [Workers -> Nat]

\* A worker of the pool, or one that was swept from its queue, is fenced once.
\* (One on an additional thread is fenced by its thread and by who stops it.)
PoolWorkerFencedOnce ==
    \A w \in Workers : place[w] # "extra" => fences[w] <= 1

\* terminate() stops the parser of the worker, however it meets execute(): the
\* parser is there before threadAborting is tested.
TerminateStopsParser ==
    \A w \in Workers : told[w] /\ pc[w] = "parse" => parser[w] = "told"

\* A worker whose loop has ended leaves no event unanswered, except those that
\* addEvent let through before the flag was set and queued afterwards.
AcceptedAnswered ==
    \A w \in Workers : Ended(w) /\ ~quit[w] => Len(events[w]) <= late[w]

\* A removal has the mutex of the list while it fences a queued worker or
\* joins one on an additional thread.  The fence needs the queue of the VM,
\* which a worker that posts has while it waits for that mutex; and the thread
\* that is joined needs the mutex for its own end.
Entangled == \E w \in Workers : place[w] \in {"swept", "extra"}

\* A mutex is held by one thread at a time.
MutualExclusion ==
    \A t, u \in Threads, m \in Unlocks : Holds(t, m) /\ Holds(u, m) => t = u

\* The innermost call of a thread cannot go on: another thread has the mutex it
\* takes first, or has not ended.
Takes(t, m) == \/ m = unlockQueue /\ Doing(t, "post")
               \/ m = unlockWorkers /\ (Doing(t, "broadcast") \/ Doing(t, "remove"))
               \/ m = unlockPool /\ Doing(t, "sweep")
Blocked(t) == \/ \E m \in Unlocks : Takes(t, m) /\ ~MayLock(t, m)
              \/ Doing(t, "join") \/ Doing(t, "joinpool")

\* Threads do not wait for each other in a circle: whenever a mutex is held,
\* one of the threads that hold one can go on.
HolderGoesOn ==
    ~Entangled /\ (\E t \in Threads, m \in Unlocks : Holds(t, m))
        => \E t \in Threads : ~Blocked(t) /\ \E m \in Unlocks : Holds(t, m)

\* threadAbort() does not take the mutex: its signal can come between the test
\* of the flag and the wait.
AbortMissed == \E w \in Workers : pc[w] = "asleep" /\ missed[w]

\* No thread waits for ever for a mutex or for another thread.
CallsReturn ==
    \A t \in Threads : todo[t] # <<>> ~> todo[t] = <<>> \/ Entangled \/ AbortMissed

\* An aborted worker ends, unless it has missed the abort.
AbortedEnds ==
    \A w \in Workers : threadAborting[w] /\ place[w] \in {"pool", "extra"} ~>
                            Ended(w) \/ Entangled \/ AbortMissed

\* A worker that has ended leaves the list of workers.
EndedLeavesList ==
    \A w \in Workers : Ended(w) ~> ~Contains(workerlist, w) \/ Entangled \/ AbortMissed
=============================================================================
