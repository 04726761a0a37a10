# Lightspark in TLA+

Lightspark is a Flash player: a core of C++ that parses SWF files, runs
ActionScript 2 and 3 on one VM thread per worker, decodes media on other threads
and renders on yet another. Its hard part is not any one algorithm but the
meeting of those threads around a few shared structures - a job pool, an event
queue, timers, caches, ring buffers - and one sequential algorithm with a large
state, the collector of reference cycles. This directory models those parts in
TLA+, checks them with TLC on small instances and proves what matters most with
TLAPS for all values of the constants.

Paths such as `thread_pool.cpp:200` are relative to `src/src/` of the repository
unless they are given in full.

1. [Running the checks and the proofs](#1-running-the-checks-and-the-proofs)
2. [Inventory of the system](#2-inventory-of-the-system)
3. [The modules](#3-the-modules): thread pool, VM event queue, cycle collector,
   timers, streams and downloads, sounds, background workers
4. [Runs, bounds and fairness](#4-runs-bounds-and-fairness)
5. [What is proved, and how](#5-what-is-proved-and-how)
6. [Disagreements between code and comments](#6-disagreements-between-code-and-comments)
7. [What is not modelled](#7-what-is-not-modelled)
8. [Plan](#8-plan)

## 1. Running the checks and the proofs

    tlc -workers 2 -config PoolSafety.cfg MCThreadPool.tla      # any Pool*.cfg
    tlc -workers 2 -config VmFrame.cfg MCVmEventQueue.tla       # any Vm*.cfg
    tlc -workers 2 -config GcSound.cfg MCCycleCollector.tla     # any Gc*.cfg
    tlc -workers 2 -config TimerTicks.cfg MCScriptTimers.tla
    tlc -workers 2 -config StreamReads.cfg MCStreamCache.tla
    tlc -workers 2 -config UrlLoads.cfg MCDownloads.tla
    tlc -workers 2 -config SoundStops.cfg MCSoundPlays.tla
    tlc -workers 2 -config WorkersEnd.cfg MCBackgroundWorkers.tla
    tlapm ThreadPoolProofs.tla
    tlapm VmEventQueueProofs.tla
    tlapm TimerThreadProofs.tla
    tlapm ScriptTimersProofs.tla
    tlapm CycleCollectorProofs.tla
    tlapm DownloadsProofs.tla
    tlapm SoundPlaysProofs.tla
    tlapm BackgroundWorkersProofs.tla

`PROJECT.json` is the index of the project: every component of the player and
its state here, every run with its properties, for each property a mutant of
the model - a plausible bug in the code - that TLC must find the property
violated by, the source lines behind each definition, the disagreements with
comments, the hazards of the code with the properties that watch them, and the
theorems. In the modules, an operator that stands before another one with the
same parameters and a name such as `SignalForgotten`, `AbortAndKeep` or
`GcFirst` is such a mutant; no behaviour of the model uses it.

## 2. Inventory of the system

### Threads

| thread | created by | what it does |
| --- | --- | --- |
| VM thread | `ABCVm::start` | `ABCVm::Run`: takes events from `events_queue` and runs ActionScript |
| pool threads (two pools) | `ThreadPool::ThreadPool` | `job_worker`: execute parser, downloader, loader, decoder and worker jobs |
| additional threads | `runAdditionalThread` | one job each, when every pool thread is busy |
| frame timers (two) | `TimerThread` | `SystemState::tick`, other tick jobs |
| event loop, input thread | `EventLoop`, `InputThread` | timers of the system, platform events, which become events of the VM |
| render thread, audio callback | SDL | draw jobs, samples of the decoders |
| the main thread | the launcher or the browser | constructs, and in `SystemState::destroy` ends, all the others |

Two calls carry most of the interaction: `ThreadPool::addJob`, by which a thread
gives work away and learns of its end by `jobFence`, and `ABCVm::addEvent` with
its four variants, by which any thread asks the VM thread to do something and
may wait for it (`WaitableEvent::wait`). Shared state is otherwise reached
through mutexes local to a class, three global flags read without a lock
(`shutdown`, `shuttingdown`, `stopFlag`), and two signals: the semaphore
`terminated` and the condition "main signal".

### Components, their state and what makes them correct

| component (source) | state | operations | hard behaviour | correct when |
| --- | --- | --- | --- | --- |
| **Thread pool** (`thread_pool.cpp`) | deque of jobs, semaphore, stop flag, count of busy threads, `Thread::job`, pairs of additional threads | `addJob`, `job_worker`, `additional_job_worker`, `forceStop`, `waitAll`, `forceStopWorker` | flags and permits outside the mutex; abort against take; erasing pairs that threads point to | a job runs and is fenced once, nothing is aborted after its fence, no wake-up is lost, the ending operations return |
| **VM event queue** (`scripting/abc.cpp`, `swf.cpp`, `flashevents.cpp`) | two queues and a buffer, flags, nested handlers, waiters | five posting operations, `handleEvent`, `signalEventWaiters`, `Run`, `shutdown`, `destroy` | queue operations without the mutex, exceptions in nested handlers, post against end of the VM, waiting threads | accepted events are handled, kept in order or dropped with their waiter signalled; the player ends |
| **Reference counts and cycle collector** (`smartrefs.h`, `asobject.cpp`, `ASWorker.cpp`) | two counts and five flags per object, list of candidates, state of the search | store, clear, drop, `handleGarbageCollection`, `processGarbageCollection` | counting through a graph, list changed while it is walked, counts that are wrong during a collection | counts are exact, what is reachable is kept, unreachable cycles go |
| **Timer thread** (`timer.cpp`, `threading.cpp`) | list of pending ticks ordered by due time, stop flag, condition | `addTick`, `addWait`, `removeJob`, `stop`, `wait`, `worker` | a stop or a removal during a tick; a timed wait against an earlier event | each job is fenced once per entry, the worker sleeps past nothing, jobs have their turn, the join returns |
| Timers of the event loop (`backends/event_loop.cpp`, `timer.cpp`) | sorted list, clock | push, `updateTimers` | bounded catch-up | no timer starves |
| **Stream cache** (`backends/streamcache.cpp`) | chunks, received length, ended and failed flags, the get area of each reader | `append`, `reserve`, `markFinished`, `underflow`, `seekpos`, `seekoff` | release, then wait on another signal; chunks that grow while they are read | a reader gets each byte once and in order, and its wait ends |
| **Downloads** (`backends/netutils.cpp`, `flash/net/flashnet.cpp`) | list of downloaders, their length, fence and cache; the job of a `URLLoader` | create, execute, `stop`, destroy, `load`, `close`, `stopAll` | abort before creation; final length after the end; spin on a fence | `complete` comes with all that was received and nothing else, nobody uses a deleted downloader, the load and `destroy` end |
| RTMP downloads (`backends/rtmputils.cpp`) | as a downloader | execute | I/O | as a downloader |
| **Decoders** (`threading.h`, `backends/decoder.cpp`) | ring of slots, two semaphores, `empty`, flushing | acquire, commit, copy, pop, `skipAll`, flush | two users of one end; a flag written by both ends | no slot lost, frames in order |
| **Sound channel** (`flash/media/flashmedia.cpp`) | flags of the channel, its job, its decoder and stream | `play`, `stop`, `execute`, `jobFence` | restart against the end; deletion of a decoder in use; a job that fails or is aborted | one job at a time, the decoder outlives its users, a restart happens, `play` and `stop` return |
| Audio (`backends/audio.cpp`) | list of streams, two mutexes | create, stop, mix | return with a mutex held | no deadlock, no use after delete |
| Player life cycle (`swf.cpp`) | flags, engines | `setShutdownFlag`, `stopEngines`, `destroy` | order of ends | engines end before what they use |
| **Background workers** (`ASWorker.cpp`, `flashsystem.cpp`, `swf.cpp`) | their event queue, state and parser; the list of workers | `start`, `terminate`, event loop, `addWorker`, `removeWorker` | abort against wait; three mutexes taken in nested calls in two orders | every event is handled or refused, workers end and leave the list, no call waits for ever |
| Worker shared objects (`concurrent/*.cpp`, `messagechannel.cpp`) | a mutex, a list of messages | lock, send, receive | state of the channel when one end goes | messages in order |
| AVM2 and AVM1 interpreters, optimiser, object model | ActionScript heap | opcodes | sequential | the language |
| Parsers, strings, library classes, geometry, utilities | values | functions | data | input and output agree |
| Display list (`display/*.cpp`) | tree of objects, frame state | `advanceFrame`, `initFrame`, `executeFrameScript` | order of construction of nested clips | each clip is constructed once and before its script |
| **Timers of ActionScript** (`flash/utils/*.cpp`) | flags and count of a `Timer`; map of intervals, flags of a runner | `start`, `stop`, `reset`, `setupTimer`, `clearInterval`, `tick` | clear inside, before and after the call; restart during a tick | a runner is deleted once and not in use, a cleared one calls at most once more, a running `Timer` is scheduled |
| Loader, other network classes | jobs and pending events | load, close | late results after close | events in order, none after close |
| Rendering (`backends/rendering*.cpp`) | queue of draw jobs, OpenGL | hand-over, upload | buffers in use by two threads | a job is drawn from complete data |
| Input, security, events of ActionScript, plugins, extensions, platform, launchers | - | adapters | - | - |

Bold rows have a module. `PROJECT.json` lists all 35 of them with status and
reason, and 40 hazards, each at the line where it bites.

## 3. The modules

| module | what it is |
| --- | --- |
| `ThreadPool` | the pool with all its operations |
| `JobLifecycle` | the abstract specification: the life of a job as the comments of `IThreadJob` tell it |
| `MCThreadPool` | instances for TLC |
| `ThreadPoolProofs` | the inductive invariant of the pool; that it implements `JobLifecycle` |
| `VmEventQueue` | the event queue, the threads that post and wait, and `SystemState::destroy` |
| `MCVmEventQueue` | instances for TLC: a catalogue of events, three programs and what their scripts may throw |
| `EventDelivery` | the abstract specification: the fate of each event, and that what one thread posts with `addEvent` is begun in the order of its calls |
| `VmEventQueueProofs` | the inductive invariant of the event queue: the end of the VM, the places of events, collections, waiting threads, the order of each thread's events; that it implements `EventDelivery` |
| `CycleCollector` | reference counts, releases and the list of candidates; what a search answers is a parameter |
| `CycleSearch` | the search for references inside a cycle, as the code does it |
| `MCCycleCollector` | instances for TLC |
| `CycleCollectorProofs` | the chain of candidates, the exact counts through nested releases, and what a search has to count |
| `TimerThread` | the list of ticks and its thread, with the clock |
| `ScriptTimers` | `Timer`, `setInterval` and `setTimeout` on a `TimerThread`, with the VM thread that answers them |
| `TimerThreadProofs`, `ScriptTimersProofs` | the inductive invariant of the timer thread; that the composition is one, and the invariants of scripts and of each runner |
| `DownloadsProofs` | the bytes of a stream and its readers; the life of a downloader on it |
| `SoundPlaysProofs`, `BackgroundWorkersProofs` | the ring and the channel; the stacks of calls of the workers, their fences, their mutexes and their types |
| `StreamCache` | a stream in memory, its writer, its readers and the main signal |
| `Downloads` | the load of a `URLLoader` on a `StreamCache`, from the job to the end of the downloader, with `close()` and `SystemState::destroy` |
| `SampleQueue` | the ring of decoded frames and the decoder's flushing |
| `SoundPlays` | a `SoundChannel` on a `SampleQueue`: its job, the audio callback and the script |
| `BackgroundWorkers` | background workers, the VM that they post to, and what the pool does when one is removed |
| `MCScriptTimers`, `MCStreamCache`, `MCDownloads`, `MCSoundPlays`, `MCBackgroundWorkers` | instances for TLC |

In all of them a section under a mutex is one step, and what the code reads or
writes outside the mutex is a step of its own: the interleavings TLC explores
are those of the code.

### `ThreadPool`

| variable | in the code |
| --- | --- |
| `jobs`, `stamp` | the deque `jobs`: its elements, and the order of `push_back` |
| `numJobs`, `stopFlag`, `runcount`, `poolSize` | the semaphore `num_jobs`, the members of these names, `threadPool.size()` (0 after `waitAll`) |
| `pc`, `job`, `my` | position of a thread in `job_worker`, `Thread::job`, the local `myJob` |
| `aborting`, `runs`, `fences` | `IThreadJob::threadAborting`, calls of `execute()` and of `jobFence()` |
| `lo`, `hi`, `slot` | the deque `additionalThreads`, position by position, with what a vacated position still holds |
| `xpc`, `xptr`, `xjob` | an additional thread: position, pointer to its pair, its job |
| `spc`, `si`, `send`, `scur` | `forceStop` and `waitAll` |
| `kpc`, `kw`, `ki`, `kcur`, `removed` | `forceStopWorker` and the workers it was called for |

| actions | in the code |
| --- | --- |
| `Wake`, `CheckStop`, `TakeNothing`, `Take`, `Abandon`, `Execute`, `Return`, `Release`, `Fence` | `job_worker`, from `num_jobs.wait()` to `jobFence()`; `Abandon` is the second test of `stopFlag` |
| `AddJobStopped`, `AddJobAdditional`, `AddJobQueued` | the three ends of `addJob`, with `runAdditionalThread` |
| `ExtraStart`, `ExtraReturn`, `ExtraFence`, `ExtraClear` | `additional_job_worker`, which works through a pointer into the deque |
| `StopBegin` .. `StopJoinPair` | `forceStop`: flag, permits, the sweep under the mutex, join, the loop over the pairs |
| `WaitSignal` .. `WaitEnd` | `waitAll` |
| `KillBegin` .. `KillErase` | `forceStopWorker`: permits, sweep, and the loop outside the mutex with `deque::erase` |

The deque of pairs is modelled position by position because the additional
threads keep pointers into it while `forceStopWorker` erases: `EraseSlot` moves
the shorter side, as the library does, and an additional thread then reads and
clears the pair that stands where its own stood. A thread that finds no job
there has dereferenced a null pointer (`crashed`). The model therefore reaches a
job of an additional thread that is executed by two threads, or fenced twice,
and `PoolJobOnce` speaks only of the jobs that go through the queue; an additional
job is `new` for ever to `JobLifecycle` (section 6, 2).

`execute()` that returns and `execute()` that throws end in the same step, as in
the code. An endless job returns only after `threadAborting` was set, which is
what the parser, the downloaders and the decoders do.

### `VmEventQueue`

| variable | in the code |
| --- | --- |
| `events_queue`, `idleevents_queue`, `event_buffer` | the members of `ABCVm` |
| `half` | an event that an unlocked `push_back` has stored and not yet counted in |
| `shuttingdown`, `isIdle`, `halted`, `status` | the members of these names; `halted` is set for good when a script limit is exceeded |
| `vpc`, `cur`, `exc`, `front` | the VM thread: position, the stack of nested `handleEvent` calls with whether each is inside `tryHandleEvent`, the exception in flight, the local of `signalEventWaiters` |
| `fate`, `handled` | what became of each event (history; `lost` and `mistaken` are the two ways in which an unlocked operation removes one event in the place of another), `WaitableEvent::handled` |
| `behind` | history: what was queued when an idle event was handled |
| `ppc`, `next` | the posting threads |
| `mpc`, `engines`, `shutdown`, `error`, `terminated` | `SystemState::destroy` and the flags and semaphore of the system |

| actions | in the code |
| --- | --- |
| `AddEvent`, `PrependEvent`, `AddIdleEvent`, `AddBufferEvent` (through `Post`, `VmPost`, `PostShutdown`) | the posting operations with all their early returns: refused after the shutdown, routed to a background worker, an idle event that replaces a similar one |
| `BeginTick`, `Post`, `TickSignal`, `Check`, `Enter` | a posting thread: the test in `SystemState::tick`, the post, and `WaitableEvent::wait`, whose test of `handled` and sleep are two steps |
| `InitVm`, `Sleep`, `Take`, `StopOnEmptyQueue`, `ShutdownVM` | `ABCVm::Run` and `shutdownVM` |
| `HandleFrontEvent`, `CheckExternalCallEvent`, `HandlePlain`, `HandleIdle`, `HandleFlushBuffer`, `Finish` | `handleFrontEvent`, `handleEvent` |
| `ShutdownStore`, `ShutdownCount`, `ShutdownMoved`, `ShutdownFlag`, `SignalTerminated` | the SHUTDOWN event: idle events are moved, and the flag set, without the mutex |
| `Throw`, `Unwind` | an exception that leaves the handler of an event and goes up through the nested ones to a `tryHandleEvent`: a script limit, another exception of the engine, an `ASError`, or any other object a script throws. FUNCTION signals its waiter and lets it pass, EXTERNAL_CALL reports an object to the browser and goes on, and the script below a nested event may catch an object |
| `Limited`, `Failed`, `Erred`, `Hurled` (in `Unwind`), `ReportToVm`, `Report`, `Record`, `GiveUp` | the `catch` clauses of `tryHandleEvent`: the VM is halted; `setError` and the queue is emptied; `setError`, or nothing where errors are ignored; `setShutdownFlag`, `setError`, `setShutdownFlag`, one call after the other, and the queue stays as it is |
| `DrainFront`, `DrainPop`, `DrainEnd` | `signalEventWaiters` on the VM thread, without the mutex |
| `AwaitTermination` .. `AwaitAgain`, `ShutdownOnError` | `destroy`, `stopEngines`, `ABCVm::shutdown`, `setShutdownFlag` |

Two threads that touch the deque at the same time are a data race. The model
gives it the outcomes of a `push_back` that stores and then counts: an event
another thread pushes between the two halves of the unlocked one either
survives, and the other is lost, or is overwritten itself. `Failures` says what
the handler of each event may throw, `Options` which of the player's options are
set (`ignoreUnhandledExceptions`, `exitOnError`), and `ShutdownEvent` is the event
that `setShutdownFlag` makes on the VM thread.

To who posts, `fate` is all there is: `new`, then `queued`, `handling` and
`handled`, or refused, sent elsewhere, replaced or dropped. `EventDelivery` is a
specification of `fate` alone, with no queue in it; `VmEventQueue` instantiates it
as `Delivery`, its own `fate` in the place of the abstract one, and
`DeliversInOrder` says that every step of the queues is one of its steps.

### `CycleCollector` and `CycleSearch`

One worker's objects are reached by its thread only. The functions of the code
are functions on the record `heap`: `ref_count`, `storedmembercount`,
`storedmembercountstatic`, the variables, the flags
`markedforgarbagecollection`, `deletedingarbagecollection`, `inDestruction` and
`isConstant`, and the doubly linked list of candidates. `held` are the
references of the script's stack, `statics` the variables of classes, `gc` is
where `processGarbageCollection` is in its two loops. `misjudged` is history: a
search that judged an object too early (section 6, 6) has given something in use
to the collection. A script that then uses a released object does what no
definition tells, so that the model has no step there (`Defined`); everything up to
that is explored, and each property says what it says until then. `May` gives
each variable the objects that its type lets it refer to.

The release of an object destroys its variables, each of which may release
another object, whose variables are destroyed before the first goes on. These
calls in progress are a stack, `heap.calls`, and each variable is one step, in
any order: `Variables` is a hash table. A frame `release` is a
`handleDestruction` inside `destruct`, `collect` an object that a collection
destructs, `add` and `addStatic` a `setVar` that has removed the old value and
has not counted the new one yet.

| definitions | in the code |
| --- | --- |
| `addObjectToGarbageCollector`, `removeObjectFromGarbageCollector`, `removefromGarbageCollection` | the list of candidates |
| `decRef`, `Released`, `addStoredMember`, `removeStoredMember`, `decRefAndGCCheck` | the counts, release, and who becomes a candidate |
| `DestroyVariable`, `Destroyed`, `AddNewValue` | the innermost call goes on: `destroyContents`, the end of `handleDestruction`, the second half of `setVar` |
| `Begin`, `SkipCandidate`, `HandleCandidate`, `HandleAgain`, `ReleaseNext`, `End` | `processGarbageCollection`: the loops over the list, the successor read before the candidate is handled, the release of what was found |
| `handleGarbageCollection`, `Decide`, `Delete` | the decision for a candidate |
| `New`, `Load`, `Store`, `Clear`, `StoreStatic`, `ClearStatic`, `Drop` | what a script does |
| `CountObject`, `CountMembers`, `MarkPath`, `ignoreCount`, `setChecked`, `FindCycle` (`CycleSearch`) | `countAllCylicMemberReferences` and the state of a search |

What a search answers is the parameter `Search` of `CycleCollector`: a verdict, the
objects it has found, and, as history, whether it has met an object inside itself
and taken the answer of that moment, which later turned out to be wrong (`early`;
`MetEarly` in `CycleSearch`). `SearchRight` says what the collection relies on: what
is given to it, by a search that is not early, is referred to by nothing else. `CycleSearch` has the search
of the code, which is recursive and whose outcome depends on the order of the
variables (section 6); the run `GcSound` takes it for `Search`. The theorems hold
for any `Search`.

### `TimerThread` and `ScriptTimers`

| variable | in the code |
| --- | --- |
| `pendingEvents`, `timing` | the list; what each `TimingEvent` holds, its due time relative to now |
| `stopMe`, `owed` | `ITickJob::stopMe`; how many calls of `tickFence` a job can still expect (history) |
| `worker`, `running`, `until`, `newEvent` | where the thread is, the event it ticks, the limit of its wait, a signal given |
| `stopped`, `owner` | the flag, and the thread that stops, joins and deletes |
| `active`, `repeatCount`, `currentCount`, `posted`, `rescheduled` | `running` and the counts of a `Timer`, its events that wait for the VM, and whether `repeatCount` was changed while it ran (history) |
| `runners`, `created`, `busy`, `finished`, `call`, `late` | the map of `IntervalManager`, runners that were made, `running` and `finished` of one, its `FunctionEvent`, calls that began after it was cleared (history) |
| `step`, `script`, `manager`, `shutdown` | where a tick and a script are between their critical sections, the mutex of the manager, the flag of the system |

| actions | in the code |
| --- | --- |
| `addTick`, `addWait`, `removeJob` | the operations, each under the mutex |
| `Sleep`, `WakeEmpty`, `TimedWaitEnds`, `WakeForNothing`, `WakeToStop`, `WakeToDrop`, `WakeToTick`, `TickReturns` | `worker`: the wait with or without limit, each of its outcomes, and the section after a tick that fences a job or leaves it listed |
| `SetStopped`, `SignalStop`, `Join`, `Destroy` | `stop`, `wait`, the destructor |
| `Advance` | time; a wake-up time may be past by `MaxLate` |
| `TickTimer`, `CountTick`, `StartTimer`, `AddTimer`, `StopTimer`, `ResetTimer`, `SetRepeatCount`, `HandleTimerEvent` | `Timer`; the test of `running`, what is set, and the call of the timer thread are steps of their own |
| `TickRunner` .. `FinishRunner`, `SetupTimer`, `ClearInterval`, `RemoveRunner` | `IntervalRunner` and `IntervalManager` |

The deletion of a job in its own `tickFence` is modelled by `owed`: a job with
nothing owed no longer exists, also while its `tick` runs (`RunnerAliveInTick`,
section 6, 8). `ScriptTimers` uses the actions of `TimerThread`
unchanged; it adds the scripts and the fences.

### `StreamCache` and `Downloads`

| variable | in the code |
| --- | --- |
| `receivedLength`, `failed`, `terminated`, `chunks`, `nextChunkSize` | the members of `StreamCache` and `MemoryStreamCache`; a chunk has its offset, what is used and its capacity |
| `writing` | where `append` is: stored, counted, signalled |
| `op`, `goal`, `get`, `cursor`, `eof` | a reader: its call, the get area of the stream buffer with `chunkIndex`, where its user has come to and whether it has lost its place there (`strayed`) (both history) |
| `at`, `frame`, `handled` | who is at `waitMainSignal`, between its test and the wait; the frame of the player, which gives the main signal too |
| `pc` | the load, the download, `close()` and `destroy()` |
| `length`, `downloader`, `downloaderLock`, `threadAborting`, `downloaders`, `fenceState`, `deleted`, `stopFlag`, `buffer`, `posted` | the members of these names; what the load has allocated, read and given to the script; what it has posted |

A byte is its position in the stream: `ReadsInOrder` compares the position of the
get area with that of the user. A reader seeks anywhere. After a seek into another
chunk the get area is in one chunk and `chunkIndex` is another, and `Take` does what
`underflow` does then: it compares the end of the get area with that of the chunk of
`chunkIndex`, two addresses in different buffers, so that the
outcome is any (`BytesLeft`) and the reader may stand outside the chunk (`Below`), or
goes on from the stale index; the reader is `strayed` until it
seeks again. Sizes of chunks are small multiples of
`ChunkUnit`, the model's `MIN_CHUNK_SIZE`. In `Downloads` curl, or the file, is
the choice of `ReadHeaders` (which length is announced, if any), `AppendData` and
`EndDownload` (failed or not); the pool is what a downloader and its load meet
of it, the two tests of `stopFlag` and the sweep among that. The destroying
thread may begin at any moment after `close()` has ended, as the VM handles its
last event only then.

### `SampleQueue` and `SoundPlays`

| variable | in the code |
| --- | --- |
| `queue`, `freeBuffers`, `usedBuffers`, `bufferHead`, `bufferTail`, `empty` | `BlockingCircularQueue`; a slot has the number of its frame and whether it was copied |
| `status`, `flushing`, `flushed` | `Decoder` |
| `producer`, `consumer` | where the decoding thread and each consumer are inside an operation, and what they have read |
| `stopped`, `terminated`, `stopping`, `finished`, `restartafterabort`, `mutex` | `SoundChannel` |
| `job`, `jobs`, `decoder`, `audioDecoder`, `audioStream` | the job; in the pool how often; the decoder and the two pointers to it |
| `loopstogo`, `threadAborting` | the rounds that are left, and what the pool tells the job |
| `shuttingdown`, `pool` | `SystemState::isShuttingDown()`, and whether `forceStop` was called |
| `script`, `calls`, `posted` | the script, or after it `forceStop`; `soundComplete` |

| actions | in the code |
| --- | --- |
| `Begin`, `EndRound` | the loop of `execute()` over the rounds of a sound, and what the last one tells the script |
| `Open`, `OpenAborted`, `Invalid` | `playStream`: the decoder, `JobTerminationException` before there is one, data that has no sound: the job aborts itself and forgets the restart |
| `Decode` .. `Again` | a frame is decoded, the pointer to the decoder is published, the stream created, `threadAborting` tested twice |
| `Leave`, `Fail`, `AbortItself`, `DiscardAll` | the ends of the decoding: the channel stopped, the data at an end or broken; a `LightsparkException`, whose handler calls `threadAbort` |
| `Flush` .. `EndPlay` | what is decoded is played, the stream removed, the rest skipped, the decoder deleted |
| `jobFence` | the end of the job, or its restart unless the player ends |
| `play`, `StartAgain`, `stop`, `threadAbort`, `SkipAll`, `StopReturns` | the calls of the script with every wait in them, the loop at the end of `stop()` among them |
| `ShutDown`, `forceStop`, `Join` | the player ends: the pool aborts the job that runs, fences the one that waits, and joins |

`nonBlockingPopFront` is five steps and `commitLast` two, because three threads
do them without a lock: the callback of the device, the job, and the script in
`skipAll`. The callback holds the mutex of the streams, so that `RemoveStream`
waits for it; the script holds the mutex of the channel while it skips.

### `BackgroundWorkers`

| variable | in the code |
| --- | --- |
| `started`, `threadAborting`, `state`, `parser`, `events` | members of `ASWorker` |
| `place`, `from`, `pc`, `cur` | where the pool has the worker, who started it, where its thread is, the event it handles |
| `workerlist`, `vmQueue` | `WorkerDomain::workerlist`, the events of the VM about workers |
| `todo` | for each thread the calls it is in, innermost first |
| `shuttingdown`, `terminated`, `stopFlag` | of the VM, the system and the pool |

A call such as `jobFence` posts an event, which takes the mutex of the event
queue, passes it on to the listed workers, which takes `workerMutex`, and may be
answered by `afterHandleEvent`, which removes a worker, which takes the mutex of
the pool and fences other jobs. The model keeps these calls on a stack per
thread; the unlock of a mutex is an element of the stack, and the mutex is held
as long as it is there. So the order of locks is what the calls make of it, and
a deadlock is a state in which stacks wait for each other.

## 4. Runs, bounds and fairness

| run | states | checks | shows |
| --- | --- | --- | --- |
| `PoolSafety` | 703 904 | `IInv`, `NoMissedAbort`, `AbortOnlyUnfenced`, `ImplementsLifecycle` | whatever `forceStop`, `waitAll` and the removal of a worker do meanwhile, the inductive invariant holds (types, `runcount` is the number of busy threads, a job of the queue is run and fenced at most once, every queued job has a permit), and none is aborted after its fence; the pool implements `JobLifecycle` |
| `PoolProgress` | 461 758 | `StopReturns`, `QueuedJobLeaves` | two endless jobs fill the two threads, a third job waits or gets a thread of its own, and the removal of a worker ends idle threads and aborts jobs: `forceStop` returns, and a job stays in the queue only if every thread has ended or is kept by an endless job that nobody aborts |
| `PoolFenced` | - | `EveryJobFenced` | violated, see section 6 |
| `VmFrame` | 344 881 | `IInv`, `CollectedLast`, `DeliversInOrder` | a frame with idle input, a nested call of the browser, and a script limit or an ActionScript error in any of them: every exception is caught (in `IInv`), the collection comes last; the queues implement `EventDelivery` |
| `VmInput` | 825 601 | `NoEventStranded`, `NoEventLost`, `WaitedEventPending` | a script throws anything, so that the queue is drained or the player ends, and SHUTDOWN moves the idle input, both without the mutex, while others post, prepend, replace and wait: the VM thread ends with `events_queue` empty, an event is lost only where two threads write one cell or one pops what the other moves (`lost`, `mistaken`; both are reached, section 6, 3), and who waits can count on any other event |
| `VmClose` | 138 826 | `QueuedWaitableSignalled`, `ShutdownCompletesUnlessError` | a script fails in any way, a function exceeds the limit, and the player is closed: queued waitable events are signalled, and the player ends unless there was an error. No event goes astray here, so that the exemption of the first is not used |
| `GcSound` | 1 043 759 | `CountsExact`, `ListLinked`, `SearchRight`, `NoReleasedInUse`, `ReachableKept`, `CycleCollected` | on five objects whose cycles share objects, whatever a script stores, clears and drops, and in whatever order variables are destroyed: counts are exact, the list is one chain, nothing released is in use, a search gives nothing in use to the collection and a collection keeps what is reachable, all until a search that judged an object too early has given something in use away (section 6, 6; it is reached); and unreachable cycles are released |
| `TimerTicks` | 92 098 | `OwedExact`, `NoOversleep`, `RunnerExists`, `RunningTimerScheduled`, `ClearedRunnerEnds`, `JoinReturns` | a `Timer`, an interval and a timeout that scripts start, stop and clear at any moment of a tick: fences balance, the worker sleeps past nothing, `clearInterval` never meets a deleted runner (a tick may, section 6, 8), a running `Timer` is scheduled, a cleared runner ends, the join returns except for one lost stop |
| `StreamReads` | 1 390 420 | `ReadsInOrder`, `SignalRepairsWait` | a reader reads and seeks anywhere while data arrives in blocks that fit, fill or overflow a chunk, and the stream ends or is stopped: it gets each byte once and in order, unless it has read on after a seek into another chunk, and its wait ends |
| `UrlLoads` | 281 140 | `DownloaderSafe`, `CompleteIsWhole`, `LoadEnds` | a load with a right, a wrong or no announced length, which may fail, be closed, and meet the end of the player: `complete` comes with all that was received, nobody uses a deleted downloader, the load ends |
| `SoundStops` | 775 781 | `DecoderAlive`, `PlayedInOrder`, `RestartHappens`, `CallsReturn` | a sound of two rounds is stopped and played again at any moment of its decoding, playing and ending, its data is bad or breaks off, or the player ends: the decoder outlives its users, `play()`, `stop()` with its wait and `forceStop` return, a restart happens; frames come in order unless the device reads the slot that is being filled |
| `WorkersEnd` | 136 984 | `PoolWorkerFencedOnce`, `TerminateStopsParser`, `AcceptedAnswered`, `AbortedEnds`, `CallsReturn` | two workers in four programs: siblings of which one is terminated, the end of the player, a worker that fails or ends itself, a worker that starts another. `CallsReturn` and `AbortedEnds` are silent of every behaviour in which a worker has an additional thread or was swept from the queue (`Entangled`), blocked or not; that a worker that ended leaves the list is `EndedLeavesList` (below) |

`CHECK_DEADLOCK FALSE` is in every configuration because all these systems
really come to rest: every job is submitted once and the pool may be stopped,
the player ends, a script may do nothing more, the timers are cleared, a stream
has been read, a sound was played, the workers have ended. That nobody waits for
ever is stated instead as liveness (`StopReturns`, `QueuedWaitableSignalled`,
`ShutdownCompletesUnlessError`, `JoinReturns`, `SignalRepairsWait`, `LoadEnds`,
`RestartHappens`, and `CallsReturn` of the sounds and of the workers).

The modules state more than the runs check. Parts of an inductive invariant
(`RuncountExact`, `PermitCover`, `PoolJobOnce`, `ExceptionCaught`, `EventOnce`,
`ListSorted`, `BufferHolds`, `OneJob`, `ReceivedIsStored`, `SlotsAccounted`) are
proved, and so are the type invariant of every module that has a proof module,
`TickOrder` (what `DeliversInOrder` says of the order), `RunnerFencedOnce`,
`ClearedCallsAtMostOnce`, `DeletedForGood`, `MutualExclusion` and `HolderGoesOn`;
`SearchCounts`, the hypothesis of a theorem, `JobHasItsTurn`, `WaitAllReturns`,
`UnderflowReturns`, `DestroyReturns` and `EndedLeavesList` hold in the same
instances: add one to the configuration to see it. The last part of
a module has what comments and assertions say and the code does not keep
(section 6).

Some of these name the ways in which the code does let a thread wait for ever
(`AbortMissed`, `SignalLost`, `JobDropped`, `HeadLost`, `Entangled`), and state
that there is no other; in the same way safety properties name what the code does
not keep (`lost` and `mistaken` events, `misjudged` and `early`, `strayed`,
`FrontUnfilled`). Each of those ways is reached in the run, and described
in section 6 or among the hazards.

### Bounds

*Thread pool.* Two threads, three jobs, two workers; the first job is endless, in
`PoolProgress` the second too, so that the pool is full for good until someone
aborts them, and the third belongs to the worker that stays. Three jobs on two threads are
the least with which the pool is full and a third job gets a thread of its own,
with which a job waits behind two others, and with which the deque of additional
threads may hold more than one pair and be erased in the middle. One call of
`forceStop`, `waitAll` and `forceStopWorker` each, in every order the code
allows. A job is submitted once: nothing in the code submits a job again before
its fence, and after it the object is another job. Threads are interchangeable
(symmetry in the safety run only; there is none in the liveness runs).

*Event queue.* Every thread posts a fixed program of at most four events from a
catalogue with one event for each class `handleEvent` distinguishes and each
posting operation:

| program | timer | input | browser or interval | the VM itself | run |
| --- | --- | --- | --- | --- | --- |
| `FrameAndInput` | tick, script, idle | mouse, text, text that replaces it | call | function, buffered, flush | `VmFrame` |
| `InputAndClose` | script, routed idle event | mouse, text, prepended function, close | routed event, forced prepend, text that replaces | two buffered, flush to the front | `VmInput` |
| `FailAndClose` | script, idle | close | function | - | `VmClose` |

In `VmFrame` the script and the function may exceed the limit or throw an
`ASError` (the call only the former), in `VmInput` the script throws any of the
four, in `VmClose` any but the limit, which the function exceeds. With
`Options` empty errors are recorded and do not end the player by themselves.

A violation of order needs two events of one thread, a lost event needs one
event of the idle queue and one posting thread, a nested handler needs one event
the VM posts to itself or one call of the browser: all are present. `destroy`
runs to its end in every program but the first, in which nobody closes the
player: a frame with its collection and the shutdown are not in one run.
`NoEventLost` and `WaitedEventPending` are checked where the unlocked move of idle
events and the unlocked draining meet the posts, and a waitable prepend, of others.

*Collector.* The search goes wrong for some graphs of five objects, and the
free choice of the references of five objects is out of reach. `SharedCycles`
types their two variables each: two cycles that share an object, one of them
without the start of the search, a self-reference, a fifth object that may refer
into the shared cycle, and one variable of a class; whether a reference is there,
and in which order all this is stored, cleared, dropped and collected, is free. A
stack of `MaxHeld = 2` is what a store needs, the object and the value. The other
instance is `Objects <- ThreeObjects`, `May <- AnyMember`, `MaxHeld = 3` with
`SYMMETRY Symmetry`: any references among three objects. It has 2 875 293 states,
and the same properties hold in it.

*Timers.* One `Timer`, or one interval and one timeout (`Scenes`: a run that has
all three at once adds no interaction but that of the list, which two jobs
have), and two events, so that a job is listed twice or a second job is before,
behind or between. A due time may be late by `MaxLate = 1`, and ticks are one unit apart:
enough for each order of two due times and for a wake-up time that is past.
`MaxPosted` bounds the events of a `Timer` that wait for the VM.

*Streams.* Blocks of one to three bytes and a first chunk of two or four: a block
fits, fills a chunk exactly, is divided among two, and one is larger than the
next chunk would be. Five bytes make up to three chunks, and the reader seeks to
any of them.
In `UrlLoads` a response of at most two bytes announces no length, one too small
or one too large.

*Sounds.* A ring of two slots and three frames: it is empty, full and wraps. A
frame out of order needs a fourth, decoded into the slot of the second (section
6, 12). Two rounds (`Loops`) make a round that follows another. Three
calls of `play` and `stop`, the end of the player counted in, give a stop, a
restart and a second restart or an end that meets the first one's end. `MaxFlushed` saturates the semaphore.

*Workers.* Two workers, which is the least with which one hears of the other,
starts the other, or is skipped by `stopAllBackgroundWorkers`; four programs
instead of the free choice of what scripts do, each the least for its question.
One event besides those about workers (`MaxPlain`).

### Fairness

`FairSpec` of `ThreadPool` assumes weak fairness of each thread's steps, of the
additional threads, and of the steps of `forceStop`, `waitAll` and
`forceStopWorker` once they have begun: the operating system schedules every
thread that can run. It does not assume that anyone submits a job or stops the
pool, nor that an endless job returns before it is told to; a job that was told
to does return: the comments of `threadAborting` and `threadAbort` in
`interfaces/threading.h` ask its author to poll or to override. `FairSpec` of `VmEventQueue` assumes the same of the VM thread,
of every posting thread and of the thread in `destroy`. A handler of an event
ends, by `Finish` or by an exception: this assumes a script that ends, which
only the AVM1 interpreter enforces (`ScriptLimitException`), so that
`QueuedWaitableSignalled` and `ShutdownCompletesUnlessError` say what the queue
owes to scripts that do end. `CycleCollector` has no liveness.

In the other modules fairness is given to threads as a whole, each with its next
step: the timer thread with its clock (time passes, a timed wait ends), the VM
thread and the script inside its call, but not to scripts that may begin a call
(`ScriptTimers`); the writer, the frame and a reader inside its wait
(`StreamCache`), where the transfer may end at any moment but must end for
`LoadEnds` (`Downloads`: an assumption on the other side, since curl is given no
timeout, `netutils.cpp:590`, and a server that stalls keeps the load); the device, which calls
back as long as there is a stream, the job and the script inside its call
(`SoundPlays`); each worker and each call on a stack (`BackgroundWorkers`).

Fairness is strong in one place, for three steps of `ScriptTimers`. A tick and a
call of the VM thread that has begun (`TickStep`, `VmGoesOn`) may meet a mutex which
others take again and again: it is assumed that a mutex that is free again and
again is given in the end, as the mutexes of the platforms do in practice. An
event that waits for the VM (`VmHandles`) is handled although scripts never pause,
since the VM takes its events in order. All other fairness is weak: there a mutex
is contended only finitely often, its holder releases it for good, or the property
names the case.

## 5. What is proved, and how

All theorems hold for every finite set of threads, jobs, workers and events,
every program of the posting threads and every size of a ring, a chunk or a
stream; the only assumptions are the named `ASSUME`s of the modules, which TLC
evaluates in each run. What they say of the code:

- `ThreadPool`: `Threads` and `Jobs` are finite, the null pointer is not a job,
  every job has one worker.
- `VmEventQueue`: an idle event creates a collection event of its own, `destroy`
  posts one event, and (`ProgramsAssumption`) an event object is posted once;
  only the VM thread posts collections; the events a thread waits for are posted
  by `addEvent` or `prependEvent` and not for a background worker; SHUTDOWN is
  posted by `addEvent`. Each of these is how `swf.cpp`, `flashevents.cpp` and
  `extscriptobject.cpp` call the queue.
- `TimerThread`, `ScriptTimers`: events are finite, a tick is no longer than
  `MaxLate`, a job is a `Timer`, an interval or a timeout, repeat counts have a
  largest one.
- `StreamCache`, `Downloads`: a chunk has at least one byte, a block is not empty,
  a downloader has one reader, its load.
- `SampleQueue`, `SoundPlays`: the ring has at least one slot, the consumers are
  the device, the job and the script, and the bounds are natural numbers.
- `BackgroundWorkers`: workers are finite and are not the VM.
- `CycleCollector`: objects and variables of classes are finite, there is at
  least one variable and room for one reference on the stack.

### The pool (`ThreadPoolProofs`)

`Invariant` proves `Spec => []IInv`. The properties do not preserve themselves:
that a job is fenced once depends on where it is, and where it is depends on
what each thread holds. `IInv` adds that:

| part | says | needed for |
| --- | --- | --- |
| `TypeOK` | types, the positions the loops outside the mutex read included | all |
| `ThreadState` | what `my` and `Thread::job` hold at each position of a thread | `RuncountExact`, `NoMissedAbort` |
| `OnePlace` | a job is new, queued, with one thread or with an additional thread | a queued job and a taken job are two jobs |
| `ExtraState` | only jobs of additional threads are reachable from the deque of pairs, also through stale pointers and copied pairs | `forceStop`, `forceStopWorker` and the additional threads fence no job of the queue |
| `Counters` | how often a job was run and fenced at each place | `PoolJobOnce`, `PoolJobUnfenced` |
| `Swept` | after the sweep the queue is empty, and who is busy was told to abort | `NoMissedAbort` |
| `PoolJobOnce`, `RuncountExact`, `PermitCover` | the properties themselves | |

From it follow `TypeCorrect`, `QueueAccounting` (`RuncountExact` and
`PermitCover`), `PoolJobSafe` (`PoolJobOnce` and `PoolJobUnfenced`),
`SweepAborts` (`NoMissedAbort`) and the action property `AbortsUnfenced`
(`AbortOnlyUnfenced`). The step of `PermitCover` is the one that counts: a set of
queued jobs is compared with the permits and the set of waking threads, with the
cardinality lemmas of the library.

### The pool implements the life of a job (`ThreadPoolProofs`)

`JobLifecycle` is what the comments of `IThreadJob` promise: a job is submitted
or refused, started at most once, and fenced at the end or instead of running.
`JobStatus` maps the state of the pool to the status of each job, and
`Refinement` proves `Spec => Lifecycle!Spec`. `StatusAtPlace` reads the status off
the place of a job; an action either leaves what the status depends on alone
(`Kept`) or is one of five that move it: `Execute` starts, `Fence` finishes,
`AddJobStopped` refuses, `AddJobQueued` submits, and the two sweeps drop a set
of waiting jobs in one step. The abstract specification has no liveness: the
code does not fence every job (section 6).

### The event queue (`VmEventQueueProofs`)

`Invariant` proves `Spec => []IInv`, with `IInv` the conjunction of `TypeOK` and

- `HandlerStack`: the VM thread is at a position inside `handleEvent` exactly
  while its stack is not empty, and the lowest frame is inside `tryHandleEvent`;
- `QueueClosed`: once the VM thread has left its loop, nothing is accepted and
  nothing is queued;
- `FrontThere`: what `signalEventWaiters` saw at the front is not gone when it
  pops, although other threads may have prepended;
- `PostedOnce`: `destroy` posts its own SHUTDOWN event once, so that the
  constant program of the main thread is never read beyond its end.

The proof splits each step by who takes it. The posting operations are
summarised once: each leaves the types intact, and changes `vpc` only from
`asleep` to `loop` (`AddEventEnqueues` .. `CallEnqueues`); a step of a posting
thread or of `destroy` leaves the stack and the front alone (`Undisturbed`), so
that `HandlerStack` and `FrontThere` are a matter of the VM thread alone.
`NothingStranded` (`NoEventStranded`), `ExceptionsCaught` (`ExceptionCaught`) and
`TypeCorrect` follow.

Where the events are is a second invariant over the first, `QueuesRegular`
(`Spec => []QueueInv`): `QueueInv` is `IInv`, what is known of events that were not
posted (`Posting`: they are nowhere), and `Regular`:

| part | says | needed for |
| --- | --- | --- |
| `Placement` | an event is queued if and only if it is in one place of one of the three queues | `NoEventLost` |
| `Handlers` | an event is handled if and only if it is on the stack of the VM thread, once | an event that is put back, or ends, was nowhere else |
| `Collections` | a collection is posted after its idle event was handled, and all that was queued then is in front of it | `CollectedLast` |
| `Served` | an event that is over has signalled; while `signalEventWaiters` runs, its copy of the front is the front | `WaitedEventPending` |
| `Waiters` | a thread that waits, waits for an event it has posted | `WaitedEventPending` |

The operations are of two kinds only: one event enters a queue at an end, a
queue loses an event at an end, or `event_buffer` goes as a whole before or behind
`events_queue`; each kind has lemmas on what the ranges and the order of the
sequences become (an event that is prepended is in front of a collection too),
and each part of `Regular` is shown once for each kind.

`Regular` is not an invariant of the code, and its theorems say when it stops to
be one. `IdleMoved` means that a SHUTDOWN was begun and some event was posted for
the idle queue. Only then does the VM thread push to `events_queue` without the
mutex, and section 6, 3 shows an event that is lost there; the properties except it
by its fate, the proofs stop at the move. `EventsKept`,
`CollectionsLast` and `WaitersServed` are therefore `Spec => [](IdleMoved \/ P)`. So
`EventsKept` covers every frame, every input, every exception and limit, and every
shutdown of a player that posted nothing for the idle queue.
An event that `signalEventWaiters` pops in the place of the front it has looked at,
because another thread has prepended it in between, gets the fate `mistaken`: the
signal went to the other event. `WaitedEventPending` excepts it (`Astray`), which the
proof attempt found; `VmInput` has the case, a prepended function together with a
failing script.

The order of events is a third invariant, `OrderInv`: `QueueInv`, that a thread which
still has events to post has skipped none (`Posted`), and `ThreadOrder`. Of two
events that one thread posts with `addEvent` the second is not known before the
first, it is never begun while the first is queued, and as long as both are
queued, both are in `events_queue`, the first in front. No queue alone shows it:
IDLE_EVENT and FLUSH_EVENT_BUFFER put other events before or behind them, an
external call is put to the front, and a drained queue drops them from the front
on. `PostedInOrder` (`TickOrder`) follows, and `DeliveryImplemented`
(`DeliversInOrder`): each step of the queues moves the fate of one event, or of an
idle event and the one it replaces, as `EventDelivery` allows it. The first is
`Spec => [](IdleMoved \/ TickOrder)`, the second, which is about whole behaviours,
`Spec /\ []~IdleMoved => DeliversInOrder`; the states without `IdleMoved` are those
described above, every frame among them.

### The timer thread (`TimerThreadProofs`, `ScriptTimersProofs`)

The theorems hold for any set of jobs, any finite set of events and any
intervals. `OwedExact` compares a count with a set: what a job can still expect
is the number of its entries that are alive. It is preserved because every
action that makes an entry, or fences one, changes both sides by one, which is
shown with the cardinality lemmas of the library; it needs `EventOnce`, since an
entry that were listed twice would be fenced twice. `NoOversleep` needs
`ListSorted`: an event that is inserted behind the first does not shorten the
wait. The inductive invariant is the conjunction of the five parts
(`TimerTypeOK`, `OwedExact`, `EventOnce`, `ListSorted`, `NoOversleep`), and the
lemmas on insertion and removal in a list (what it contains, that it stays
ordered and free of duplicates) are stated once and used by all of them.

`ScriptsUseTimerThread` is `Spec => TimerSpec` of `ScriptTimers`: each step of the
scripts, the intervals and the VM takes one step of the timer thread, or none.
By it the five theorems hold of the scripts' timers for any numbers of them. On
them rests the invariant of the scripts, `ScriptInv`: each runner that a script can
reach (`Needed`: in the map, or taken from it by a `clearInterval` that is not done)
is owed one fence, and each runner that was told to finish is out of reach
(`Clearing`, by the mutex of the manager); a `Timer` that was not told to stop has
its event in the list or in its tick (`Scheduled`). That `removeJob`, `Advance` and
the ticks of other jobs take no event from a job is stated once (`Shrinks`,
`Stays`) for all steps of the timer thread. `ClearFindsItsRunner` (`RunnerExists`: the
runners of the map and the one a `clearInterval` has in hand; it says nothing of a
tick, which may run on a deleted runner, section 6, 8) and `RunningTimerTicks` (`RunningTimerScheduled`) follow.

`RunnerInv` is about one runner and its end: it is owed at most one fence, and a
call that began after it was cleared was the only one (`LastCall`). For the
second it is known where a runner can be once no script reaches it (`GivenUp`): it
has no event in the list, or it was told to finish. The first call that begins
after that leaves it in a tick that will see `finished` (`Leaving`), or with no tick
to come (`Out`), and neither is ever left for another call. So
`RunnerDeletedOnce` (`RunnerFencedOnce`), `ClearedCallsOnce`
(`ClearedCallsAtMostOnce`), and `RunnersStayDeleted` (`DeletedForGood`): what is owed
no fence any more is never owed one again, that is, no deleted runner comes back
to the timer thread.

### Streams and downloads (`DownloadsProofs`)

`StreamInv` says that the chunks lie one behind the other and hold what
`append()` has stored (`ReceivedIsStored`), and that the get area of a reader is a part
of a chunk whose position is where its user has come to (`AreaFits`), but for a
reader that has gone on from a stale `chunkIndex` after a seek (`strayed`): of such
a one nothing is known but its types (`Gets`) until it seeks again. A chunk
never shrinks and never moves (`Grows`), so that what a reader has seen stays
true while data arrives; that a new chunk is large enough is arithmetic on
rounding (`RoundUpBound`). `WhatIsReceivedIsStored` and `ReadersReadInOrder` follow.

`DownloadInv` adds the life of the downloader: who holds its lock (`Locking`),
what the load has at each of its positions (`HasDownloader`), who may still use it
(`Using`: its job until the fence, `stopAll` while it is listed, the sweep while its
job runs, an abort while it is assigned), and for its data who settles the length
(`Transfer`), that a good end is final (`EndedWell`) and what was copied and
allocated. `NobodyUsesADeletedDownloader` (`DownloaderSafe`), `ACompleteLoadIsWhole`
(`CompleteIsWhole`: all that was received, which may be more or less than was
announced, was read and is in what is given; the rest of a longer length is not,
section 6, 13) and `TheBufferIsLargeEnough` (`BufferHolds`) follow. Two facts
that one would not write down were needed: that the fence is lowered before
the job is given to the pool, and that a downloader is given to it once.

### Sounds (`SoundPlaysProofs`)

`SoundInv` is the account of the permits of the ring (`SlotsAccounted`), the places
of the three threads (`PlacesFit`: who may be inside the queue, who holds the
mutex, how long the two pointers to the decoder are set, on every way out of the
round: its end, bad data, an exception, an abort), the channel with its one job
(`ChannelOK`), and, as long as the
device is the only consumer, `RingOrder`: from the head on the taken slots follow
each other, and the filled ones hold consecutive frames. `SlotsAreAccounted`,
`DecoderStaysAlive` (`DecoderAlive`), `ChannelHasOneJob` (`OneJob`) and the action
property `FramesPlayedInOrder` (`PlayedInOrder`) follow. The order of frames was
first stated without the condition `FrontUnfilled`, and the checks with three
frames agreed; the proof failed where `isEmpty` is false while nothing is filled,
and four frames then showed it (section 6, 12).

### Workers (`BackgroundWorkersProofs`)

The stacks of calls are the difficulty: a fence of a worker is a call on the
stack of some thread, and another call above it may begin another fence.
`FencedOnce` counts the fences that were made and those that are still on some
stack (`FencesAt`), for each worker the pool has; `HasThread` relates the position
of a worker's thread to its place in the pool, and `MainIdle` says that the thread
that stops the pool calls nothing before. For each kind of call one lemma says
what it pushes; all but three push no fence (`Fenceless`) and then leave the count
alone (`Quiet`). The three are the end of a job, the removal of a queued one and
the sweep of `forceStop`. `OneFenceInThePool` (`PoolWorkerFencedOnce`),
`ParserHearsTerminate` (`TerminateStopsParser`) and `TheLoopAnswersAll`
(`AcceptedAnswered`) follow from `WorkersInvHolds`.

The mutexes are held by elements of the same stacks, and `LockInv` says how. Each
mutex has a rank, the event queue of the VM 0, the list of workers 1, the pool 2,
and each call a level, the lowest rank that it can still take; `Ordered` says that
a call is never above a mutex of a rank higher than its level: what a thread does
while it holds a mutex takes only mutexes of a higher rank, however deep it is in
fences, events and removals. One lemma for each kind of call shows that the
calls it turns into keep to that (`FrameIsGood`, `CallFits`, `SweepFits`), and a mutex
is put on a stack only where it is free, so that `OneHolder`
(`MutualExclusion`) is kept with it. A thread that holds a mutex and waits, waits
for one of a higher rank that another thread holds (`WaitsForHigher`); such a chain
ends after three, which is `NoCircleOfMutexes` (`HolderGoesOn`). The order is kept
unless `Entangled`: a worker was swept from the queue of the pool, or has a thread
of its own. Then it is really broken, and the threads can wait for each other
(the comment at `Entangled`, and the hazard at `swf.cpp:1004`).

`WorkersTypeCorrect` (`TypeOK`) needs what the other proofs do not: that what is
posted, fenced, pushed or woken is a worker (`TypedCalls`).

### The collector (`CycleCollectorProofs`)

Two invariants, one on the other, and the second ends with the first misjudged
collection: `SoundInv` is `misjudged \/ CountInv`. `ListInv` says that the list of candidates is
one chain (`Linked`), that every marked object is in it, that from `gcStart` one
comes to all of it (`Connected`, stated with closed sets since a recursive
definition is not available), and which calls can be in progress (`CallsFit`).
It holds whatever the searches answer (`ListIsLinked`, and `TypesHold` for the
types): insertion and removal keep the chain, and the successor that the loop
of a collection has read stays in it, because what a release adds comes last and
what it releases is not in the list.

`CountInv` gives every object one of four states: in use with exact counts
(`Good`), free (`Dead`), its last reference gone and its variables following
(`Dying`), or taken by the collection, whose counts are frozen (`Condemned`: all
variables that refer to it are those of objects that the same collection
destructs). `CallsOwn` ties these states to the stack of calls: a frame `release`
is for a dying object, a frame `collect` for a condemned one, no object is twice
on the stack, and a value that waits to be counted (`add`) is stored in an object
that the script's stack holds, so that the release of the old value cannot reach
it. `CollectionOwns` says that what is condemned lies ahead of the loop that
releases it, so that none is left when a collection ends. `CountsExact` itself is
far from inductive: during releases it is false of most objects.

`SoundInv` is kept by each step under `SearchRight`, one lemma for each operation
(`CountNew` .. `CountRelease`); the account of one object is stated once for a
removed reference (`RemovedAccount`), a dropped one (`DroppedAccount`) and an
exchanged variable (`Replaced`), and `SameAccount` covers all other objects.
`CountsAreExact` (`CountsExact`), `NothingReleasedInUse` (`NoReleasedInUse`) and
the action property `ReachableStays` (`ReachableKept`) follow. They are stated as
`Spec /\ []SearchRight => ...`, and the properties themselves say what they say until
a search that judged an object too early has given something in use away
(`misjudged`, section 6, 6). What remains to the search of the code is exactly
`SearchRight`: that only such a search does so. TLC checks it on the five objects of
`GcSound`, where it happens, and on any graph of three. For the rest of the
collector the theorems show that nothing else can go wrong, for any number of
objects and variables.

`SearchRight` is about everything that could refer to what a search gives to the
collection, and the search of the code sees none of that: it counts, inside the
cycle, the references to each object it has found, and compares `gccounter` with
`ref_count`, for the candidate with `storedmembercount`. `CountingSuffices` says that
this is the right comparison: `Spec /\ []SearchCounts => []SearchRight`, where
`SearchCounts` only says that each object was found once, is neither released nor
constant, and that the references to it from what was found are as many as the
count. It needs `CountInv`, because only exact counts can stand for the references
one does not see, and so the searches before. What is left to the recursion is
to count right whenever it is not early; TLC finds that it does in both instances.

### Only model-checked

- Liveness: the proof system has no support for `ENABLED`, on which fairness
  rests. All liveness properties stay with TLC.
- The search of `CycleSearch`: that what it counts is what there is
  (`SearchCounts`), hence `SearchRight` without a hypothesis. It is recursive over
  the graph, in the code and in the model; `RECURSIVE` operators and induction
  over data are out of the reach of the installed provers. `CycleCollected` rests
  on what the search finds and stays with TLC too.
- That every program of `MCVmEventQueue` satisfies the assumptions is evaluated
  by TLC, as all assumptions are; what happens after `IdleMoved` is left to TLC and
  to section 6, 3.

## 6. Disagreements between code and comments

The first has a run in which TLC finds the trace; each of the others is shown
by the named configuration, changed as it says, with the property in the place of
those listed there. (An invariant is found faster with `SPECIFICATION Spec`.)

1. **A job that is never fenced** (run `PoolFenced`, `thread_pool.cpp:200`). A
   thread takes a job; `forceStop` sets `stopFlag` before the thread tests it
   again; the thread returns without `jobFence()`. The job is no longer in the
   queue, so `forceStop` does not fence it either. `interfaces/threading.h:53`
   promises the fence; `ThreadedDownloader::waitFencing` waits for it for ever.
   The opposite: after `forceStopWorker` has erased a pair (`thread_pool.cpp:145`), an
   additional thread works on the pair of another, and a job is executed and
   fenced twice, although "there is no access to this object after jobFence()"
   (`interfaces/threading.h:57`). `PoolSafety.cfg`: `NoAccessAfterFence`.
2. **Threads that end when a worker is removed** (`thread_pool.cpp:187`).
   `forceStopWorker` gives one permit to each thread; an idle thread that finds
   the queue empty ends for good. With no thread left `runcount` is below the
   pool size, `addJob` queues where it would else make a thread ("no slot available,
   we create an additional thread", `thread_pool.cpp:244`), and nobody takes the job.
   `PoolProgress.cfg` with `Jobs <- TwoJobs`, `Endless <- NoneOf`,
   `Stops <- ForceStop`: `QueuedJobTaken`. What is left of it, that one live thread
   which becomes free is enough, is `QueuedJobLeaves`.
3. **A lost idle event** (`abc.cpp:1146`). SHUTDOWN moves the idle events "no
   need to lock as this is the vm thread" (`abc.cpp:1149`), but the target is the
   deque other threads push to. `VmInput.cfg` with `Failures <- NoFailures`:
   `NoEventAstray`. As it stands that configuration shows the second way too:
   `signalEventWaiters` runs without the mutex, "because th->shuttingdown keeps other
   events from being enqueued" (`abc.cpp:1949`), but `tryHandleEvent` calls it after an
   exception, when nothing is shutting down. Its `assert(shuttingdown)`
   (`abc.cpp:1948`) fails then (`DrainsClosedQueue`), and an event that is prepended
   between its `front` and its `pop_front` is dropped and its waiter not signalled.
4. **Engines deleted under the VM** (`abc.cpp:1868`). `shutdownVM` sets
   `TERMINATED` before its work; `destroy` and `stopEngines` read it and skip the
   join, although "first shutdown the vm, because it can use all the others"
   (`swf.cpp:636`). `VmClose.cfg` with `SPECIFICATION Spec`: `VmStoppedBeforeEngines`.
5. **A dropped SHUTDOWN** (`abc.cpp:1951`). After an exception
   `signalEventWaiters` empties the queue "to prevent deadlocking"
   (`abc.cpp:1945`); a SHUTDOWN event goes with the rest and `destroy` waits for
   ever. `VmClose.cfg`: `ShutdownCompletes`.
6. **A cycle that is collected while in use** (`asobject.cpp:2979`). An object
   that the search meets again while it is inside it answers with the
   `hasmember` of that moment. Of two cycles that share an object, the one
   without the start is judged not to lead back to it, and its outside references
   do not count. `GcSound.cfg`: `ReachableAlwaysKept`.
7. **A position that is not the reader's** (`streamcache.cpp:313`, `:345`).
   `getOffset`, documented as "the position of the read cursor", adds the place in
   the get area to `chunkStartOffset`; `seekpos` sets the get area in another chunk
   and leaves that offset, and the chunk index, as they were.
   `StreamReads.cfg` with `SPECIFICATION StreamSpec`, `ChunkSizes = {2}`,
   `MaxLength = 4`: `OffsetIsCursor`. When the reader comes to the end of that area,
   `underflow` (`:229`) goes on from the old index: it compares addresses of two
   buffers, and the bytes that follow are repeated, left out, or not of the stream
   (a reader that is `strayed`).
8. **A tick of a stopped `Timer`** (`Timer.cpp:178`). "no new events will be sent
   now", says `stop`; but when `stop` and `start` come during a tick, the worker
   finds `stopMe` reset and the `Timer` has two entries, of which the next `stop`
   removes one. `TimerTicks.cfg` with `SPECIFICATION Spec` and `RepeatCounts <- Two`:
   `TicksOnlyWhileRunning`. And a tick of a deleted runner: `clearInterval` reads
   `running` between the unlock of the worker and the line of `tick` that sets it, or
   after the one that resets it (`IntervalRunner.cpp:58`, `:63`), and the removal
   fences and deletes the runner whose `tick` goes on. `timer.h:86` says of
   `removeJob` that it waits for a tick that runs; it does not. `TimerTicks.cfg` with
   `SPECIFICATION Spec`: `RunnerAliveInTick`.
9. **A wait that is not ended** (`netutils.cpp:865`). `stopEngines` stops the
   downloads "so that the thread pool does not keep waiting for data"
   (`swf.cpp:821`), but a load that passes its test of `threadAborting` before
   creating its downloader, which is then never run, has a stream nobody ends.
   `UrlLoads.cfg`: `NoWaitForData`.
10. **`soundComplete` with a frame left** (`threading.h:190`). Two consumers and
    the producer write `empty`; a wrong `true` ends the sound, although "only add
    soundcomplete event if sound was played until the end"
    (`flashmedia.cpp:1501`). `SoundStops.cfg` with `SPECIFICATION Spec`:
    `PlayedToTheEnd`.
11. **A skip that spins** (`decoder.cpp:911`). Two consumers of one slot take two
    permits and move the head once; `skipAll` then finds a queue that is never
    empty and never has a permit. `SoundStops.cfg`: `SkipAllReturns`.
12. **A frame out of order** (`threading.h:188`). The pop of the last filled frame
    sets `empty` when head and tail meet; if `acquireLast` has taken the next slot
    already they do not, and the queue that holds nothing says that it is not empty
    (the comment at the permit is "A frame is available"). The device then reads
    from the slot that is being filled what an earlier frame left there.
    `SoundStops.cfg` with `SPECIFICATION Spec` and `MaxFrames = 4`: `FramesInOrder`.
    A proof attempt found it; three frames are not enough to see it.
13. **More data than arrived** (`netutils.cpp:311`). The stream ends before the
    downloader's length is set to what was received, so that the load, woken by the
    end, may read the announced length and hand it over with `complete` (announced
    3, received 2). `UrlLoads.cfg` with `SPECIFICATION Spec`: `GivenIsReceived`.

In the model of the sounds, though no comment says otherwise: `stop()` does not
cancel a restart that a `play()` before it has asked for, and when the restart comes
between its abort and its wait (`flashmedia.cpp:1336`, `:1337`) it returns when the new
play ends, which is never for a stream without an end; data without a sound drops
a restart (`:1406`); and `stopping` stays set when `stop()` finds nothing that plays or
the job is aborted, so that the end of the next play is not told (`:1335`).

## 7. What is not modelled

- In the modelled components: the mode without threads (`handleQueuedEvents`)
  and the deletable objects of the VM; in the collector the AVM1
  watchers, getters and setters and the containers that override
  `countCylicMemberReferences` (they refer to objects the way variables do), the
  free lists of classes, `prepareShutdown` and the forced collection at the end
  of a worker, and the last `decRef` of an object shared by two threads; of the
  streams the cache in a file, `openForWriting` and `NetStream`; of the
  downloads a second `load()` of one `URLLoader`; of the sounds those without a
  device or built from samples, `resume`, and a start time; of the workers a
  restart after `terminate`; of the event queue what `setError` does besides (it stops
  the timers of the player).
- What exemptions leave open: `CallsReturn`, `AbortedEnds` and `EndedLeavesList` of the
  workers say nothing where `Entangled` holds, so that the deadlock at `swf.cpp:1004` is
  described and not bounded; the worker that `stopAllBackgroundWorkers` skips
  (`flashsystem.cpp:743`) is ended by the sweep of the pool in the run, so that the skip
  has no consequence there; `terminate()` of a worker is one step; and nobody but the
  readers of `StreamReads` waits for the main signal in it (`VmReaders` is empty).
- Timers of the event loop (`LSTimers`), the list of audio streams, the draw
  jobs, the order of frame construction and the whole of `SystemState::destroy`:
  in reach, and next in the plan.
- Functions from data to data: parsers, interpreters and optimiser, strings,
  geometry, the library classes. They are sequential and large; tests on values
  reach them, and a model of them would repeat the code.
- Everything behind an interface: SDL, OpenGL, codecs, curl, librtmp, the
  browser, the operating system. What the modelled code needs of them is in the
  models: a semaphore, a condition that may be signalled before the wait, a
  thread that can be joined.
- One hazard of the list is in a model and covered by no property, because the
  code promises nothing there: the wake-up of a waiting thread that is lost
  between `Check` and `Enter` (any later broadcast of the main signal wakes it).
  Another, an additional job that two threads execute and fence, is covered by
  none because the code does not keep what it promises (section 6, 1).

Seen while reading, in parts without a model and therefore not in the list of
hazards: `audio.cpp:211` returns with `managerMutex` locked, and `:196` leaves
producers of a stream that ended; `timer.cpp:308` runs at most ten late timers and
then sets the clock back; `swf.cpp:1220` calls `removeJob_noLock` without the
mutex; `swf.cpp:2803` tests `isinitialized` and waits in two steps;
`IntervalRunner.cpp:56` leaves a deleted runner in the map at the shutdown;
`netutils.cpp:904` may report an
error while the stream is being closed; `ASWorker.cpp:868` starts a worker again that was
terminated; `smartrefs.h:107` tests and decrements the count of a shared object
in two steps; and a candidate for collection is looked for only at a pop and at
the end of a function (`abc_methods.cpp:416`).

## 8. Plan

| | module | state | next |
| --- | --- | --- | --- |
| 1 | `ThreadPool`, `JobLifecycle` | checked, proved | - |
| 2 | `VmEventQueue`, `EventDelivery` | checked, safety and delivery in order proved | what is left of the order after the unlocked move |
| 3 | `CycleCollector`, `CycleSearch` | checked; counts, list and reachability proved for any search that is right, and that is one that counts right | the forced collection at the end of a worker; a search by closed sets that `CycleSearch` can be compared with |
| 4 | `TimerThread`, `ScriptTimers` | checked, safety proved | - |
| 5 | `StreamCache`, `Downloads` | checked, safety proved | the cache in a file; `NetStream` |
| 6 | `SampleQueue`, `SoundPlays` | checked, safety proved | a bounded FIFO that a single consumer's queue implements |
| 7 | `BackgroundWorkers` | checked, safety and the order of mutexes proved | restart after `terminate` |
| 8 | `PlayerShutdown` | open | `destroy` and `stopEngines` with the abstract life of pool, VM, timers and downloads: engines end after what uses them, everything is joined |
| 9 | `AudioManager`, `LSTimers` | open | no return with a mutex held; no timer starves |
| 10 | draw jobs, frame construction | open | jobs drawn from complete data; one construction per clip, before its script |

Composition: 8 would use the modules of 1, 2, 4 and 5 through `INSTANCE`, with
the abstract specification in the place of a component (`JobLifecycle` for the
pool) where the whole product would be too large. A run for each new module
checks safety and, where the code's scheduling justifies fairness, progress.
