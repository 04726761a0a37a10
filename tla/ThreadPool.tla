------------------------------ MODULE ThreadPool ------------------------------
(***************************************************************************)
(* The job pool of the player (src/src/thread_pool.cpp): a fixed vector of *)
(* worker threads that take jobs from one deque, additional threads that   *)
(* are created when every worker thread is busy, and the three operations  *)
(* that end jobs: forceStop, waitAll and forceStopWorker.                  *)
(*                                                                         *)
(* A section under ThreadPool::mutex is one step; what the code reads or   *)
(* writes outside the mutex is a step of its own.  The deque of jobs is    *)
(* the set of its elements with the stamp each got from push_back; erasing *)
(* in the middle is then set difference.                                   *)
(***************************************************************************)
EXTENDS Integers, FiniteSets

CONSTANTS
    Threads,     \* the worker threads the constructor creates
    Jobs,        \* the IThreadJob objects, each submitted at most once
    Workers,     \* the ASWorker objects on whose behalf jobs are submitted
    FromWorker,  \* IThreadJob::fromWorker, set by addJob from its caller
    Endless,     \* the jobs whose execute() returns only once threadAborting is set
    Removable,   \* the workers SystemState::removeWorker may remove
    Stops,       \* the pool-wide operations the main thread may call
    NoJob        \* the null pointer

ASSUME ThreadsAssumption == IsFiniteSet(Threads)
ASSUME JobsAssumption    == IsFiniteSet(Jobs) /\ NoJob \notin Jobs
ASSUME WorkersAssumption == FromWorker \in [Jobs -> Workers] /\ Removable \subseteq Workers
ASSUME StopsAssumption   == Stops \subseteq {"forceStop", "waitAll"} /\ Endless \subseteq Jobs

VARIABLES
    jobs, stamp,     \* the deque of waiting jobs, and the push_back order
    added,           \* the jobs addJob was called with
    numJobs,         \* the value of the semaphore num_jobs
    stopFlag,
    poolSize,        \* threadPool.size()
    runcount,
    pc, job, my,     \* per worker thread: position, Thread::job, the local myJob
    aborting,        \* IThreadJob::threadAborting
    runs, fences,    \* how often execute() was entered, jobFence() was called
    lo, hi, slot,    \* the deque additionalThreads: its first and last position
    xpc, xptr, xjob, \* per additional thread: position, its pair pointer, its myJob
    spc, si, send, scur, \* forceStop and waitAll: position, loop index and end, copied pair
    kpc, kw, ki, kcur, \* forceStopWorker: position, wrk, iterator, copied pair
    removed          \* the workers forceStopWorker was called for

poolVars  == <<jobs, stamp, added, numJobs, stopFlag, poolSize, runcount>>
threadVars == <<pc, job, my>>
jobVars   == <<aborting, runs, fences>>
slotVars  == <<lo, hi, slot>>
extraVars == <<xpc, xptr, xjob>>
stopVars  == <<spc, si, send, scur>>
killVars  == <<kpc, kw, ki, kcur, removed>>
vars == <<poolVars, threadVars, jobVars, slotVars, extraVars, stopVars, killVars>>

-----------------------------------------------------------------------------
MaybeJob == Jobs \cup {NoJob}

\* An additional thread is named by the job it was created for.
Pair   == [thread : MaybeJob, job : MaybeJob]
NoPair == [thread |-> NoJob, job |-> NoJob]

\* Positions of the deque's storage.  Erasing at the front moves the begin
\* up, erasing at the back frees a position for the next emplace_back.
Slots == 1 .. (Cardinality(Jobs) + 1)

Busy(t)       == job[t] # NoJob
Additional(x) == xpc[x] # "none"

Init ==
    /\ jobs = {} /\ stamp = [j \in Jobs |-> 0] /\ added = {}
    /\ numJobs = 0 /\ stopFlag = FALSE
    /\ poolSize = Cardinality(Threads) /\ runcount = 0
    /\ pc = [t \in Threads |-> "wait"]
    /\ job = [t \in Threads |-> NoJob] /\ my = [t \in Threads |-> NoJob]
    /\ aborting = [j \in Jobs |-> FALSE]
    /\ runs = [j \in Jobs |-> 0] /\ fences = [j \in Jobs |-> 0]
    /\ lo = 1 /\ hi = 0 /\ slot = [p \in Slots |-> NoPair]
    /\ xpc = [j \in Jobs |-> "none"]
    /\ xptr = [j \in Jobs |-> 1] /\ xjob = [j \in Jobs |-> NoJob]
    /\ spc = "idle" /\ si = 1 /\ send = 0 /\ scur = NoPair
    /\ kpc = "idle" /\ kw = NoJob /\ ki = 1 /\ kcur = NoPair /\ removed = {}

-----------------------------------------------------------------------------
(***************************************************************************)
(* ThreadPool::job_worker                                                  *)
(***************************************************************************)

Wake(t) ==
    /\ pc[t] = "wait" /\ numJobs > 0
    /\ numJobs' = numJobs - 1
    /\ pc' = [pc EXCEPT ![t] = "woken"]
    /\ UNCHANGED <<jobs, stamp, added, stopFlag, poolSize, runcount, job, my,
                   jobVars, slotVars, extraVars, stopVars, killVars>>

CheckStop(t) ==
    /\ pc[t] = "woken"
    /\ pc' = [pc EXCEPT ![t] = IF stopFlag THEN "exited" ELSE "lock"]
    /\ UNCHANGED <<poolVars, job, my, jobVars, slotVars, extraVars, stopVars, killVars>>

\* The thread ends for good when it finds the queue empty.
TakeNothing(t) ==
    /\ pc[t] = "lock" /\ jobs = {}
    /\ pc' = [pc EXCEPT ![t] = "exited"]
    /\ UNCHANGED <<poolVars, job, my, jobVars, slotVars, extraVars, stopVars, killVars>>

\* Thread::job, which forceStop reads to find the job to abort.
PublishForgotten(t, j) == UNCHANGED job
Publish(t, j) == job' = [job EXCEPT ![t] = j]

CountUp == runcount' = runcount + 1

Front(j) == j \in jobs /\ \A k \in jobs : stamp[j] <= stamp[k]

Take(t) ==
    /\ pc[t] = "lock"
    /\ \E j \in Jobs :
         /\ Front(j)
         /\ jobs' = jobs \ {j}
         /\ stamp' = [stamp EXCEPT ![j] = 0]
         /\ Publish(t, j)
         /\ my' = [my EXCEPT ![t] = j]
    /\ CountUp
    /\ pc' = [pc EXCEPT ![t] = "got"]
    /\ UNCHANGED <<added, numJobs, stopFlag, poolSize, jobVars, slotVars, extraVars,
                   stopVars, killVars>>

\* The second look at stopFlag: the thread leaves without clearing
\* Thread::job, without decrementing runcount and without fencing the job.
Abandon(t) ==
    /\ pc[t] = "got" /\ stopFlag
    /\ pc' = [pc EXCEPT ![t] = "exited"]
    /\ UNCHANGED <<poolVars, job, my, jobVars, slotVars, extraVars, stopVars, killVars>>

Execute(t) ==
    /\ pc[t] = "got" /\ ~stopFlag
    /\ pc' = [pc EXCEPT ![t] = "exec"]
    /\ runs' = [runs EXCEPT ![my[t]] = @ + 1]
    /\ UNCHANGED <<poolVars, job, my, aborting, fences, slotVars, extraVars, stopVars, killVars>>

\* execute() returns or throws; both end in the same place.
Return(t) ==
    /\ pc[t] = "exec"
    /\ my[t] \in Endless => aborting[my[t]]
    /\ pc' = [pc EXCEPT ![t] = "done"]
    /\ UNCHANGED <<poolVars, job, my, jobVars, slotVars, extraVars, stopVars, killVars>>

ReleaseKeepsJob(t) ==
    /\ pc[t] = "done"
    /\ runcount' = runcount - 1
    /\ pc' = [pc EXCEPT ![t] = "fence"]
    /\ UNCHANGED <<jobs, stamp, added, numJobs, stopFlag, poolSize, job, my, jobVars, slotVars,
                   extraVars, stopVars, killVars>>
Release(t) ==
    /\ pc[t] = "done"
    /\ job' = [job EXCEPT ![t] = NoJob]
    /\ runcount' = runcount - 1
    /\ pc' = [pc EXCEPT ![t] = "fence"]
    /\ UNCHANGED <<jobs, stamp, added, numJobs, stopFlag, poolSize, my, jobVars, slotVars,
                   extraVars, stopVars, killVars>>

Fence(t) ==
    /\ pc[t] = "fence"
    /\ fences' = [fences EXCEPT ![my[t]] = @ + 1]
    /\ my' = [my EXCEPT ![t] = NoJob]
    /\ pc' = [pc EXCEPT ![t] = "wait"]
    /\ UNCHANGED <<poolVars, job, aborting, runs, slotVars, extraVars, stopVars, killVars>>

-----------------------------------------------------------------------------
(***************************************************************************)
(* ThreadPool::addJob and runAdditionalThread, one section under the mutex *)
(***************************************************************************)

AddJobStopped(j) ==
    /\ j \notin added /\ stopFlag
    /\ added' = added \cup {j}
    /\ fences' = [fences EXCEPT ![j] = @ + 1]
    /\ UNCHANGED <<jobs, stamp, numJobs, stopFlag, poolSize, runcount, threadVars, aborting,
                   runs, slotVars, extraVars, stopVars, killVars>>

runAdditionalThread(j) ==
    /\ hi' = hi + 1
    /\ slot' = [slot EXCEPT ![hi + 1] = [thread |-> j, job |-> j]]
    /\ xptr' = [xptr EXCEPT ![j] = hi + 1]
    /\ xpc' = [xpc EXCEPT ![j] = "start"]

AddJobAdditional(j) ==
    /\ j \notin added /\ ~stopFlag /\ runcount = poolSize
    /\ hi + 1 \in Slots
    /\ added' = added \cup {j}
    /\ runAdditionalThread(j)
    /\ UNCHANGED <<jobs, stamp, numJobs, stopFlag, poolSize, runcount, threadVars, jobVars,
                   lo, xjob, stopVars, killVars>>

SignalForgotten == UNCHANGED numJobs
SignalOne == numJobs' = numJobs + 1

AddJobQueued(j) ==
    /\ j \notin added /\ ~stopFlag /\ runcount # poolSize
    /\ added' = added \cup {j}
    /\ jobs' = jobs \cup {j}
    /\ stamp' = [stamp EXCEPT ![j] = Cardinality(added) + 1]
    /\ SignalOne
    /\ UNCHANGED <<stopFlag, poolSize, runcount, threadVars, jobVars, slotVars, extraVars,
                   stopVars, killVars>>

-----------------------------------------------------------------------------
(***************************************************************************)
(* ThreadPool::additional_job_worker, the thread created for job x.  It    *)
(* keeps a pointer to its pair in the deque: reads and writes go to        *)
(* whatever that position holds by then.                                   *)
(***************************************************************************)

\* A pair that no longer names a job is dereferenced: the thread is lost.
ExtraStart(x) ==
    /\ xpc[x] = "start"
    /\ LET j == slot[xptr[x]].job IN
         IF j = NoJob
         THEN xpc' = [xpc EXCEPT ![x] = "crashed"] /\ UNCHANGED <<xjob, runs>>
         ELSE /\ xpc' = [xpc EXCEPT ![x] = "exec"]
              /\ xjob' = [xjob EXCEPT ![x] = j]
              /\ runs' = [runs EXCEPT ![j] = @ + 1]
    /\ UNCHANGED <<poolVars, threadVars, aborting, fences, slotVars, xptr, stopVars, killVars>>

ExtraReturn(x) ==
    /\ xpc[x] = "exec"
    /\ xjob[x] \in Endless => aborting[xjob[x]]
    /\ xpc' = [xpc EXCEPT ![x] = "fence"]
    /\ UNCHANGED <<poolVars, threadVars, jobVars, slotVars, xptr, xjob, stopVars, killVars>>

ExtraFence(x) ==
    /\ xpc[x] = "fence"
    /\ fences' = [fences EXCEPT ![xjob[x]] = @ + 1]
    /\ xpc' = [xpc EXCEPT ![x] = "clear"]
    /\ UNCHANGED <<poolVars, threadVars, aborting, runs, slotVars, xptr, xjob, stopVars, killVars>>

ExtraClear(x) ==
    /\ xpc[x] = "clear"
    /\ slot' = [slot EXCEPT ![xptr[x]].job = NoJob]
    /\ xpc' = [xpc EXCEPT ![x] = "ended"]
    /\ UNCHANGED <<poolVars, threadVars, jobVars, lo, hi, xptr, xjob, stopVars, killVars>>

-----------------------------------------------------------------------------
(***************************************************************************)
(* ThreadPool::forceStop, called by the thread that destroys the player    *)
(***************************************************************************)

\* Every queued job of S is fenced and every busy thread's job of S aborted.
AbortAndKeep(S) ==
    /\ aborting' = [j \in Jobs |-> aborting[j] \/ (j \in S /\ \E t \in Threads : job[t] = j)]
    /\ fences' = [j \in Jobs |-> IF j \in S \cap jobs THEN fences[j] + 1 ELSE fences[j]]
    /\ UNCHANGED <<jobs, stamp>>
AbortAndFence(S) ==
    /\ aborting' = [j \in Jobs |-> aborting[j] \/ (j \in S /\ \E t \in Threads : job[t] = j)]
    /\ fences' = [j \in Jobs |-> IF j \in S \cap jobs THEN fences[j] + 1 ELSE fences[j]]
    /\ jobs' = jobs \ S
    /\ stamp' = [j \in Jobs |-> IF j \in S \cap jobs THEN 0 ELSE stamp[j]]

\* Both operations signal the semaphore once per thread, outside the mutex.
SignalNone == UNCHANGED numJobs
SignalAll == numJobs' = numJobs + poolSize

StopBegin ==
    /\ spc \in {"idle", "waited"} /\ ~stopFlag /\ "forceStop" \in Stops
    /\ stopFlag' = TRUE
    /\ spc' = "signal"
    /\ UNCHANGED <<jobs, stamp, added, numJobs, poolSize, runcount, threadVars, jobVars,
                   slotVars, extraVars, si, send, scur, killVars>>

StopSignal ==
    /\ spc = "signal"
    /\ SignalAll
    /\ spc' = "sweep"
    /\ UNCHANGED <<jobs, stamp, added, stopFlag, poolSize, runcount, threadVars, jobVars,
                   slotVars, extraVars, si, send, scur, killVars>>

StopSweep ==
    /\ spc = "sweep"
    /\ AbortAndFence(Jobs)
    /\ spc' = "join"
    /\ UNCHANGED <<added, numJobs, stopFlag, poolSize, runcount, threadVars, runs, slotVars,
                   extraVars, si, send, scur, killVars>>

AllExited == \A t \in Threads : pc[t] = "exited"

StopJoin ==
    /\ spc = "join" /\ (AllExited \/ poolSize = 0)
    /\ spc' = "next" /\ si' = lo /\ send' = hi
    /\ UNCHANGED <<poolVars, threadVars, jobVars, slotVars, extraVars, scur, killVars>>

\* The loop over additionalThreads copies each pair.
StopNext ==
    /\ spc = "next"
    /\ IF si > send
       THEN spc' = "stopped" /\ scur' = NoPair
       ELSE spc' = "abort" /\ scur' = slot[si]
    /\ UNCHANGED <<poolVars, threadVars, jobVars, slotVars, extraVars, si, send, killVars>>

\* The job the copy names is aborted and fenced, then its thread is joined.
StopAbort ==
    /\ spc = "abort"
    /\ IF scur.job = NoJob
       THEN UNCHANGED <<aborting, fences>>
       ELSE /\ aborting' = [aborting EXCEPT ![scur.job] = TRUE]
            /\ fences' = [fences EXCEPT ![scur.job] = @ + 1]
    /\ spc' = "joinPair"
    /\ UNCHANGED <<poolVars, threadVars, runs, slotVars, extraVars, si, send, scur, killVars>>

StopJoinPair ==
    /\ spc = "joinPair" /\ xpc[scur.thread] = "ended"
    /\ spc' = "next" /\ si' = si + 1
    /\ UNCHANGED <<poolVars, threadVars, jobVars, slotVars, extraVars, send, scur, killVars>>

(***************************************************************************)
(* ThreadPool::waitAll                                                     *)
(***************************************************************************)

WaitSignal ==
    /\ spc = "idle" /\ "waitAll" \in Stops
    /\ SignalAll
    /\ spc' = "waitJoin"
    /\ UNCHANGED <<jobs, stamp, added, stopFlag, poolSize, runcount, threadVars, jobVars,
                   slotVars, extraVars, si, send, scur, killVars>>

\* The threads have ended: the vector is cleared, outside the mutex.
WaitJoin ==
    /\ spc = "waitJoin" /\ AllExited
    /\ poolSize' = 0
    /\ spc' = "waitPair" /\ si' = lo /\ send' = hi
    /\ UNCHANGED <<jobs, stamp, added, numJobs, stopFlag, runcount, threadVars, jobVars,
                   slotVars, extraVars, scur, killVars>>

WaitPair ==
    /\ spc = "waitPair" /\ si <= send
    /\ xpc[slot[si].thread] = "ended"
    /\ si' = si + 1
    /\ UNCHANGED <<poolVars, threadVars, jobVars, slotVars, extraVars, spc, send, scur, killVars>>

WaitEnd ==
    /\ spc = "waitPair" /\ si > send
    /\ lo' = hi + 1
    /\ spc' = "waited"
    /\ UNCHANGED <<poolVars, threadVars, jobVars, hi, slot, extraVars, si, send, scur, killVars>>

-----------------------------------------------------------------------------
(***************************************************************************)
(* ThreadPool::forceStopWorker, called by SystemState::removeWorker under  *)
(* workerMutex: one call at a time, on the thread that handles the event.  *)
(***************************************************************************)

KillBegin(w) ==
    /\ kpc = "idle" /\ w \in Removable \ removed
    /\ removed' = removed \cup {w}
    /\ kw' = w
    /\ SignalAll
    /\ kpc' = "sweep"
    /\ UNCHANGED <<jobs, stamp, added, stopFlag, poolSize, runcount, threadVars, jobVars,
                   slotVars, extraVars, stopVars, ki, kcur>>

KillSweep ==
    /\ kpc = "sweep"
    /\ AbortAndFence({j \in Jobs : FromWorker[j] = kw})
    /\ kpc' = "next" /\ ki' = lo
    /\ UNCHANGED <<added, numJobs, stopFlag, poolSize, runcount, threadVars, runs, slotVars,
                   extraVars, stopVars, kw, kcur, removed>>

\* The loop over additionalThreads runs outside the mutex.
KillNext ==
    /\ kpc = "next"
    /\ IF ki > hi
       THEN kpc' = "idle" /\ kcur' = NoPair
       ELSE kpc' = "test" /\ kcur' = slot[ki]
    /\ UNCHANGED <<poolVars, threadVars, jobVars, slotVars, extraVars, stopVars, kw, ki, removed>>

KillSkip ==
    /\ kpc = "test"
    /\ kcur.job # NoJob => FromWorker[kcur.job] # kw
    /\ kpc' = "next" /\ ki' = ki + 1
    /\ UNCHANGED <<poolVars, threadVars, jobVars, slotVars, extraVars, stopVars, kw, kcur, removed>>

KillAbort ==
    /\ kpc = "test"
    /\ kcur.job # NoJob /\ FromWorker[kcur.job] = kw
    /\ aborting' = [aborting EXCEPT ![kcur.job] = TRUE]
    /\ fences' = [fences EXCEPT ![kcur.job] = @ + 1]
    /\ kpc' = "join"
    /\ UNCHANGED <<poolVars, threadVars, runs, slotVars, extraVars, stopVars, kw, ki, kcur, removed>>

\* deque::erase moves the shorter side: the pairs before position p up, or
\* the pairs behind it down.  The vacated position keeps its last value.
EraseSlot(p) ==
    IF 2 * (p - lo) < hi + 1 - lo
    THEN /\ slot' = [q \in Slots |-> IF lo < q /\ q <= p THEN slot[q - 1] ELSE slot[q]]
         /\ lo' = lo + 1 /\ ki' = p + 1 /\ UNCHANGED hi
    ELSE /\ slot' = [q \in Slots |-> IF p <= q /\ q < hi THEN slot[q + 1] ELSE slot[q]]
         /\ hi' = hi - 1 /\ ki' = p /\ UNCHANGED lo

KillErase ==
    /\ kpc = "join" /\ xpc[kcur.thread] = "ended"
    /\ EraseSlot(ki)
    /\ kpc' = "next"
    /\ UNCHANGED <<poolVars, threadVars, jobVars, extraVars, stopVars, kw, kcur, removed>>

-----------------------------------------------------------------------------
Thread(t) ==
    \/ Wake(t) \/ CheckStop(t) \/ TakeNothing(t) \/ Take(t) \/ Abandon(t)
    \/ Execute(t) \/ Return(t) \/ Release(t) \/ Fence(t)

Add(j) == AddJobStopped(j) \/ AddJobAdditional(j) \/ AddJobQueued(j)

Extra(x) == ExtraStart(x) \/ ExtraReturn(x) \/ ExtraFence(x) \/ ExtraClear(x)

Stop ==
    \/ StopSignal \/ StopSweep \/ StopJoin \/ StopNext \/ StopAbort \/ StopJoinPair
    \/ WaitJoin \/ WaitPair \/ WaitEnd

Kill == KillSweep \/ KillNext \/ KillSkip \/ KillAbort \/ KillErase

Next ==
    \/ \E t \in Threads : Thread(t)
    \/ \E j \in Jobs : Add(j) \/ Extra(j)
    \/ StopBegin \/ WaitSignal \/ Stop
    \/ Kill \/ \E w \in Workers : KillBegin(w)

Spec == Init /\ [][Next]_vars

\* Threads are scheduled, jobs obey the abort request; nobody has to submit
\* a job or to stop anything.
Fairness ==
    /\ \A t \in Threads : WF_vars(Thread(t))
    /\ \A x \in Jobs : WF_vars(Extra(x))
    /\ WF_vars(Stop) /\ WF_vars(Kill)

FairSpec == Spec /\ Fairness

-----------------------------------------------------------------------------
(***************************************************************************)
(* Properties                                                              *)
(***************************************************************************)

ThreadPc == {"wait", "woken", "lock", "got", "exec", "done", "fence", "exited"}
ExtraPc  == {"none", "start", "exec", "fence", "clear", "ended", "crashed"}
StopPc   == {"idle", "signal", "sweep", "join", "next", "abort", "joinPair", "stopped",
             "waitJoin", "waitPair", "waited"}
KillPc   == {"idle", "sweep", "next", "test", "join"}

PoolType ==
    /\ jobs \subseteq Jobs /\ stamp \in [Jobs -> Nat] /\ added \subseteq Jobs
    /\ numJobs \in Nat /\ stopFlag \in BOOLEAN
    /\ poolSize \in {0, Cardinality(Threads)} /\ runcount \in Nat
ThreadType ==
    /\ pc \in [Threads -> ThreadPc]
    /\ job \in [Threads -> MaybeJob] /\ my \in [Threads -> MaybeJob]
JobType ==
    aborting \in [Jobs -> BOOLEAN] /\ runs \in [Jobs -> Nat] /\ fences \in [Jobs -> Nat]
SlotType ==
    lo \in Nat \ {0} /\ hi \in {0} \cup Slots /\ slot \in [Slots -> Pair]
ExtraType ==
    xpc \in [Jobs -> ExtraPc] /\ xptr \in [Jobs -> Slots] /\ xjob \in [Jobs -> MaybeJob]
StopType ==
    spc \in StopPc /\ si \in Nat \ {0} /\ send \in {0} \cup Slots /\ scur \in Pair
KillType ==
    /\ kpc \in KillPc /\ kw \in Workers \cup {NoJob} /\ ki \in Nat \ {0} /\ kcur \in Pair
    /\ removed \subseteq Removable

\* Every variable holds a value of the type the code declares for it.
TypeOK ==
    PoolType /\ ThreadType /\ JobType /\ SlotType /\ ExtraType /\ StopType /\ KillType

\* runcount, from which addJob concludes that no slot is free, is the number
\* of threads whose Thread::job is set.
RuncountExact == runcount = Cardinality({t \in Threads : Busy(t)})

\* No wake-up is lost: while the pool is not stopped, every queued job has a
\* semaphore permit or a thread that took one and has yet to look at the queue.
PermitCover ==
    stopFlag \/ Cardinality(jobs) <= numJobs + Cardinality({t \in Threads : pc[t] \in {"woken", "lock"}})

\* "There is no access to this object after jobFence() is called": a job in the
\* queue, and a job a worker thread still has to run or fence, is unfenced.
PoolJobUnfenced ==
    /\ \A j \in jobs : fences[j] = 0
    /\ \A t \in Threads : my[t] # NoJob => fences[my[t]] = 0

\* A job that went through the queue is executed at most once and fenced at
\* most once, whatever the three ending operations do meanwhile.
PoolJobOnce ==
    \A j \in Jobs : ~Additional(j) => runs[j] <= 1 /\ fences[j] <= 1

\* No running job is missed by forceStop: once the sweep under the mutex is
\* over, whatever a worker thread executes was told to abort.
StopSwept == spc \in {"join", "next", "abort", "joinPair", "stopped"}

NoMissedAbort ==
    StopSwept => \A t \in Threads : pc[t] = "exec" => aborting[my[t]]

\* threadAbort() is never called on a pool job that was fenced before.
AbortOnlyUnfenced ==
    [][\A j \in Jobs : aborting'[j] # aborting[j] /\ ~Additional(j) => fences[j] = 0]_vars

\* forceStop returns, although endless jobs run and its signals race with the
\* threads that take the last jobs.
StopReturns == (spc = "signal") ~> (spc = "stopped")

\* waitAll returns unless an endless job runs: its permits let the threads
\* drain the queue before they find it empty and end.
EndlessRuns ==
    \/ \E t \in Threads : pc[t] = "exec" /\ my[t] \in Endless
    \/ \E x \in Jobs : xpc[x] = "exec" /\ xjob[x] \in Endless

WaitAllReturns == (spc = "waitJoin") ~> (spc = "waited" \/ EndlessRuns)

\* A job that stays in the queue stays because no thread will ever look at the
\* queue again: each has ended, which waitAll and the permits of forceStopWorker
\* make an idle thread do, or runs a job that does not end by itself and that
\* nobody aborts.  As long as one thread lives and becomes free, no job is left.
NoThreadLeft ==
    \A t \in Threads : \/ pc[t] = "exited"
                       \/ pc[t] = "exec" /\ my[t] \in Endless /\ ~aborting[my[t]]

QueuedJobLeaves == \A j \in Jobs : <>[](j \in jobs) => <>[]NoThreadLeft

\* A job that goes through the queue lives as IThreadJob's comments promise; an
\* additional job stays "new" here, for its thread may run another job.
Runs(t) == pc[t] \in {"exec", "done", "fence"}

JobStatus ==
    [j \in Jobs |->
        IF \E t \in Threads : my[t] = j /\ Runs(t) THEN "running"
        ELSE IF fences[j] > 0 /\ ~Additional(j) THEN "fenced"
        ELSE IF j \in jobs \/ \E t \in Threads : my[t] = j THEN "waiting"
        ELSE "new"]

Lifecycle == INSTANCE JobLifecycle WITH status <- JobStatus

ImplementsLifecycle == Lifecycle!Spec

-----------------------------------------------------------------------------
(***************************************************************************)
(* The inductive invariant behind these properties                         *)
(***************************************************************************)

\* Where the local myJob and Thread::job stand at each position.
ThreadState ==
    \A t \in Threads :
        /\ pc[t] \in {"wait", "woken", "lock"} => my[t] = NoJob /\ job[t] = NoJob
        /\ pc[t] \in {"got", "exec", "done"} => my[t] \in Jobs /\ job[t] = my[t]
        /\ pc[t] = "fence" => my[t] \in Jobs /\ job[t] = NoJob
        /\ pc[t] = "exited" => job[t] = my[t]

\* A job is new, in the queue, with one thread, or with an additional thread.
OnePlace ==
    /\ jobs \subseteq added
    /\ \A j \in Jobs : Additional(j) => j \in added \ jobs
    /\ \A t \in Threads : my[t] # NoJob => my[t] \in added \ jobs /\ ~Additional(my[t])
    /\ \A t, u \in Threads : my[t] = my[u] /\ my[t] # NoJob => t = u

\* Only jobs of additional threads are reachable through the deque of pairs,
\* and the iterator of forceStopWorker stands inside it when it is used.
ExtraState ==
    /\ \A p \in Slots : slot[p].job # NoJob => Additional(slot[p].job)
    /\ scur.job # NoJob => Additional(scur.job)
    /\ kcur.job # NoJob => Additional(kcur.job)
    /\ \A x \in Jobs : xpc[x] \in {"exec", "fence"} => xjob[x] \in Jobs /\ Additional(xjob[x])
    /\ kpc \in {"test", "join"} => ki <= hi
    /\ kpc = "join" => kcur.job # NoJob

\* How often execute() and jobFence() were called at each place of a job.
Counters ==
    /\ \A j \in Jobs : j \in jobs \/ j \notin added => runs[j] = 0 /\ fences[j] = 0
    /\ \A t \in Threads : my[t] # NoJob => fences[my[t]] = 0 /\ runs[my[t]] <= 1
    /\ \A t \in Threads : pc[t] = "got" => runs[my[t]] = 0

\* After the sweep no job can be taken any more, and those taken are aborted.
Swept ==
    /\ spc \in {"signal", "sweep"} \/ StopSwept => stopFlag
    /\ StopSwept => jobs = {} /\ \A t \in Threads : Busy(t) => aborting[job[t]]

IInv ==
    /\ TypeOK /\ ThreadState /\ OnePlace /\ ExtraState /\ Counters /\ Swept
    /\ PoolJobOnce /\ RuncountExact /\ PermitCover

-----------------------------------------------------------------------------
(***************************************************************************)
(* What the comments of the code claim and the code does not do            *)
(***************************************************************************)

\* interfaces/threading.h: jobFence is called "after the job has finished
\* execute()'ing or if the ThreadPool aborts and the job did not have a chance
\* to run yet": when forceStop has returned, every job was fenced.
EveryJobFenced == spc = "stopped" => \A j \in added : fences[j] >= 1

\* "no slot available, we create an additional thread" (addJob): a job that is
\* queued instead was promised a free thread, so that it is not left there.
QueuedJobTaken == \A j \in Jobs : ~<>[](j \in jobs)

\* "There is no access to this object after jobFence() is called" (threading.h):
\* no job is fenced twice, the jobs of additional threads included.
NoAccessAfterFence == \A j \in Jobs : fences[j] <= 1
=============================================================================
