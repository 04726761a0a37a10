---------------------------- MODULE ScriptTimers ----------------------------
(***************************************************************************)
(* What scripts do with the timer thread: flash.utils.Timer objects        *)
(* (Timer.cpp), and setInterval, setTimeout, clearInterval, clearTimeout   *)
(* (IntervalManager.cpp, IntervalRunner.cpp).  The script runs on the VM   *)
(* thread; tick() runs on the timer thread.  Each step here is a step of   *)
(* TimerThread, or leaves it alone.                                        *)
(*                                                                         *)
(* A Timer posts its "timer" event from tick() and counts afterwards.  The *)
(* tick of an IntervalRunner waits until the VM has called its function.   *)
(* An IntervalRunner is one call of setInterval or setTimeout; it deletes  *)
(* itself in tickFence(), so it exists while owed is not zero.             *)
(***************************************************************************)
EXTENDS TimerThread

CONSTANTS
    Timers, Intervals, Timeouts,  \* the jobs: Timer objects and runners
    RepeatCounts,                 \* the repeat counts scripts use
    MaxPosted,                    \* bound: "timer" events in the VM's queue
    Scenes                        \* the sets of jobs a program uses together

Runners == Intervals \union Timeouts

ASSUME ScriptAssumption ==
    /\ TimedJobs = Timers \union Runners
    /\ Timers \intersect Runners = {} /\ Intervals \intersect Timeouts = {}
    /\ Scenes \subseteq SUBSET TimedJobs
    /\ RepeatCounts \subseteq Nat /\ MaxPosted \in Nat
    /\ \E n \in RepeatCounts : \A m \in RepeatCounts : m <= n

VARIABLES
    active,        \* Timer::running
    repeatCount,   \* Timer::repeatCount
    currentCount,  \* Timer::currentCount
    posted,        \* "timer" events the VM has not handled
    rescheduled,   \* the repeat count was set while the timer ran
    busy,          \* IntervalRunner::running
    finished,      \* IntervalRunner::finished
    runners,       \* IntervalManager::runners
    created,       \* the runners that were set up
    call,          \* the FunctionEvent of a runner
    late,          \* callbacks asked for after the runner was cleared
    step,          \* where the tick() that runs is
    script,        \* what the VM thread is doing
    manager,       \* the thread that has IntervalManager::mutex
    shutdown,      \* SystemState::isShuttingDown()
    scene          \* the jobs this program uses

flashVars  == <<active, repeatCount, currentCount, posted, rescheduled>>
runnerVars == <<busy, finished, runners, created, call, late>>
scriptVars == <<flashVars, runnerVars, step, script, manager, shutdown, scene>>
vars       == <<timerVars, scriptVars>>

Free == [op |-> "free", job |-> SomeJob]

Init ==
    /\ TimerInit
    /\ active = [t \in Timers |-> FALSE]
    /\ repeatCount \in [Timers -> RepeatCounts]
    /\ currentCount = [t \in Timers |-> 0]
    /\ posted = [t \in Timers |-> 0]
    /\ rescheduled = [t \in Timers |-> FALSE]
    /\ busy = [r \in Runners |-> FALSE] /\ finished = [r \in Runners |-> FALSE]
    /\ runners = {} /\ created = {}
    /\ call = [r \in Runners |-> "none"] /\ late = [r \in Runners |-> 0]
    /\ step = "begin" /\ script = Free /\ manager = "free" /\ shutdown = FALSE
    /\ scene \in Scenes

Ticking(j) == worker = "ticking" /\ running.job = j
\* The VM thread is between two things it does for scripts.
ScriptFree == script.op = "free" /\ owner \in {"using", "joining"}

(***************************************************************************)
(* The timer thread itself.                                                *)
(***************************************************************************)
WorkerStep == Worker /\ UNCHANGED scriptVars
ClockStep  == Advance /\ UNCHANGED scriptVars

\* setError stops the thread at any time.  destroy() joins it after the
\* shutdown event, then the VM, and deletes it after the IntervalManager.
OwnerStep ==
    /\ Owner
    /\ owner' = "joining" => shutdown
    /\ owner' = "deleted" => script.op = "free" /\ runners = {}
    /\ UNCHANGED scriptVars

TickEnds ==
    /\ step = "return" /\ TickReturns
    /\ step' = "begin"
    /\ UNCHANGED <<flashVars, runnerVars, script, manager, shutdown, scene>>

(***************************************************************************)
(* flash.utils.Timer.                                                      *)
(***************************************************************************)
TickTimer(t) ==
    /\ Ticking(t) /\ step = "begin" /\ posted[t] < MaxPosted
    /\ posted' = [posted EXCEPT ![t] = @ + 1]
    /\ step' = "count"
    /\ UNCHANGED <<timerVars, active, repeatCount, currentCount, rescheduled,
                   runnerVars, script, manager, shutdown, scene>>

\* Counts are compared with repeat counts only: they stop at the largest.
MaxCount     == CHOOSE n \in RepeatCounts : \A m \in RepeatCounts : m <= n
Counted(t)   == IF currentCount[t] < MaxCount THEN currentCount[t] + 1 ELSE MaxCount
Completed(t) == repeatCount[t] # 0 /\ Counted(t) >= repeatCount[t]

CountTick(t) ==
    /\ Ticking(t) /\ step = "count"
    /\ currentCount' = [currentCount EXCEPT ![t] = Counted(t)]
    /\ IF Completed(t) THEN SetStopMe(t, TRUE) ELSE UNCHANGED timerVars
    /\ step' = "return"
    /\ UNCHANGED <<active, repeatCount, posted, rescheduled, runnerVars, script,
                   manager, shutdown, scene>>

\* The VM has dispatched a "timer" event: Timer::afterHandleEvent.
HandleTimerEvent(t) ==
    /\ ScriptFree /\ posted[t] > 0
    /\ posted' = [posted EXCEPT ![t] = @ - 1]
    /\ active' = [active EXCEPT ![t] = @ /\ ~stopMe[t]]
    /\ UNCHANGED <<timerVars, repeatCount, currentCount, rescheduled, runnerVars,
                   step, script, manager, shutdown, scene>>

StartTimer(t) ==
    /\ ScriptFree /\ ~active[t] /\ t \in scene
    /\ Events \ Alive # {}
    /\ active' = [active EXCEPT ![t] = TRUE]
    /\ rescheduled' = [rescheduled EXCEPT ![t] = FALSE]
    /\ SetStopMe(t, FALSE)
    /\ script' = [op |-> "add", job |-> t]
    /\ UNCHANGED <<repeatCount, currentCount, posted, runnerVars, step, manager, shutdown, scene>>

\* Mutant: every Timer is scheduled as a single shot.
AddTimerOnce(t) ==
    /\ script = [op |-> "add", job |-> t]
    /\ addWait(t)
    /\ script' = Free
    /\ UNCHANGED <<flashVars, runnerVars, step, manager, shutdown, scene>>

AddTimer(t) ==
    /\ script = [op |-> "add", job |-> t]
    /\ IF repeatCount[t] = 1 THEN addWait(t) ELSE addTick(t)
    /\ script' = Free
    /\ UNCHANGED <<flashVars, runnerVars, step, manager, shutdown, scene>>

StopTimer(t) ==
    /\ ScriptFree /\ active[t]
    /\ removeJob(t)
    /\ active' = [active EXCEPT ![t] = FALSE]
    /\ UNCHANGED <<repeatCount, currentCount, posted, rescheduled, runnerVars,
                   step, script, manager, shutdown, scene>>

ResetTimer(t) ==
    /\ ScriptFree /\ t \in scene
    /\ IF active[t] THEN removeJob(t) ELSE UNCHANGED timerVars
    /\ active' = [active EXCEPT ![t] = FALSE]
    /\ currentCount' = [currentCount EXCEPT ![t] = 0]
    /\ UNCHANGED <<repeatCount, posted, rescheduled, runnerVars, step, script,
                   manager, shutdown, scene>>

SetRepeatCount(t, n) ==
    /\ ScriptFree /\ t \in scene
    /\ repeatCount' = [repeatCount EXCEPT ![t] = n]
    /\ IF n > 0 /\ n <= currentCount[t]
         THEN removeJob(t) /\ active' = [active EXCEPT ![t] = FALSE]
         ELSE UNCHANGED <<timerVars, active>>
    /\ rescheduled' = [rescheduled EXCEPT ![t] = @ \/ n # repeatCount[t]]
    /\ UNCHANGED <<currentCount, posted, runnerVars, step, script, manager, shutdown, scene>>

(***************************************************************************)
(* IntervalRunner::tick on the timer thread.                               *)
(***************************************************************************)
Cleared(r) == r \in created /\ r \notin runners /\ manager = "free"
CallLater(r) == IF Cleared(r) /\ late[r] < 2 THEN late[r] + 1 ELSE late[r]

\* After the shutdown tick() does nothing.  A FunctionEvent the VM refuses is
\* signalled by addEvent, so nobody waits for it.
TickRunner(r) ==
    /\ Ticking(r) /\ step = "begin"
    /\ IF shutdown
         THEN step' = "return" /\ UNCHANGED <<busy, call, late>>
         ELSE /\ busy' = [busy EXCEPT ![r] = TRUE]
              /\ call' = [call EXCEPT ![r] = "queued"]
              /\ late' = [late EXCEPT ![r] = CallLater(r)]
              /\ step' = "wait"
    /\ UNCHANGED <<timerVars, flashVars, finished, runners, created, script,
                   manager, shutdown, scene>>

\* The VM has called the function, or has dropped the event in its shutdown.
AnswerCall(r) ==
    /\ call[r] = "queued" /\ script.op = "free"
    /\ call' = [call EXCEPT ![r] = "done"]
    /\ UNCHANGED <<timerVars, flashVars, busy, finished, runners, created, late,
                   step, script, manager, shutdown, scene>>

CallReturns(r) ==
    /\ Ticking(r) /\ step = "wait" /\ call[r] = "done"
    /\ busy' = [busy EXCEPT ![r] = FALSE]
    /\ call' = [call EXCEPT ![r] = "none"]
    /\ step' = IF r \in Timeouts THEN "clear" ELSE "final"
    /\ UNCHANGED <<timerVars, flashVars, finished, runners, created, late, script,
                   manager, shutdown, scene>>

\* Mutant: a timeout clears itself without the mutex of the manager.
ClearOwnUnlocked(r) ==
    /\ Ticking(r) /\ step = "clear"
    /\ IF r \in runners THEN removeJob(r) ELSE UNCHANGED timerVars
    /\ runners' = runners \ {r}
    /\ step' = "final"
    /\ UNCHANGED <<flashVars, busy, finished, created, call, late, script, manager, shutdown, scene>>

\* A timeout clears itself, under the mutex of the manager: busy is FALSE
\* now, so clearInterval calls removeJob at once.
ClearOwn(r) ==
    /\ Ticking(r) /\ step = "clear" /\ manager = "free"
    /\ IF r \in runners THEN removeJob(r) ELSE UNCHANGED timerVars
    /\ runners' = runners \ {r}
    /\ step' = "final"
    /\ UNCHANGED <<flashVars, busy, finished, created, call, late, script, manager, shutdown, scene>>

\* Mutant: finished is not looked at after the call.
FinishedIgnored(r) ==
    /\ Ticking(r) /\ step = "final"
    /\ step' = "return"
    /\ UNCHANGED <<timerVars, flashVars, runnerVars, script, manager, shutdown, scene>>

\* clearInterval came while the function ran: the runner removes itself.
RemoveOwn(r) ==
    /\ Ticking(r) /\ step = "final"
    /\ IF finished[r] THEN removeJob(r) ELSE UNCHANGED timerVars
    /\ step' = "return"
    /\ UNCHANGED <<flashVars, runnerVars, script, manager, shutdown, scene>>

(***************************************************************************)
(* setInterval, setTimeout and their counterparts, on the VM thread.       *)
(***************************************************************************)
SetupTimer(r) ==
    /\ ScriptFree /\ manager = "free" /\ r \in scene \ created
    /\ IF r \in Intervals THEN addTick(r) ELSE addWait(r)
    /\ runners' = runners \union {r} /\ created' = created \union {r}
    /\ UNCHANGED <<flashVars, busy, finished, call, late, step, script, manager, shutdown, scene>>

\* clearInterval takes the runner from the map and reads whether it is busy;
\* a busy runner is told to remove itself, another one is removed.
ClearInterval(r) ==
    /\ ScriptFree /\ manager = "free" /\ r \in runners
    /\ runners' = runners \ {r}
    /\ manager' = "script"
    /\ script' = [op |-> IF busy[r] THEN "finish" ELSE "remove", job |-> r]
    /\ UNCHANGED <<timerVars, flashVars, busy, finished, created, call, late, step, shutdown, scene>>

FinishRunner(r) ==
    /\ script = [op |-> "finish", job |-> r]
    /\ finished' = [finished EXCEPT ![r] = TRUE]
    /\ manager' = "free" /\ script' = Free
    /\ UNCHANGED <<timerVars, flashVars, busy, runners, created, call, late, step, shutdown, scene>>

RemoveRunner(r) ==
    /\ script = [op |-> "remove", job |-> r]
    /\ removeJob(r)
    /\ manager' = "free" /\ script' = Free
    /\ UNCHANGED <<flashVars, runnerVars, step, shutdown, scene>>

\* ~IntervalManager: what scripts left is removed, a runner at a time.
DropRunner(r) ==
    /\ owner = "joined" /\ script.op = "free" /\ r \in runners
    /\ removeJob(r)
    /\ runners' = runners \ {r}
    /\ UNCHANGED <<flashVars, busy, finished, created, call, late, step, script,
                   manager, shutdown, scene>>

Shutdown ==
    /\ ~shutdown /\ shutdown' = TRUE
    /\ UNCHANGED <<timerVars, flashVars, runnerVars, step, script, manager, scene>>

TickStep ==
    \/ \E t \in Timers : TickTimer(t) \/ CountTick(t)
    \/ \E r \in Runners : TickRunner(r) \/ CallReturns(r) \/ ClearOwn(r) \/ RemoveOwn(r)
    \/ TickEnds

\* What the VM does by itself, and the second halves of what scripts begin.
VmHandles == \/ \E t \in Timers : HandleTimerEvent(t)
             \/ \E r \in Runners : AnswerCall(r)
VmGoesOn  == \/ \E t \in Timers : AddTimer(t)
             \/ \E r \in Runners : FinishRunner(r) \/ RemoveRunner(r)

ScriptStep ==
    \/ \E t \in Timers : \/ StartTimer(t) \/ StopTimer(t) \/ ResetTimer(t)
                         \/ \E n \in RepeatCounts : SetRepeatCount(t, n)
    \/ \E r \in Runners : SetupTimer(r) \/ ClearInterval(r)

EndStep == Shutdown \/ \E r \in Runners : DropRunner(r)

Next == WorkerStep \/ OwnerStep \/ ClockStep \/ TickStep \/ VmHandles \/ VmGoesOn \/ ScriptStep \/ EndStep

Spec == Init /\ [][Next]_vars

\* The threads run and time passes.  The VM takes its events in order, so an
\* event is handled even if scripts never pause; a mutex that is free again
\* and again is obtained; destroy() goes on when the thread has ended.
FairSpec ==
    /\ Spec
    /\ WF_vars(WorkerStep) /\ WF_vars(ClockStep)
    /\ SF_vars(TickStep) /\ SF_vars(VmHandles) /\ SF_vars(VmGoesOn)
    /\ WF_vars(OwnerStep /\ owner = "joining")

(***************************************************************************)
(* Properties.                                                             *)
(***************************************************************************)
TypeOK ==
    /\ TimerTypeOK
    /\ active \in [Timers -> BOOLEAN] /\ rescheduled \in [Timers -> BOOLEAN]
    /\ repeatCount \in [Timers -> RepeatCounts]
    /\ currentCount \in [Timers -> Nat]
    /\ posted \in [Timers -> 0..MaxPosted]
    /\ busy \in [Runners -> BOOLEAN] /\ finished \in [Runners -> BOOLEAN]
    /\ runners \subseteq created /\ created \subseteq Runners
    /\ call \in [Runners -> {"none", "queued", "done"}] /\ late \in [Runners -> 0..2]
    /\ step \in {"begin", "count", "wait", "clear", "final", "return"}
    /\ script \in [op : {"free", "add", "finish", "remove"}, job : TimedJobs]
    /\ manager \in {"free", "script"} /\ shutdown \in BOOLEAN /\ scene \in Scenes

\* clearInterval never writes to a runner that has deleted itself: until the
\* shutdown a runner of the map exists, and the mutex of the manager keeps a
\* timeout from ending while clearInterval looks at it.
RunnerExists ==
    ~shutdown =>
        /\ \A r \in runners : owed[r] = 1
        /\ script.op = "finish" => owed[script.job] = 1

\* IntervalRunner::removeJob: "clearInterval was called from inside the
\* callback, so we don't delete ourselves (yet)" - a runner exists as long as
\* its tick() uses it.  It does not when clearInterval reads that the runner is
\* not busy before tick() has said so, or after the callback.
RunnerAliveInTick == \A r \in Runners : Ticking(r) /\ step # "return" => owed[r] # 0

\* A runner is deleted once: it is owed one tickFence, or none.
RunnerFencedOnce == \A r \in Runners : owed[r] \in {0, 1}

\* Nothing schedules a runner that has deleted itself.
DeletedForGood == [][\A r \in Runners : r \in created /\ owed[r] = 0 => owed'[r] = 0]_vars

\* A cleared interval may call its function once more, when the call had
\* ended as clearInterval asked and the runner had looked at finished, or the
\* tick had begun and not yet said that it runs.  It never calls twice.
ClearedCallsAtMostOnce == \A r \in Runners : late[r] <= 1

\* A Timer that says it is running and was not told to end will tick: it is
\* in the list or in its tick.  (repeatCount chooses the kind of event at the
\* start only: a Timer whose repeatCount is changed while it runs can lose
\* its one event and still say that it is running.)
RunningTimerScheduled ==
    \A t \in Timers :
        active[t] /\ ~stopMe[t] /\ ~rescheduled[t] /\ ScriptFree /\ owner # "deleted"
            => Listed(t) \/ Ticking(t)

\* Timer::stop, reset and repeatCount say that no new events will be sent
\* after them: a tick begins while the Timer is running, and not after stop.
TicksOnlyWhileRunning ==
    [][\A t \in Timers : ~Ticking(t) /\ Ticking(t)' => active[t]]_vars

\* Every job in the list has its turn: it ticks, or it leaves the list.
JobHasItsTurn ==
    \A j \in TimedJobs : Listed(j) ~> Ticking(j) \/ ~Listed(j) \/ stopped

\* A cleared runner ends: it is fenced, whatever it was doing.
ClearedRunnerEnds ==
    \A r \in Runners : (r \in created /\ r \notin runners) ~>
                            owed[r] = 0 \/ stopped \/ shutdown

\* wait() returns, except that a stop() between the test of the worker and
\* its wait, or during a tick, is seen only with the next event: with an
\* empty list there is none.
JoinReturns ==
    owner = "joining" ~> \/ owner \in {"joined", "deleted"}
                         \/ worker = "empty" /\ pendingEvents = <<>> /\ ~newEvent
=============================================================================
