SPECIFICATION FairSpec
CONSTANTS
    t1 = t1  i1 = i1  o1 = o1

    NoEvent = NoEvent
    Events = {e1, e2}
    TimedJobs <- AllJobs
    tickTime <- Ticks
    MaxLate = 1
    Timers <- OneTimer
    Intervals <- OneInterval
    Timeouts <- OneTimeout
    RepeatCounts <- OneOrTwo
    MaxPosted = 1
    Scenes <- TwoScenes
INVARIANTS OwedExact NoOversleep RunnerExists RunningTimerScheduled
PROPERTIES ClearedRunnerEnds JoinReturns
CHECK_DEADLOCK FALSE
