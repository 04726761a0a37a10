SPECIFICATION FairSpec
CONSTANTS
    w1 = w1  w2 = w2
    Workers <- TwoWorkers
    Vm = Vm
    Main = Main
    Plain = Plain
    MaxPlain = 1
    Scenes <- FourPrograms
INVARIANTS PoolWorkerFencedOnce TerminateStopsParser AcceptedAnswered
PROPERTIES CallsReturn AbortedEnds
CHECK_DEADLOCK FALSE
