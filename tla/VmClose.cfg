SPECIFICATION FairSpec
CONSTANTS
    timer = timer  input = input  other = other  VM = VM  Main = Main
    NoEvent = NoEvent
    tick = tick  idle = idle  gc = gc  mouse = mouse  text = text  text2 = text2
    hit = hit  func = func  call = call  script = script  nested = nested
    buffered = buffered  buffered2 = buffered2  flush = flush  flushHead = flushHead
    routed = routed  routedIdle = routedIdle  forced = forced  close = close  last = last  alarm = alarm
    Posters <- AllPosters
    Events <- AllEvents
    Program <- FailAndClose
    Kind <- KindOf
    Method <- MethodOf
    Similar <- SimilarOf
    Routed <- RoutedOnly
    GcOf <- Gc
    Failures <- AllFailures
    Options <- NoOptions
    ShutdownEvent = alarm
    Joined <- InputThread
PROPERTIES QueuedWaitableSignalled ShutdownCompletesUnlessError
CHECK_DEADLOCK FALSE
