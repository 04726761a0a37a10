SPECIFICATION FairSpec
CONSTANTS
    size = 2
    Consumers <- AllConsumers
    MaxFlushed = 2
    MaxFrames = 3
    MaxCalls = 3
    Loops = 2
INVARIANTS DecoderAlive
PROPERTIES PlayedInOrder RestartHappens CallsReturn
CHECK_DEADLOCK FALSE
