SPECIFICATION FairStream
CONSTANTS
    Readers = {r1}
    VmReaders <- NoReaders
    Frame = Frame
    Blocks = {1, 2, 3}
    ChunkSizes = {2, 4}
    ChunkUnit = 2
    MaxLength = 5
INVARIANTS ReadsInOrder
PROPERTY SignalRepairsWait
CHECK_DEADLOCK FALSE
