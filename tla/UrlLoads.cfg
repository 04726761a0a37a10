SPECIFICATION FairSpec
CONSTANTS
    Loader = Loader
    Readers <- OneLoader
    VmReaders <- NoReaders
    Frame = Frame
    Blocks = {1}
    ChunkSizes = {2}
    ChunkUnit = 2
    MaxLength = 2
    Announced = {0, 1, 3}
INVARIANTS DownloaderSafe CompleteIsWhole
PROPERTY LoadEnds
CHECK_DEADLOCK FALSE
