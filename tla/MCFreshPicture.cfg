SPECIFICATION Spec
INVARIANTS
    FreshPicture
CONSTANTS
    MaxScripts = 2
    QueueRoom = 1
    MaxChunks = 1
    HoldsPipeline = TRUE
    Ops = {"stream"}
    DrainLimit = 1
    MaxPolls = 1
    ChunkLimit = 1
    MaxFaults = 0
