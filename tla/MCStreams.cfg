SPECIFICATION PollSpec
INVARIANTS
    OwnWords
    PictureNotAbandoned
    StalePictureOnlyAfterFailure
    ChunkCountIsThisCalls
PROPERTIES
    CallsEnd
    PipelineServiced
CONSTANTS
    MaxScripts = 3
    QueueRoom = 1
    MaxChunks = 3
    HoldsPipeline = FALSE
    Ops = {"lua", "stream", "switch_play"}
    DrainLimit = 1
    MaxPolls = 1
    ChunkLimit = 2
    MaxFaults = 1
