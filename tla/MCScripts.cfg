SPECIFICATION Spec
INVARIANTS
    TypeOK
    ReturnMeansSuccess
    ModeConfirmed
PROPERTIES
    ImplementsCall
CONSTANTS
    MaxScripts = 5
    QueueRoom = 2
    MaxChunks = 1
    HoldsPipeline = FALSE
    Ops = {"lua", "submit", "shoot", "switch_record", "switch_play"}
    DrainLimit = 1
    MaxPolls = 2
    ChunkLimit = 1
    MaxFaults = 1
