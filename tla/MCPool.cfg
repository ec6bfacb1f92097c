SPECIFICATION FairSpec
INVARIANTS
    TypeOK
    ListIsTheCameras
    FirstFailureIsRaised
    NobodyLeftRunning
    OneSwitchAtATime
PROPERTIES
    EveryCameraStarts
    RoundsEnd
CONSTANTS
    N = 2
    RetValues = {"data"}
    Ops = {"lua", "shoot", "switch_play"}
    MaxRounds = 2
    MaxSignals = 2
CHECK_DEADLOCK FALSE
