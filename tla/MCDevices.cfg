SPECIFICATION Spec
INVARIANTS
    TypeOK
    ConnectedIsUsable
    NothingOrphaned
PROPERTIES
    FailedOpenLeavesNothing
CONSTANTS
    N = 2
    Reconnects = FALSE
    MaxSignals = 2
