SPECIFICATION Spec
PROPERTIES
    OpenClaimsOrNothing
CONSTANTS
    N = 2
    Reconnects = FALSE
    MaxSignals = 1
