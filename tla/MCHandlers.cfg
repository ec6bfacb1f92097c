SPECIFICATION Spec
INVARIANTS
    TypeOK
PROPERTIES
    HostGetsItsSignal
CONSTANTS
    Sig = {SIGINT, SIGTERM}
    MaxHandlers = 2
CHECK_DEADLOCK FALSE
