SPECIFICATION Spec
INVARIANTS
    InstallingTwiceIsHarmless
CONSTANTS
    Sig = {SIGINT, SIGTERM}
    MaxHandlers = 2
CHECK_DEADLOCK FALSE
