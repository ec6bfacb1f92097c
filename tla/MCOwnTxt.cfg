SPECIFICATION Spec
INVARIANTS
    TypeOK
    FirstOfEach
    RoundTrip
CONSTANTS
    Side = {"ODD", "EVEN"}
    Id = {"id1", "id2"}
    BadId = "bad_id"
    Noise = "noise"
    Blank = "blank"
    None = "none"
    MaxLines = 4
CHECK_DEADLOCK FALSE
