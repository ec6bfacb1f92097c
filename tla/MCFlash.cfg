SPECIFICATION Spec
INVARIANTS
    TypeOK
    DoneKeepsIdentity
PROPERTIES
    ErasesOnlyWhatItRead
CONSTANTS
    Layouts <- MCLayouts
    NoSide = NoSide
    NoId = NoId
    MaxRuns = 2
CHECK_DEADLOCK FALSE
