SPECIFICATION TransfersSpec
INVARIANTS
    TypeOK
    TransfersTypeOK
    AnswerLag
    DataAndResponseTogether
    OpenFlagHonest
    WrongFileTakesTwoLosses
CONSTANTS
    MaxCommands = 4
    MaxTx = 4
    MaxParts = 2
    Paths = {p, q}
    NoPath = none
SYMMETRY Symmetry
