SPECIFICATION FairSpec
INVARIANTS
    TypeOK
PROPERTIES
    AssemblesTheFile
    DownloadEnds
CONSTANTS
    Byte = {"0", "a", "b"}
    Zero = "0"
    DataPhases <- MCDataPhases
    Sizes = {0, 1, 3}
    Half = 3
    MaxCaptureChunks = 3
