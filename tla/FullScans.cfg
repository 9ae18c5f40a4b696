SPECIFICATION Spec
CONSTANTS
    Cols = {0, 1, 2}
    Rows <- MCRows
    Width = 2
    ChunkRows = 2
    Junk = Junk
    Scans = {1}
    N = 5
    LineLen <- MCLineLen
    HeaderLen = 3
    RawBuf = 5
    ShortMod = 8
    Queries <- NoLimit
    Features = {"rescan"}
    NoTuple = NoTuple
INVARIANTS
    TypeOK
    CacheSound
    EOLFaithful
    WritesFit
    LocksReleased
    HeaderIsFirstLine
PROPERTIES
    ImplementsRawScan
