SPECIFICATION FairSpec
CONSTANTS
    Cols = {0, 1}
    Rows <- MCRows
    Width = 2
    ChunkRows = 4
    Junk = Junk
    Scans = {1, 2}
    N = 5
    LineLen <- MCLineLen
    HeaderLen = 0
    RawBuf = 5
    ShortMod = 8
    Queries <- WholeNoLimit
    Features = {}
    NoTuple = NoTuple
INVARIANTS
    CacheSound
PROPERTIES
    ImplementsRawScan
    StatementEnds
