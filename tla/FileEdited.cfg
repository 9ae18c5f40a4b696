SPECIFICATION EditedSpec
CONSTANTS
    Cols = {0}
    Rows <- MCRows
    Width = 2
    ChunkRows = 2
    Junk = Junk
    Scans = {1}
    N = 3
    LineLen <- MCLineLen
    HeaderLen = 0
    RawBuf = 5
    ShortMod = 8
    Queries <- WholeNoLimit
    Features = {}
    NoTuple = NoTuple
INVARIANTS
    TuplesTrue
