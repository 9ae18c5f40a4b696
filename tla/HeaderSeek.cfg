SPECIFICATION Spec
CONSTANTS
    Cols = {0}
    Rows <- MCRows
    Width = 2
    ChunkRows = 2
    Junk = Junk
    Scans = {1}
    N = 3
    LineLen <- MCLineLen
    HeaderLen = 4
    RawBuf = 5
    ShortMod = 16
    Queries <- WholeAnyLimit
    Features = {}
    NoTuple = NoTuple
INVARIANTS
    HeaderIsFirstLine
