SPECIFICATION LoopSpec
CONSTANTS
    Outer = 1
    Inner = 2
    SingleMatch = TRUE
    Cols = {0}
    Rows <- MCRows
    Width = 2
    ChunkRows = 2
    Junk = Junk
    Scans = {1, 2}
    N = 3
    LineLen <- MCLineLen
    HeaderLen = 0
    RawBuf = 5
    ShortMod = 8
    Queries <- NoLimit
    Features = {}
    NoTuple = NoTuple
INVARIANTS
    PositionKept
