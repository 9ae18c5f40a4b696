SPECIFICATION Spec
CONSTANTS
    Cols = {0}
    Rows <- MCRows
    Width = 2
    ChunkRows = 2
    Junk = Junk
    Scans = {1}
    N = 4
    LineLen <- MCLineLen
    HeaderLen = 0
    RawBuf = 5
    ShortMod = 8
    Queries <- AnyLimit
    Features = {"abort", "early", "fetch", "rescan", "midrescan"}
    NoTuple = NoTuple
INVARIANTS
    CacheSound
    EOLFaithful
    WritesFit
    TuplesTrue
PROPERTIES
    RawStepsWhileKept
