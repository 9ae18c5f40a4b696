SPECIFICATION Spec
CONSTANTS
    Cols <- MCCols
    SizeOf <- MCSizeOf
    RowSize = 4
    StartRow = 2
    MaxRows = 2
    Byte = {1, 2}
    Junk = Junk
INVARIANTS
    TypeOK
    ColumnsDisjoint
    FreeSpaceExact
    CellsDisjoint
PROPERTY ImplementsStore
