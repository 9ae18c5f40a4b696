SPECIFICATION Spec
CONSTANTS
    t1 = t1
    t2 = t2
    t3 = t3
    a = a
    b = b
    c = c
    t1_1 = t1_1
    x = x
    y = y
    NoName = NoName
    Whole = Whole
    Tables <- MCTables
    Names <- MCNames
    Columns = {x, y}
    AliasSlots = 3
    RawTables = {t1, t2}
    InfoSlots = 1
    MaxDepth = 2
    MaxDrops = 3
    Statements <- TwiceWithoutAlias
    Features = {}
INVARIANTS
    FilterKept
