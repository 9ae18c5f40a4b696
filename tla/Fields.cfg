SPECIFICATION Spec
CONSTANTS
    NCols = 3
    Chars <- MCChars
    Delim = Delim
    Quote = Quote
    Back = Back
    BigN = BigN
    Other = Other
    Nul = Nul
    Lines <- MCLines
    MaxLen = 5
    Statements <- MCStatements
    Null = Null
    NoValue = NoValue
    Elsewhere = 99
INVARIANTS
    TypeOK
    PositionsTrue
    ValuesTrue
    FirstAttribute
PROPERTIES
    RowFinishes
