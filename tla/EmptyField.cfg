SPECIFICATION Spec
CONSTANTS
    NCols = 3
    Chars <- MCChars
    Delim = Delim
    Quote = Quote
    Back = Back
    BigN = BigN
    Other = Other
    Nul = Nul
    Lines <- EmptyLast
    MaxLen = 5
    Statements <- OneThenOthers
    Null = Null
    NoValue = NoValue
    Elsewhere = 99
INVARIANTS
    EmptyIsNull
