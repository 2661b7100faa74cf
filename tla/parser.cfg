SPECIFICATION Spec
CONSTANTS
    Name <- MCName
    KeyOf <- MCKeyOf
    Word = 8
    RequestLines <- MCRequestLines
    HeaderLines <- MCHeaderLines
    MaxLines = 3
INVARIANTS
    TypeOK
    VerdictIsDeclared
    LastHeaderCounts
    LengthIsAsWritten
CHECK_DEADLOCK FALSE
