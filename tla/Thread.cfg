CONSTANTS
    Callers = {c1, c2}
    NoOne = NoOne
    MaxStarts = 3
SPECIFICATION Spec
CHECK_DEADLOCK FALSE
INVARIANTS
    TypeOK
    SemBalance
    CloseWaits
PROPERTY CloseReturnsOrExitWaits
