CONSTANTS
    Polite <- MCPolite
    Odd <- MCOdd
    Modes <- MCModes
    MinLen = 4
    SendSize = 6
    RecvSize = 10
    WireSize = 2
    DeadTime = 2
    MaxDt = 1
    MaxReq = 2
SPECIFICATION FairSpec
CHECK_DEADLOCK FALSE
INVARIANTS
    TypeOK
    ExactlyWhole
    CloseAfterAnswer
PROPERTIES
    AnswersInOrder
    AnswerComes
    StuckRemoved
