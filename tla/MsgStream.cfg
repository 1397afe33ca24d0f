CONSTANTS
    MsgLen = 2
    SendSize = 3
    RecvSize = 5
    WireSize = 3
    NMsg = 2
    SendBacks = {TRUE, FALSE}
    ChekSendBacks = {TRUE, FALSE}
    Pollers = {"epoll", "select"}
    MaxMsg = 4
    MaxFaults = 1
SPECIFICATION FairSpec
CHECK_DEADLOCK FALSE
INVARIANTS
    TypeOK
    IdsConsecutive
    RoomToRead
    OneUnderWay
PROPERTIES
    ImplementsChannels
    AnswerArrives
