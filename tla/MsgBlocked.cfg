CONSTANTS
    MsgLen = 1
    SendSize = 2
    RecvSize = 1
    WireSize = 2
    NMsg = 2
    SendBacks = {TRUE}
    ChekSendBacks = {FALSE}
    Pollers = {"epoll"}
    MaxMsg = 10
    MaxFaults = 0
SPECIFICATION FairSpec
CHECK_DEADLOCK FALSE
PROPERTIES
    OnRunReturns
