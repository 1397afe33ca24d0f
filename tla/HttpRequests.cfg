CONSTANTS
    Hosts = {h1, h2}
    NoHost = NoHost
    SendSlots = 1
    MaxReq = 3
    MaxAddrs = 2
    MaxFails = 2
    MaxDrops = 1
SPECIFICATION FairSpec
CHECK_DEADLOCK FALSE
INVARIANTS
    TypeOK
    CallsInOrder
    RightServer
    OwnAnswer
    NothingLost
PROPERTIES
    LossKnown
    CallbackComes
