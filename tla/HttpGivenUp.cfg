CONSTANTS
    Hosts = {h1}
    NoHost = NoHost
    SendSlots = 2
    MaxReq = 2
    MaxAddrs = 1
    MaxFails = 0
    MaxDrops = 0
SPECIFICATION Spec
CHECK_DEADLOCK FALSE
INVARIANTS
    GivenUpAfterError
