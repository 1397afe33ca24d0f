CONSTANTS
    NumCells = 2
    FDs = {f1, f2}
    Conns = {k1, k2, k3}
    NoFd = NoFd
    NoConn = NoConn
    MaxClient = 2
    Pollers = {"epoll"}
    MaxLeaves = 1
    MaxFaults = 0
SPECIFICATION Spec
CHECK_DEADLOCK FALSE
PROPERTIES
    BufferedJoins
    CloseEnds
