CONSTANTS
    NumCells = 2
    FDs = {f1, f2}
    Conns = {k1, k2}
    NoFd = NoFd
    NoConn = NoConn
    MaxClient = 2
    Pollers = {"epoll", "select"}
    MaxLeaves = 0
    MaxFaults = 1
SPECIFICATION Spec
CHECK_DEADLOCK FALSE
PROPERTIES
    BufferedJoins
