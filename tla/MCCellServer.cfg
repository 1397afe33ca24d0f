CONSTANTS
    NumCells = 2
    FDs = {f1, f2, f3}
    Conns = {k1, k2, k3, k4}
    NoFd = NoFd
    NoConn = NoConn
    MaxClient = 2
    Pollers = {"epoll", "select"}
    MaxLeaves = 2
    MaxFaults = 1
SPECIFICATION Spec
CHECK_DEADLOCK FALSE
INVARIANTS
    TypeOK
    MapExact
    OneOwner
    LimitRespected
    CountersExact
    CloseJoinsCells
    CloseFreesAll
PROPERTY NoClientOverwritten
SYMMETRY Symmetry
