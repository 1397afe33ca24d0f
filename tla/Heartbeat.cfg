CONSTANTS
    Clients = {c1}
    DeadTime = 4
    MaxTime = 6
    MaxFaults = 1
SPECIFICATION Spec
CHECK_DEADLOCK FALSE
INVARIANTS
    TypeOK
    SilentRemoved
PROPERTIES
    RegularStays
