CONSTANTS
    Tasks = {t1, t2, t3, t4}
SPECIFICATION Spec
CHECK_DEADLOCK FALSE
INVARIANTS
    TypeOK
    CloseDrains
PROPERTIES
    ImplementsTaskQueue
    TaskRuns
