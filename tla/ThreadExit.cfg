CONSTANTS
    Callers = {c1}
    NoOne = NoOne
    MaxStarts = 1
SPECIFICATION Spec
CHECK_DEADLOCK FALSE
PROPERTY ExitDoesNotBlock
