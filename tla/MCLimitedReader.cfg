CONSTANTS
    Sources <- MCSources
    Limit = 4
    MaxEmpty = 3
SPECIFICATION Spec
INVARIANTS
    Bounded
PROPERTIES
    KeepsPromise
    Returns
CHECK_DEADLOCK FALSE
