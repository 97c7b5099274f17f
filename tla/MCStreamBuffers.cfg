\* Without symmetry, which the liveness property does not allow.
CONSTANTS
    Ops = {a, b}
    Buffers = {b1, b2, b3}
    MaxOpen = 2
    Capacities <- MCCapacities
    NewMembers = 1
    MaxKeptMembers = 2
    Scratches <- MCScratches
    NewScratch = 1
    SmallScratch = 1
    MaxScratch = 2
    LargeSlots = 1
SPECIFICATION Spec
INVARIANTS
    TypeOK
    Exclusive
    CleanAtRest
    RestBounded
PROPERTIES
    NeverWaits
