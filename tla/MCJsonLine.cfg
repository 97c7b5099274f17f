\* Two goroutines and two Writes: each writes once, or one writes both halves.
CONSTANTS
    w1 = w1
    w2 = w2
    Writers <- MCWriters
    Chunks <- MCChunks
    Policies <- MCPolicies
    BaseOf <- MCBaseOf
    MaxWrites = 2
SPECIFICATION Spec
INVARIANTS
    LinesIndependent
    NothingExposed
    FallbackAlone
PROPERTIES
    SharedLineConstant
    WritesReturn
\* After the last Write the loggers may stay silent.
CHECK_DEADLOCK FALSE
