\* Small limits, so that every one of them is met; MaxErrs is 64 in the code.
CONSTANTS
    Inputs <- MCInputs
    MaxDepth = 2
    MaxNodes = 7
    MaxBytes = 5
    MaxErrs = 2
SPECIFICATION EmitSpec
INVARIANTS
    TypeOK
    TrackingConsistent
    LimitRetained
    WorkBounded
    MatchesReference
    EmitsTree
PROPERTIES
    NoCallbackAfterStop
    Termination
CHECK_DEADLOCK FALSE
