\* Small limits, so that every one of them is met.
CONSTANTS
    Inputs <- MCInputs
    Texts <- MCTexts
    MaxDepth = 2
    MaxNodes = 6
    MaxErrs = 2
    Cutoff = 2
SPECIFICATION Spec
INVARIANTS
    TypeOK
    IndexAgrees
    WorkBounded
    LimitRetained
    MatchesReference
PROPERTIES
    NoCallbackAfterStop
    Termination
CHECK_DEADLOCK FALSE
