\* Small limits, so that every one of them is met.
CONSTANTS
    Inputs <- MCInputs
    Contents <- MCContents
    BadKey <- MCBadKey
    MaxDepth = 4
    MaxNodes = 9
    MaxErrs = 2
SPECIFICATION Spec
INVARIANTS
    TypeOK
    LimitRetained
    EditsSound
    DetectionExact
    MatchesReference
