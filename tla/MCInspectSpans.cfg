CONSTANTS
    Inputs <- SpanInputs
    Contents <- MCContents
    BadKey <- MCBadKey
    MaxDepth = 4
    MaxNodes = 9
    MaxErrs = 2
SPECIFICATION Spec
INVARIANT SpansHidden
