\* Fewer nodes than bytes: the document fits the one budget and not the other.
CONSTANTS
    Inputs <- RawCalls
    MaxDepth = 2
    MaxNodes = 4
    MaxBytes = 5
    MaxErrs = 2
SPECIFICATION EmitSpec
PROPERTIES
    RawChargedToNodes
CHECK_DEADLOCK FALSE
