\* One object with more keys than the cutoff, the last of them repeated.
CONSTANTS
    Inputs <- RepeatedInputs
    Texts <- MCTexts
    MaxDepth = 2
    MaxNodes = 8
    MaxErrs = 2
    Cutoff = 2
SPECIFICATION Spec
INVARIANTS
    LastValueWins
CHECK_DEADLOCK FALSE
