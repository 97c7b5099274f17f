\* Integers wrap at 64, and a count of nodes saturates at 15.
CONSTANTS
    Receivers <- MCReceivers
    Elements <- MCElements
    Spent = {1, 3}
    Depths = {1, 2}
    MaxDepth = 3
    MaxNodes = 11
    MaxInline = 15
    Word = 64
    Fresh = 41
SPECIFICATION Spec
INVARIANTS
    CopyIsolated
    SharingPreserved
    CopyCharged
    RefusedForAReason
