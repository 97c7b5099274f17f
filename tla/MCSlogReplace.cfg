\* Groups in groups, to a depth of two, with every kind of attribute in them.
CONSTANTS
    Attrs <- MCAttrs
    Records <- MCRecords
    Policies <- MCPolicies
SPECIFICATION Spec
INVARIANTS
    GroupsKept
    RefusedHidden
    MatchesReference
