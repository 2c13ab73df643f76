SPECIFICATION Spec
CONSTANTS
    k = k
    c = c
    t = t
    None = None
    Channels = {k, c}
    Kind <- MCKind
    Home <- MCHome
    MovesTo <- MCMovesTo
    Mortal = {k}
    Policies <- MCPolicies
    MaxMoves = 1
    MaxRestarts = 1
INVARIANTS AllowedIsCurrent
PROPERTIES ContentInScope TombstoneStays ScopesSettle
