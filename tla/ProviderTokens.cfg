CONSTANTS
    Caller = {p1, p2}
    Connector = {user}
    None = None
    MaxTokens = 3
SPECIFICATION Spec
INVARIANTS
    NoDuplicateRefresh
    StoredTokenIsUsable
PROPERTIES
    OnlyConnectingReplaces
    EveryCallEnds
