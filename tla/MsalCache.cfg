CONSTANTS
    Caller = {p1, p2}
    Remover = {user}
    Account = {work, home}
    None = None
    MaxTokens = 3
SPECIFICATION Spec
INVARIANTS
    SilentIsSerialized
PROPERTIES
    SilentNeverReconnects
    EveryCallEnds
