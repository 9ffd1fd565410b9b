CONSTANTS
    Replica = {r1, r2}
    Operator = {op}
    User = {u1}
    None = None
    MaxTokens = 3
    MaxSignIns = 1
SPECIFICATION Spec
INVARIANTS
    RevocationComplete
