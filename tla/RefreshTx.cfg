CONSTANTS
    Replica = {r1, r2}
    Operator = {op}
    User = {u1}
    None = None
    MaxTokens = 3
    MaxSignIns = 2
SPECIFICATION MCSpec
INVARIANTS
    OnlySweepsDeadlock
PROPERTIES
    RefusalChangesNothing
    EveryTransactionEnds
    ImplementsContract
