CONSTANTS
    Worker = {w1, w2}
    native = native
    web = web
    Client = {native, web}
    User = {u1, u2}
    Uri <- MCUri
    Registered <- MCRegistered
    Verifier = {v1, v2}
    None = None
    PendingTTL = 1
    CodeTTL = 1
    TenMinutes = 1
    MaxNow = 3
    MaxStates = 2
    MaxCodes = 2
    Replica = {r1, r2}
    AccessEnv = 0
    ExchangeEnv = malformed
    DefaultAccess = 3
    DefaultExchange = 2
    MinTTL = 1
    MaxAccess = 3
    MaxExchange = 2
    Window = 2
    MaxClock = 7
    MaxKeys = 3
    MaxTokens = 2
SYMMETRY Workers
SPECIFICATION MCSpec
INVARIANTS
    OneFamilyPerSignIn
    FamilyBelongsToSignIn
    TokensVerifyUntilExpiry
PROPERTIES
    OnlyOwnersSpend
CHECK_DEADLOCK FALSE
