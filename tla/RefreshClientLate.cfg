CONSTANTS
    Client = {c1, static}
    Static = {static}
    Attempt = {a1}
    ClientIdle = 3
    RegistryTokens = 3
    RegistryClock = 4
    User = {u1}
    None = None
    NotAnInt = NotAnInt
    GraceEnv = 1
    TTL = 3
    DefaultGrace = 2
    SweepAfter = 1
    Day = 2
    MaxNow = 5
    MaxTokens = 4
    Refusal = Refusal
    LateRequests = TRUE
    MaxLosses = 1
SPECIFICATION MCSpec
INVARIANTS
    FirstPresentationAccepted
CHECK_DEADLOCK FALSE
