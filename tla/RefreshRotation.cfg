CONSTANTS
    Client = {c1}
    User = {u1, u2}
    None = None
    NotAnInt = NotAnInt
    GraceEnv = 1
    TTL = 4
    DefaultGrace = 2
    SweepAfter = 0
    Day = 2
    MaxNow = 5
    MaxTokens = 4
SYMMETRY ClientsAndUsers
SPECIFICATION Spec
INVARIANTS
    TypeOK
    OneLivePerFamily
    NoFork
    GraceCountsFromFirst
    RevokedStaysDead
PROPERTIES
    NothingPromisedForgotten
    ImplementsContract
CHECK_DEADLOCK FALSE
