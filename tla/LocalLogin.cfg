CONSTANTS
    Login = {l1, l2}
    Provider = {github, atlassian}
    FallsBack = {github}
    None = None
    Timeout = 2
    StateTTL = 3
    DeviceTTL = 1
SPECIFICATION Spec
INVARIANTS
    TypeOK
    OneExchangePerLogin
PROPERTIES
    LatestAnswerCounts
    EveryLoginEnds
CHECK_DEADLOCK FALSE
