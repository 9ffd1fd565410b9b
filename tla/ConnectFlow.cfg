CONSTANTS
    Worker = {w1, w2}
    User = {u1, u2}
    Provider = {p1, p2}
    None = None
    TicketTTL = 1
    StateTTL = 1
    TenMinutes = 1
    MaxNow = 3
    MaxTickets = 2
    MaxStates = 2
SYMMETRY Interchangeable
SPECIFICATION Spec
INVARIANTS
    TypeOK
    CredentialLandsWithItsUser
    OneFlowPerTicket
PROPERTIES
    OnlyOwnersSpend
CHECK_DEADLOCK FALSE
