SPECIFICATION Spec
CONSTANTS
    NONE = NONE
    Codec = {NONE}
    SpecCodec = NONE
    Broker = {A, B}
    Nobody = Nobody
    a1 = a1
    a2 = a2
    Appends <- MCAppends
    Byte <- MCAppends
    ResetAppends = {}
    p1 = p1
    p2 = p2
    Pings <- MCPings
    R = 1
    InitMembers = {A, B}
    InitPrimary = A
    InitRefreshed = {}
    MayReassign = TRUE
    MaxRev = 6
    MaxPipelines = 2
    Fallible = {A}
    Budgets <- MCBudgets
INVARIANTS
    AckedOnce
CHECK_DEADLOCK FALSE
CONSTRAINT MCBegins
