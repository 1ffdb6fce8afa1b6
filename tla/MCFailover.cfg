SPECIFICATION Spec
CONSTANTS
    NONE = NONE
    Codec = {NONE}
    SpecCodec = NONE
    Nobody = Nobody
    Broker = {A, B, C}
    a1 = a1
    a2 = a2
    a3 = a3
    p1 = p1
    Appends <- MCAppends
    Byte <- MCAppends
    ResetAppends = {a3}
    Pings = {p1}
    R = 2
    InitMembers = {A, B}
    InitPrimary = A
    InitRefreshed = {A, B}
    MayReassign = FALSE
    MaxRev = 3
    MaxPipelines = 2
    Fallible = {A}
    Budgets <- MCBudgets
INVARIANTS
    AckedSafely
SYMMETRY MCSymmetry
CHECK_DEADLOCK FALSE
