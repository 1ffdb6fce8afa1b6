CONSTANTS
    Client = {c1, c2}
    Journal = {j1, j2}
    Unit <- MCUnit
    BufferSize = 1
    Cutoff = 1
    MaxCalls = 3
    Units <- MCUnits
    MaxFaults = 1
SYMMETRY Symmetric
SPECIFICATION Spec
INVARIANTS OrderPreserved DoneIsCommitted BarriersHold AppendsFinish
CHECK_DEADLOCK FALSE
