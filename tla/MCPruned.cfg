SPECIFICATION MCSpec
CONSTANTS
    A = A
    B = B
    C = C
    D = D
    path1 = path1
    path2 = path2
    path3 = path3
    Nobody = Nobody
INVARIANTS
    PruningIsSafe
SYMMETRY Symmetric
CHECK_DEADLOCK FALSE
