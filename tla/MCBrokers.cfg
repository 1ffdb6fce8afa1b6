SPECIFICATION MCSpec
CONSTANTS
    A = A
    B = B
    Nobody = Nobody
    NONE = NONE
    a1 = a1
    a2 = a2
    p1 = p1
    b1 = b1
    b2 = b2
INVARIANTS
    AckedSafely ConsistentMeansCaughtUp OwnedOnce ResponsesInOrder
SYMMETRY Symmetric
CHECK_DEADLOCK FALSE
