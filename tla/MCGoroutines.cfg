CONSTANTS
    MaxReplicas = 2
    Budgets <- MCBudgets
    A = A
    B = B
    Nobody = Nobody
    NONE = NONE
    a1 = a1
    p1 = p1
SPECIFICATION MCSpec
INVARIANTS
    HeldStoreLives FinishPersists MessagesInOrder
PROPERTIES
    StatusIsTrue Settles Persists ReadsAll OpsFinish
CHECK_DEADLOCK FALSE
