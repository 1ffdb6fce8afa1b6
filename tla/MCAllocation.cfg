SPECIFICATION MCSpec
CONSTANTS
    Item = {1, 2, 3}
    Member = {1, 2, 3}
    ItemLimit <- MCItemLimit
    Announced <- MCAnnounced
    Replication <- MCReplication
    Assigned <- MCAssigned
    Changes <- MCChanges
    maxTxnOps = 3
    MaxLag = 8
INVARIANTS
    FollowsEtcd
PROPERTIES
    AssignmentsFit KeepsReplication AllocationConverges Solves
CHECK_DEADLOCK FALSE
