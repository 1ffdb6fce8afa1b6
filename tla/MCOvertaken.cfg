SPECIFICATION Spec
CONSTANTS
    Item = {1, 2, 3}
    Member = {1, 2, 3}
    ItemLimit <- MCItemLimit
    Announced <- MCAnnounced
    Replication <- MCReplication
    Assigned <- MCAssigned
    Changes <- MCChanges
    maxTxnOps = 3
    MaxLag = 8
PROPERTY
    ChangesAreAllowed
CHECK_DEADLOCK FALSE
