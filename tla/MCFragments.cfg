SPECIFICATION MCSpec
CONSTANTS
    Byte = {b1, b2}
    NONE = NONE
    Codec = {NONE, GZIP}
    Proposals <- MCProposals
    Chunks <- MCChunks
    MaxEnd = 3
    MayDemote = FALSE
INVARIANTS
    FragmentConsistent ProposalsOfSpoolApply PersistedMatchesSum ReplacesCleanly
PROPERTIES
    ImplementsAppendLog ReadsForward ReadsAnswered NeverForgets
CHECK_DEADLOCK FALSE
