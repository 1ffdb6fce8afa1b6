SPECIFICATION FairSpec
CONSTANTS
    Primaries = 2
    Source = {s, t}
    MinOffset <- MCMinOffset
    EndOffset = 1
    Apps <- MCApps
    FlushFails = {"rocks"}
    Fallible = {1}
    Statted = {1}
    None = None
INVARIANTS OutputsBeforeOffsets AppliedOnce StatIsDurable
PROPERTIES NeverRewinds Progresses
CHECK_DEADLOCK FALSE
