SPECIFICATION StreamSpec
CONSTANTS
    CHUNK_SIZE_BYTES = 2
    LRU_SLACK = 1
    Limits = {2, 4}
    SourceLen = 3
    Viewports <- MCViewports
    MaxDemand = 1
    MaxEdits = 1
    MaxChanges = 1
INVARIANTS
    NoEditLost
    StreamBooks
    OldBytesOnlyInHand
PROPERTY NoFlicker
PROPERTY ViewportLoads
CHECK_DEADLOCK FALSE
