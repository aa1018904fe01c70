SPECIFICATION StreamSpec
CONSTANTS
    CHUNK_SIZE_BYTES = 2
    LRU_SLACK = 1
    Limits = {4}
    SourceLen = 3
    Viewports <- MCOneViewport
    MaxDemand = 2
    MaxEdits = 1
    MaxChanges = 2
INVARIANT SavedBytesShown
CHECK_DEADLOCK FALSE
