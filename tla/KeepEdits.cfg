SPECIFICATION KeepSpec
CONSTANTS
    Byte = {0, 1}
    Sources <- MCSources
    Payloads <- MCPayloads
    UNDO_HISTORY_CAP = 4
    MaxLen = 3
    MaxRevision = 4
INVARIANT KeptEditsStay
CHECK_DEADLOCK FALSE
