SPECIFICATION EditSpec
CONSTANTS
    Byte = {0, 1, 2, 3}
    Sources <- MCSources
    Payloads <- MCPayloads
    UNDO_HISTORY_CAP = 2
    MaxLen = 3
    MaxRevision = 4
    MaxRemove = 2
    WordBytes = {0}
    Spaces = {1}
    NewLine = 1
    Brackets <- MCBrackets
    Quotes = {2}
    Columns = 2
    Texts <- MCTexts
    NibbleBase = 2
    Nibbles = {0, 1}
    Clipboard <- MCClipboard
    Counts = {0, 2}
    MaxCount = 2
    MaxPresses = 5
INVARIANTS
    TypeOK
    ViewIsPresent
    UndoWalksPast
    RedoWalksFuture
    OldBytesAreTruthful
    WordsOfText
    BracketsOfText
PROPERTIES
    EditorIsUndoBuffer
    CaretStaysInside
    DigitsMeet
    DeletedIsKept
CHECK_DEADLOCK FALSE
