SPECIFICATION WatcherSpec
CONSTANTS
    one = one
    Files <- OneFile
    Prefs <- AskOnly
    TogglesPolling = FALSE
    MaxWrites = 3
    MaxCommands = 3
INVARIANT NoBoomerang
CHECK_DEADLOCK FALSE
