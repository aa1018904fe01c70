SPECIFICATION WatcherSpec
CONSTANTS
    one = one
    Files <- OneFile
    Prefs <- AllPrefs
    TogglesPolling = TRUE
    MaxWrites = 3
    MaxCommands = 2
INVARIANT PollSetAgrees
PROPERTY ChangeReachesTab
