SPECIFICATION SessionSpec
CONSTANTS
    one = one
    two = two
    Files <- OneFile
    Digested = TRUE
    DefaultMode = "Ask"
    MaxContent <- MCMaxContent
    MaxWork = 1
INVARIANT DismissedWorkIsHeld
