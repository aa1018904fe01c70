SPECIFICATION LifeSpec
CONSTANTS
    one = one
    two = two
    Files <- TwoFiles
    Digested = TRUE
    DefaultMode = "Ask"
    MaxContent <- MCMaxContent
    MaxWork = 1
    first = first
    second = second
    third = third
    Procs <- ThreeProcs
INVARIANTS
    WorkIsHeld
    RestoredOnItsBase
    NothingMislaid
PROPERTIES
    EverySidecarIsOffered
    ForwardedIsOpened
CHECK_DEADLOCK FALSE
