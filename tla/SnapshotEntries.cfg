SPECIFICATION StoresSpec
CONSTANTS
    CHUNK_SIZE_BYTES = 2
    LRU_SLACK = 2
    Limits = {4, 6}
    SourceIds = {f1, f2}
    Readers = {ui, w1}
    UI = ui
    Length <- MCLength
    gpui = gpui
    egui = egui
    none = none
    first = first
    rebuilt = rebuilt
    second = second
    commands = commands
    network = network
    Fronts <- MCFronts
    Egui <- MCEgui
    Manifests <- MCManifests
    NoManifest = none
    Version <- MCVersion
    Requested <- MCRequested
    Perms <- MCPerms
    Commands = commands
    MaxSwitches = 2
    MaxOps = 1
    archive = archive
    entry = entry
    other = other
    large = large
    little = little
    Tabs = {t1, t2}
    Sources = {archive, entry, other}
    Files = {archive}
    Root <- MCRoot
    Contents = {large, little}
    Small = {little}
    TempDir = tempdir
    Nothing = nothing
    Torn = torn
    MaxId = 2
INVARIANT
    EntriesKeepTheirOwn
CHECK_DEADLOCK FALSE
