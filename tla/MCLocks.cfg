SPECIFICATION LocksSpec
CONSTANTS
    Threads = {t1, t2, t3}
    NoThread = NoThread
    MaxDepth = 2
    CountLimit = 4
    Root = Root
    Path <- Tree
    Folders = {Root, folder, subfolder}
    folder = folder
    subfolder = subfolder
    file = file
SYMMETRY Symmetry
CHECK_DEADLOCK FALSE
INVARIANTS
    LocksTypesOK
    MutualExclusion
    WordCountsOwners
    UnlockAssertions
    CountsAreHolders
    SubtreeExclusion
    LocksAreBranch
    OnlyRootUpgradesDeadlock
PROPERTIES
    ImplementsPromise
    ImplementsGranularLock
