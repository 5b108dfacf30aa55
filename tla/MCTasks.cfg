SPECIFICATION TasksSpec
CONSTANTS
    Subjects = {"task_tree", "free_list", "task_queue"}
    Workers = {w1, w2}
    User = user
    Tasks = {k1, k2}
    Root = root
    None = none
    MaxSpawns = 3
    MaxWaits = 2
    TasksSpawn = TRUE
    TasksSkipWait = TRUE
    Buffers = {b1, b2, b3}
    Null = Null
    Layouts = {"whole", "halves", "pointer_only"}
    MaxAllocations = 3
CHECK_DEADLOCK FALSE
SYMMETRY Symmetry
INVARIANTS
    TasksTypesOK
    ReferencesCountHolders
    CounterCountsChildren
    RunsOnce
    CapturedByOne
    EachNodeInOnePlace
PROPERTIES
    WaitCollectsChildren
    FirstInFirstOut
