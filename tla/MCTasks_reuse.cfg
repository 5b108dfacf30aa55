SPECIFICATION TasksSpec
CONSTANTS
    Subjects = {"free_list"}
    Workers = {w1, w2}
    User = user
    Tasks = {k1, k2}
    Root = root
    None = none
    MaxSpawns = 2
    MaxWaits = 1
    TasksSpawn = TRUE
    TasksSkipWait = TRUE
    Buffers = {b1, b2, b3}
    Null = Null
    Layouts = {"halves", "pointer_only"}
    MaxAllocations = 4
CHECK_DEADLOCK FALSE
SYMMETRY Symmetry
INVARIANTS
    PoppedIsFree
