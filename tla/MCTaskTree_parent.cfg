SPECIFICATION Spec
CONSTANTS
    user = user
    w1 = w1
    w2 = w2
    k1 = k1
    k2 = k2
    k3 = k3
    Workers = {w1, w2}
    User = user
    Tasks = {k1, k2}
    Root = root
    None = none
    MaxSpawns = 2
    MaxWaits = 1
    TasksSpawn = TRUE
    TasksSkipWait = FALSE
CHECK_DEADLOCK FALSE
SYMMETRY Symmetry
INVARIANTS
    ParentOutlivesChildsEnd
