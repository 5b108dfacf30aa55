SPECIFICATION EngineSpec
CONSTANTS
    Subjects = {"name_registry"}
    StartupCalls = 1
    GameCalls = 1
    ShutdownCalls = 1
    Items = {c1, c2}
    Null = Null
    Scenes = {s1}
    Workers = {w1}
    User = user
    Tasks = {k1, k2}
    Root = root
    None = none
    MaxSpawns = 2
    MaxWaits = 1
    Threads = {t1, t2, t3, t4}
    NoThread = NoThread
    MaxDepth = 3
    Queries = {q1, q2, q3}
    DeviceUsers = {d1, d2}
    MainUser = d1
    Sender = d2
    Nobody = nobody
    MaxCalls = 3
    MaxSwitches = 2
    MaxLag = 1
CHECK_DEADLOCK FALSE
INVARIANTS
    ReclaimedIsNotDeleted
