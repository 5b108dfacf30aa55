SPECIFICATION EngineSpec
CONSTANTS
    Subjects = {"apc", "render_channel", "frame_loop", "task_wait", "simple_lock", "name_registry",
                "device"}
    StartupCalls = 2
    GameCalls = 2
    ShutdownCalls = 2
    Items = {c1, c2, c3, c4}
    Null = Null
    Scenes = {s1}
    Workers = {w1}
    User = user
    Tasks = {k1, k2}
    Root = root
    None = none
    MaxSpawns = 3
    MaxWaits = 1
    Threads = {t1, t2, t3, t4}
    NoThread = NoThread
    MaxDepth = 3
    Queries = {q1, q2, q3}
    DeviceUsers = {d1, d2}
    MainUser = d1
    Sender = d2
    Nobody = nobody
    MaxCalls = 3
    MaxSwitches = 1
    MaxLag = 2
CHECK_DEADLOCK FALSE
INVARIANTS
    EngineTypesOK
    CountIsOwnersDebt
    RunsOnceInOrder
    NothingUsedIsDeleted
    DeferredUntilDrawn
    EngineAssertions
    UsesLiveQueries
    NeitherRunsAway
    RegistryNamesWhatLives
PROPERTIES
    ImplementsPromise
    ImplementsDelivery
    CallsAreServed
    PushedIsProcessed
    FramesGoOn
    WaitEnds
    EveryQueryEnds
