SPECIFICATION FairSpec
CONSTANTS
    logic = logic
    Users = {logic}
    Owner = logic
    UserCore <- OnCoreZero
    NumWorkers = 2
    MinPermanent = 1
    Settings <- Usual
CHECK_DEADLOCK FALSE
INVARIANTS
    TypeOK
    AssertionsOfTheCode
    WakeUpPerActivationUncontended
    CountersExact
    PausedMeansQuiet
PROPERTIES
    OwnersWaitsEnd
