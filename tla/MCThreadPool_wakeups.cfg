SPECIFICATION Spec
CONSTANTS
    logic = logic
    Users = {logic}
    Owner = logic
    UserCore <- OnCoreZero
    NumWorkers = 2
    MinPermanent = 1
    Settings <- Contended
CHECK_DEADLOCK FALSE
INVARIANTS
    WakeUpPerActivation
