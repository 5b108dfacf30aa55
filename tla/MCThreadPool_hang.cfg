SPECIFICATION FairSpec
CONSTANTS
    logic = logic
    Users = {logic}
    Owner = logic
    UserCore <- OnCoreZero
    NumWorkers = 2
    MinPermanent = 1
    Settings <- Destroyed
CHECK_DEADLOCK FALSE
PROPERTIES
    DestructionEnds
