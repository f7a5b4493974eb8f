SPECIFICATION FairSpec
CONSTANTS
    Irps = {i1}
    Ops <- FewOps
    SectorCount = 2
    Items = 1
    Requests = 1
    WorkItems = 1
    IsFilterDevice = TRUE
    Protected = {}
    InitialEnds = {0}
    MaxHolds = 2
    MayStop = TRUE
    MayFail = FALSE
    NoIrp = NoIrp
PROPERTIES
    AcceptedCompletes
    HoldEnds
    StopEnds
CHECK_DEADLOCK FALSE
