SPECIFICATION Spec
CONSTANTS
    Irps = {i1}
    Ops <- FewOps
    SectorCount = 2
    Items = 1
    Requests = 2
    WorkItems = 1
    IsFilterDevice = FALSE
    Protected = {}
    InitialEnds = {1}
    MaxHolds = 0
    MayStop = TRUE
    MayFail = FALSE
    NoIrp = NoIrp
SYMMETRY Symmetry
INVARIANTS
    PoolBuffersReturned
CHECK_DEADLOCK FALSE
