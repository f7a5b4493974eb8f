SPECIFICATION Spec
CONSTANTS
    Irps = {i1, i2}
    Ops <- FilterOps
    SectorCount = 2
    Items = 1
    Requests = 2
    WorkItems = 1
    IsFilterDevice = TRUE
    Protected = {}
    InitialEnds = {0}
    MaxHolds = 1
    MayStop = FALSE
    MayFail = FALSE
    NoIrp = NoIrp
SYMMETRY Symmetry
INVARIANTS
    HeldIsQuiet
    DriveConsistent
    ReadsLatest
CHECK_DEADLOCK FALSE
