\* Two requests are in flight and share one work item.  With three request
\* buffers the two fragment buffers, used in turn, can be waited for.
SPECIFICATION Spec
CONSTANTS
    Irps = {i1, i2}
    Ops <- AllOps
    SectorCount = 2
    Items = 2
    Requests = 3
    WorkItems = 1
    IsFilterDevice = FALSE
    Protected = {0}
    InitialEnds = {1}
    MaxHolds = 0
    MayStop = TRUE
    MayFail = TRUE
    NoIrp = NoIrp
SYMMETRY Symmetry
INVARIANTS
    WritesLand
    FragmentExclusive
    Balanced
    ProtectionHolds
    StopIsQuiet
CHECK_DEADLOCK FALSE
