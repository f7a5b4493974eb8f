CONSTANTS
    Callers = {p1, p2}
    Volumes = {v1, v2}
    Slots = 2
    Layers = {0, 2}
    Files = {TRUE}
    MaxCalls = 3
    MaxFaults = 1
    None = None
SPECIFICATION Spec
SYMMETRY Symmetry
INVARIANTS
    Accounted
    Alone
    MountedStaysWhole
CHECK_DEADLOCK FALSE
