CONSTANTS
    Callers = {p1}
    Volumes = {v1, v2}
    Slots = 2
    Layers = {0}
    Files = {TRUE}
    MaxCalls = 4
    MaxFaults = 1
    None = None
SPECIFICATION Spec
INVARIANTS
    UnmountsTheSelected
CHECK_DEADLOCK FALSE
