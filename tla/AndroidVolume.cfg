\* Two attempts under one name, and a mount activity with two pending tasks.
CONSTANTS
    Names = {n1}
    MaxAttempts = 2
    Blocks = 1
    MaxTasks = 2
SPECIFICATION FairSpec
INVARIANTS
    HeaderBeforeMount
    ReportedAloneIntact
PROPERTIES
    ActivityReleased
\* Every attempt may be over and the user idle.
CHECK_DEADLOCK FALSE
