\* Five units in chunks of two and one; the header is saved after two chunks.
CONSTANTS
    Size = 5
    ChunkSize = 2
    Interval = 3
SPECIFICATION FairSpec
INVARIANTS
    Recoverable
    MountedIsWhole
    FinishedIsClean
PROPERTIES
    CrashLosesLittle
    RunEnds
\* A volume whose primary header is gone and that no wizard finds stays so.
CHECK_DEADLOCK FALSE
