\* Three units in blocks of two, so that the last block is smaller.  The header is
\* saved after the first block, and after the last one when the thread ends.
CONSTANTS
    Last = 3
    BlockSize = 2
    Threshold = 2
SPECIFICATION FairSpec
INVARIANTS
    TypeOK
    Readable
    KeysKept
PROPERTIES
    ShutdownLosesNothing
    CrashLosesLittle
    AbortEnds
    SetupEnds
