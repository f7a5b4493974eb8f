\* In a ring of two slots an operation of two fragments may find its first slot
\* held by the operation before it; in one of three it wraps within itself, and
\* may find its second slot held.  Three units on two threads make fragments of
\* different lengths.
SPECIFICATION FairSpec
CONSTANTS
    Workers = {w1, w2}
    Clients = {c1, c2}
    QueueSize = 3
    LegacyQueueSize = 2
    ThreadCount = 2
    MaxUnits = 3
    Sizes = {1, 3}
    NoThread = NoThread
INVARIANTS
    TypeOK
    FollowsOwnOperation
    ExclusiveSlot
    NoLostWakeup
PROPERTIES
    AbstractSpec
    CallsReturn
    StopEnds
