SPECIFICATION FairSpec
CONSTANTS
    LastPrf = 3
    ThreadCount = 2
    Workers = {w1, w2}
    RingSize = 3
    Headers <- AllHeaders
    MayFail = TRUE
INVARIANTS TypeOK ResultRight SlotExclusive
PROPERTY Returns
