SPECIFICATION Spec
CONSTANTS
    LastPrf = 2
    ThreadCount = 2
    Workers = {w1, w2}
    RingSize = 2
    Headers <- WrongPassword
    MayFail = FALSE
INVARIANT CleanupAlone
