SPECIFICATION FairSpec
CONSTANTS
    Threads = {t1, t2}
    Tokens = {k1, k2}
    Clkskew = 1
    Noncetime = 2
    PurgeEvery = 2
    Nobody = Nobody
    MaxTime = 4
INVARIANTS TypeOK WalkIsLive Remembered
PROPERTIES AcceptedOnce WalkAdvances VerdictsAreAtomic MutexReleased
