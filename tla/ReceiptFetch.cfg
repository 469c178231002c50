SPECIFICATION Spec
CONSTANTS
    a1 = a1
    a2 = a2
    a3 = a3
    b1 = b1
    mine = mine
    other = other
    Addresses = {a1, a2, a3, b1}
    PoolOf <- MCPoolOf
    AskedPool = mine
    TimeFrames <- AllFrames
    PAGE_COUNT = 2
    MaxTime = 3
INVARIANTS
    TypeOK
    SteadyAreFetched
    NothingFromBeforeFrame
