SPECIFICATION Spec
CONSTANTS
    t1 = t1
    t2 = t2
    k1 = k1
    k2 = k2
    k3 = k3
    k4 = k4
    none = none
    NoKey <- MCNoKey
    Threads <- MCThreads
    Keys <- MCKeys
    TimeToLive <- MCTimeToLive
    MaximumEntries <- MCMaximumEntries
    MaxClock <- MCMaxClock
SYMMETRY Interchangeable
INVARIANTS
    TypeOK
    Freshness
    SizeBound
