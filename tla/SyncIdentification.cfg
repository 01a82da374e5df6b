SPECIFICATION FairSpec
CONSTANTS
    HourLength <- MCHourLength
    Overlap <- MCOverlap
    Buckets <- MCBuckets
    Tracked <- MCTracked
    MaxTime <- MCMaxTime
    MaxRows <- MCMaxRows
    MaxFailures <- MCMaxFailures
INVARIANTS
    TypeOK
    PullLeavesNoGap
PROPERTIES
    LiveIsTheLocalTable
    CatchesUp
