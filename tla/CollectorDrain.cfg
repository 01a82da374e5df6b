SPECIFICATION FairSpec
CONSTANTS
    BatchSize <- MCBatchSize
    MaximumPendingEvents <- MCMaximumPendingEvents
    ToleranceTicks <- MCToleranceTicks
INVARIANT
    StopDrainsEverything
