SPECIFICATION FairSpec
CONSTANTS
    BatchSize <- MCBatchSize
    MaximumPendingEvents <- MCMaximumPendingEvents
    ToleranceTicks <- MCToleranceTicks
INVARIANTS
    TypeOK
    ExitZeroMeansSignalled
    LeftoversArrivedLate
PROPERTIES
    RestartNeedsSilence
    NoSilentCollector
