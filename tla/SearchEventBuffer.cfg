SPECIFICATION FairSpec
CONSTANTS
    BatchSize <- MCBatchSize
    MaximumPendingEvents <- MCMaximumPendingEvents
    MaxReceived <- MCMaxReceived
    MaxFailedFlushes <- MCMaxFailedFlushes
INVARIANTS
    TypeOK
    Conservation
    PendingIsNewest
    LossIsCounted
PROPERTIES
    EveryEventSettles
    StopEndsRun
    ImplementsFlushLoop
