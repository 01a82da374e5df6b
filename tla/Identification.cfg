SPECIFICATION IdentificationSpec
CONSTANTS
    Stopwords <- MCStopwords
    ShortTokens <- MCShortTokens
    Placeholders <- MCPlaceholders
    UselessKeys <- MCUselessKeys
    MaxPrefix <- MCMaxPrefix
    LookupChunk <- MCLookupChunk
    InsertBatch <- MCInsertBatch
    QueryBatches <- MCQueryBatches
    Dumps <- MCDumps
INVARIANTS
    IdentificationTypeOK
    RowsMatchTheTable
