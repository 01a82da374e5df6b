SPECIFICATION Spec
CONSTANTS
    DayLength <- MCDayLength
    Overlap <- MCOverlap
    ReadBatch <- MCReadBatch
    RawLife <- MCRawLife
    ParsedLife <- MCParsedLife
    Parsings <- MCParsings
    Invocations <- MCInvocations
    MaxTime <- MCMaxTime
    MaxVersion <- MCMaxVersion
    MaxCommands <- MCMaxCommands
    MaxTwice <- MCMaxTwice
CHECK_DEADLOCK FALSE
INVARIANTS
    TypeOK
    NoHoles
    RebuildIsExact
    CountedOncePerRun
