SPECIFICATION Spec
CONSTANTS
    DayLength <- MCDayLength
    Overlap <- MCOverlap
    ReadBatch <- MCReadBatch
    RawLife <- MCRawLife
    ParsedLife <- MCParsedLife
    Parsings <- MCParsings
    Invocations <- MCScheduledInvocations
    MaxTime <- MCMaxTime
    MaxVersion <- MCOneVersion
    MaxCommands <- MCMaxCommands
    MaxTwice <- MCMaxTwice
CHECK_DEADLOCK FALSE
INVARIANT
    NothingDoubleCounted
