SPECIFICATION Spec
CONSTANTS
    ann = ann
    bob = bob
    People <- MCPeople
    Songs <- MCSongs
    MonthStarts <- MCMonthStarts
    Calendar <- MCCalendar
    Days <- MCDays
    MaxSearches <- MCMaxSearches
SYMMETRY Interchangeable
CHECK_DEADLOCK FALSE
INVARIANTS
    TypeOK
    WindowsTile
    PagesMakeTheChart
    ListenersArePeople
    MovementIsAgainstTheLastChart
    NewMeansNeverBefore
    GrainsAgree
