SPECIFICATION FeedSpec
CONSTANTS
    SymbolList <- MCSymbols
    MaxErrors = 2
    PerDay = 2
    MaxTime = 2
    OpenAt <- MCOpenAt
    SlotsPerDay = 8
    IST = 2
    IndiaOpen = 3
    IndiaClose = 5
    Weekdays = {0, 1, 2, 3, 4}
    Holidays = {2, 11}
    FxOpenDow = 0
    FxOpen = 0
    FxCloseDow = 4
    FxClose = 7
INVARIANTS TicksMeetTheirCandles OneEdgePerDay ClockKeepsItsWord
PROPERTIES NobodyOvertakes Recovers
