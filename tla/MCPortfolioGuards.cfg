CONSTANTS
    a = a
    b = b
    Symbols = {a, b}
    Equities = {14, 16, 20, 22}
    Opening = 20
    Budget = 10
    FloorPct = 50
    BankPct = 10
    CutPct = 15
    DailyPct = 20
    TotalPct = 30
    SoftPct = 60
    Trailing = TRUE
    RiskPct = 10
    HeatPct = 15
    Flows <- MCFlows
    LastHalfDay = 2
    MaxRiskPct = 10
    MaxPositionPct = 40
    MaxDailyLossPct = 15
    KellyCap = 50
    GapAtr = 2
    MaxVar = 4
    Buffer = 20
    FreeMargin = 30
    Participation = 10
    MaxSlices = 4
SYMMETRY Symmetry
SPECIFICATION GuardSpec
INVARIANTS HeatBounded BudgetIsTradingOnly SizesKeepLimits
PROPERTIES RefusalsHold RoomBeforeLine
