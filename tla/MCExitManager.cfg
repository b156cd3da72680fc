CONSTANTS
    Venues = {"paper_india", "paper_mt5", "openalgo"}
    Quantities = {2, 4}
    Prices = {0, 2, 4, 5, 6}
    Entry = 2
    InitialStop = 0
    AtBreakeven = 4
    AtSecond = 6
    Pct = 33
    LockAt = 5
    LockLevel = 4
    LockTrail = 1
    Trails = {1, 3}
    Flattens = {FALSE}
    MinStep = 2
    MaxNoProgress = 2
    MaxRestarts = 1
    MaxFailures = 2
SPECIFICATION ExitSpec
INVARIANTS PartialOnce Protected NeverOversold CleanExit
PROPERTIES StopNeverLoosens FreesCapital
CHECK_DEADLOCK FALSE
