CONSTANTS
    Workers <- MCWorkers
    Eod = "eod"
    MaxRestarts = 1
    MinDays = 3
    MinStreak = 2
    RampDays = 1
    MaxRuns = 5
SPECIFICATION OpsSpec
INVARIANTS GateIsHistory LiveEarned
PROPERTIES DeathNoticed
CHECK_DEADLOCK FALSE
