CONSTANTS
    Symbols = {s1, s2}
    Routes = {r1, r2}
    Cooloff = 2
    MaxTime = 5
SPECIFICATION PauseSpec
INVARIANTS ShockHolds SafeStartHolds
CHECK_DEADLOCK FALSE
