CONSTANTS
    Routes = {r1, r2}
    Kills = {k1}
    Unlocks = {u1}
    NumLegs = 2
    RedisVolatile = TRUE
SPECIFICATION MCSpec
INVARIANTS LateEntryRefused KillAccounts
PROPERTIES KillCompletes
CHECK_DEADLOCK FALSE
