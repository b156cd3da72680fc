CONSTANTS
    N20 = 2
    N50 = 3
    M21 = 2
    M63 = 3
    R2 = 1
    G4 = 2
    A14 = 3
    Chop = 10
    Strong = 300
    Weak = 100
    Flat = 50
    Script = "research"
    STRATEGY = "donchian"
    LONG_ONLY = FALSE
    Shapes <- MCShapes
    Warmup = 4
    Days = 6
SPECIFICATION ReplaySpec
INVARIANT DecidedAtTheOpen
CHECK_DEADLOCK FALSE
