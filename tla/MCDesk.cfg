CONSTANTS
    Universe <- MCUniverse
    LegOf <- MCLegOf
    Registry <- MCRegistry
    MaxEntries = 2
    N20 = 2
    N50 = 3
    M21 = 2
    M63 = 3
    R2 = 1
    G4 = 2
    A14 = 2
    Chop = 10
    Strong = 300
    Weak = 100
    Flat = 50
    StartingCash = 50
    Slip = 1
    Fee = 1
SPECIFICATION DeskSpec
INVARIANTS LotsCovered LedgerBalances CreditedToOpener SignalsDoNotLookAhead EquityIsTrue
