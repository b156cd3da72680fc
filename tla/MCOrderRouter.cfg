CONSTANTS
    Orders = {o1, o2}
    BrokerIds = {b1}
    NoId = NoId
    Requested <- MCRequested
    Symbols <- MCSymbols
    SymbolOf <- MCSymbolOf
SPECIFICATION RouterSpec
INVARIANTS SettledBooksExact BookedOnce
PROPERTIES LifecycleSpec RouteReturns
CHECK_DEADLOCK FALSE
