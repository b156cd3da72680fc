CONSTANTS
    Orders = {o1, o2}
    BrokerIds = {b1}
    NoId = NoId
    Requested <- MCRequested
SPECIFICATION Spec
INVARIANT BooksAgree
PROPERTY LifecycleSpec
