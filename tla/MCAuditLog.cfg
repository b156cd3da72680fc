CONSTANTS
    Processes = {p1, p2}
    MaxRows = 5
    Genesis = Genesis
    Piece = Piece
    Refused = Refused
SPECIFICATION AuditSpec
INVARIANT NothingSilentlyLost
PROPERTIES LogSpec
CHECK_DEADLOCK FALSE
