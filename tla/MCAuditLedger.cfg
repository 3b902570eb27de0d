SPECIFICATION LedgerSpec
CONSTANTS
    Conn = {c1, c2, c3}
    Entry = {e1, e2}
    NoConn = NoConn
    MaxRows = 4
    MaxVersion = 4
SYMMETRY Symmetry
INVARIANTS
    LedgerTypeOK
    LedgerVerifies
CHECK_DEADLOCK FALSE
