SPECIFICATION FairSpec
CONSTANTS
    Node = {n1, n2, n3}
    Stranger = {x}
    Executor = {e1}
    None = None
    MaxUpsets = 0
    MaxStarts = 2
INVARIANTS
    SearchFindsTheCycles
PROPERTIES
    GraphReachesAVerdict
CHECK_DEADLOCK FALSE
