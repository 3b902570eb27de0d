SPECIFICATION Spec
CONSTANTS
    Node = {n1, n2}
    Stranger = {}
    Executor = {e1, e2}
    None = None
    MaxUpsets = 1
    MaxStarts = 2
SYMMETRY Symmetry
INVARIANTS
    TypeOK
    DependenciesFirst
    RunningHasAJob
    RowsAgree
    StartedOncePerExecutor
CHECK_DEADLOCK FALSE
