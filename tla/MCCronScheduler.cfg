SPECIFICATION FairSpec
CONSTANTS
    busy = busy
    quiet = quiet
    Job = {busy, quiet}
    MaxOccasions <- MCMaxOccasions
    MaxCliRuns <- MCMaxCliRuns
    MaxCrashes = 1
    MaxFaults = 1
INVARIANTS
    TypeOK
    AttemptsArePaidFor
    RunCountIsTruthful
    FiringHasATask
PROPERTIES
    FiringIsLeft
CHECK_DEADLOCK FALSE
