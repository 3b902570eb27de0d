SPECIFICATION Spec
CONSTANTS
    busy = busy
    quiet = quiet
    Job = {busy}
    MaxOccasions <- MCMaxOccasions
    MaxCliRuns <- MCMaxCliRuns
    MaxCrashes = 1
    MaxFaults = 0
PROPERTIES
    DeletedStaysDeleted
CHECK_DEADLOCK FALSE
