SPECIFICATION Spec
CONSTANTS
    Change = {c1, c2}
    None = None
    MaxUpsets = 3
INVARIANTS TypeOK AppliedIsOnDisk FinishedTaskHasOneOutcome ListedCanBeDecided PendingIsOffered RejectedIsNotOnDisk
PROPERTIES RefinesReview
CHECK_DEADLOCK FALSE
