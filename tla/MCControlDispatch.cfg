SPECIFICATION Spec
CONSTANTS
    Conn = {c1, c2}
    NoConn = NoConn
    Entry <- AuditEntry
    MaxRows = 3
    MaxVersion = 4
    Key = {k1, old}
    Payload = {decide, launch}
    Launches = {launch}
    LegacyKey = {old}
    None = None
SYMMETRY Symmetry
INVARIANTS
    TypeOK
    RecordedAuditedAndDoneOnce
    EffectsFollowTheRecord
    ReplayAnswersItsOwnCommand
PROPERTIES
    RefinesCommandOnce
CHECK_DEADLOCK FALSE
