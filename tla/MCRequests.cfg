SPECIFICATION Spec
CHECK_DEADLOCK FALSE
CONSTANTS
    shorter = shorter
    longer = longer
    Schedules <- mcSchedules
    Parts <- mcParts
    Malformed = Malformed
    None = None
    NoFile = NoFile
    Empty = Empty
    Torn = Torn
    Status = Status
    Blocked = Blocked
    Faults = {"open", "write", "short", "flush", "remove", "read"}
    MaxRequests = 3
    MaxCrashes = 2
INVARIANTS
    TypeOK
    AcknowledgedSurvives
    NothingIsLostSilently
    RefusalsChangeNothing
PROPERTY
    ImplementsStore
