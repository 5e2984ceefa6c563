SPECIFICATION Spec
CONSTANTS
    Week = 8
    INT_MAX = 1000
    NoZone = NoZone
    UTCOffset <- mcUTCOffset
    Advance = 2
    Late = 1
    Tolerance = 1
    WeeksAhead = 2
    BatchSize = 3
    ArrayRoom = 2
    Zones <- mcZones
    Schedules <- mcSchedules
    NULL = NULL
    RebuildAge = 11
    CountRange = 1000
    MaxTime = 20
    MaxDelay = 0
    MaxMessages = 1
    LastMessage = 5
    EarlyWakeUps = {5, 14, 18}
    ClientResets = {}
INVARIANT
    NeverSentTwice
CHECK_DEADLOCK FALSE
