SPECIFICATION Spec
CONSTANTS
    Week = 8
    INT_MAX = 1000
    NoZone = NoZone
    UTCOffset <- mcUTCOffset
    Advance = 2
    Late = 1
    Tolerance = 1
    WeeksAhead = 2
    BatchSize = 3
    ArrayRoom = 2
    Zones <- mcZones
    Schedules <- mcSchedules
    NULL = NULL
    RebuildAge = 11
    CountRange = 1000
    MaxTime = 17
    MaxDelay = 2
    MaxMessages = 2
    LastMessage = 4
    EarlyWakeUps = {5, 16}
    ClientResets = {3}
INVARIANTS
    TypeOK
    PeriodsAreOrdered
    RemembersWhatWasSent
    SleepMissesNothing
    AnnouncesItsWeeks
    CountIsOfSchedule
PROPERTIES
    AnnouncesTheTruth
CHECK_DEADLOCK FALSE
