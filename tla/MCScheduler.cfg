SPECIFICATION FairSpec
CHECK_DEADLOCK FALSE
CONSTANTS
    m1 = m1
    m2 = m2
    utc = utc
    east = east
    a1 = a1
    a2 = a2
    a3 = a3
    NoZone = NoZone
    NULL = NULL
    Free = Free
    Week = 4
    INT_MAX = 1000
    UTCOffset <- MCUTCOffset
    Schedules <- MCOneZone
    Zones = {utc}
    InvalidZones = {utc}
    Addresses = {a1, a2}
    RebuildAge = 3
    MaxTime = 6
    MaxMessages = 3
INVARIANTS
    TypeOK
    SchedulesAreOwned
    FirewallMatchesBlocked
    NoLostWakeup
    SleepsNoLongerThanListIsRight
    EnabledMeansBlocked
PROPERTIES
    ScheduleIsStableUnderLock
    SwapIsSeen
    FirewallConverges
    ImplementsEnforcement
