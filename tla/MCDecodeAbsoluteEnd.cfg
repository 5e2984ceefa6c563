SPECIFICATION Spec
CHECK_DEADLOCK FALSE
CONSTANTS
    m1 = m1
    m2 = m2
    notMac = notMac
    utc = utc
    east = east
    NoZone = NoZone
    Malformed = Malformed
    Week = 6
    INT_MAX = 1000
    UTCOffset <- MCUTCOffset
    IsMac <- MCIsMac
    None = None
    WeeklyEvents <- MCWeeklyEvents
    AbsoluteEvents <- MCAbsoluteEvents
    MacTables <- MCMacTables
    Zones = {utc, east}
    Rates = {0, 1, 7}
    MinimumReportingRate = 4
    MaxMacs = 2
    MaxTable = 2
    MaxKeys = 3
    MaxObjects = 1
    Probes <- MCProbes
INVARIANT
    MostRecentEventRules
