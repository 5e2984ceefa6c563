SPECIFICATION Spec
CHECK_DEADLOCK FALSE
CONSTANTS
    m1 = m1
    m2 = m2
    Schedules <- mcSchedules
    NULL = NULL
    NoList = NoList
    Never = 1000
    FirstRetry = 1
    LastRetry = 2
    CounterRange = 4
    EarlyWakeUps = {3, 6}
    MaxTime = 8
    MaxDelay = 1
    MaxMessages = 1
    MaxReports = 4
INVARIANTS
    TypeOK
    LossesAreMadeUpFor
    OnlySnapshotsAreSent
    BrokerIsFound
PROPERTY
    ReportsKeepTheirDistance
    ReportsKeepComing
