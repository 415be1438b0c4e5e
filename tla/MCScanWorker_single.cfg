CONSTANTS
    daily = daily
    primary = primary
    midday = midday
    NoScan = NoScan
    NoMoment = NoMoment
    Workers = {w1}
    Scans <- MCScans
    Enabled <- MCEnabled
    TimeOf <- MCTimeOf
    ScanDays = {1}
    MaxDay = 2
    TicksPerDay = 2
    Grace = 0
    MissedAfter = 1
    Interval = 1
    MaxBackoff = 3
    MaxFaults = 2
    MaxPosts = 0
SPECIFICATION LiveSpec
INVARIANTS
    TypeOK
    NoRerun
    CompletedIsFinal
    RetriesNeedFaults
    RunsAreDue
    OvernightStartIsRecovery
PROPERTIES
    ImplementsLedger
    DueIsSettled
    StopEnds
CHECK_DEADLOCK FALSE
