CONSTANTS
    daily = daily
    primary = primary
    midday = midday
    NoScan = NoScan
    NoMoment = NoMoment
    Workers = {w1, w2}
    Scans = {daily, midday}
    Enabled <- MCEnabled
    TimeOf <- MCTwoTimes
    ScanDays = {0}
    MaxDay = 0
    TicksPerDay = 2
    Grace = 0
    MissedAfter = 0
    Interval = 1
    MaxBackoff = 1
    MaxFaults = 1
    MaxPosts = 1
SPECIFICATION Spec
INVARIANT Chronological
CONSTRAINT MCShortAudit
CHECK_DEADLOCK FALSE
SYMMETRY MCWorkersSymmetry
