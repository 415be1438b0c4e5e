CONSTANTS
    daily = daily
    primary = primary
    midday = midday
    NoScan = NoScan
    NoMoment = NoMoment
    Workers = {w1}
    Scans = {daily, midday}
    Enabled <- MCEnabled
    TimeOf <- MCTwoTimes
    ScanDays = {0}
    MaxDay = 1
    TicksPerDay = 2
    Grace = 0
    MissedAfter = 0
    Interval = 1
    MaxBackoff = 1
    MaxFaults = 0
    MaxPosts = 1
SPECIFICATION Spec
INVARIANT DueOncePerDay
CHECK_DEADLOCK FALSE
