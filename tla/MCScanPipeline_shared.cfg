CONSTANTS
    daily = daily
    midday = midday
    NoScan = NoScan
    NoMoment = NoMoment
    NoRow = NoRow
    Workers = {w1, w2}
    Scans = {daily}
    Enabled = {daily}
    TimeOf <- MCOneTime
    ScanDays = {0}
    MaxDay = 0
    TicksPerDay = 1
    Grace = 0
    MissedAfter = 0
    Interval = 1
    MaxBackoff = 1
    MaxFaults = 1
    MaxPosts = 0
    Symbols = {A}
SPECIFICATION PipelineSpec
INVARIANT QualifiedIsBacked
PROPERTY ObservationsImmutable
CHECK_DEADLOCK FALSE
