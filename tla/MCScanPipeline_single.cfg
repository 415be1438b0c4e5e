CONSTANTS
    daily = daily
    midday = midday
    NoScan = NoScan
    NoMoment = NoMoment
    NoRow = NoRow
    Workers = {w1}
    Scans <- MCScans
    Enabled <- MCScans
    TimeOf <- MCTimes
    ScanDays = {0}
    MaxDay = 0
    TicksPerDay = 2
    Grace = 0
    MissedAfter = 0
    Interval = 1
    MaxBackoff = 1
    MaxFaults = 1
    MaxPosts = 0
    Symbols = {A, B}
SPECIFICATION PipelineSpec
INVARIANTS
    CompletedIsPersisted
    CandidateIsNewest
    DuplicatesNeedFaults
PROPERTY ImplementsWorker
CHECK_DEADLOCK FALSE
