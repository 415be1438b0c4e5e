CONSTANTS
    daily = daily
    midday = midday
    NoRun = NoRun
    Years <- MCYears
    Scans <- MCScans
    TimeOf <- MCTimes
    TicksPerDay = 3
    Prices = {0, 1, 2, 3, 4, 5, 6, 7}
    Trades <- MCTrades
    MaxLength = 4
    Evidence <- MCEvidence
    APlusMin = 8500
    Limit = 3
    MaxCandidates = 5
SPECIFICATION Spec
INVARIANTS
    CalendarIsExchange
    NextRunIsEarliest
PROPERTIES
    VerdictStands
    NewcomersMustBeBetter
CHECK_DEADLOCK FALSE
