CONSTANTS
    Symbols = {s1}
    Requests = {q1, q2}
    Scans = {w1}
    Inputs <- MCFewScans
    ScanInputs <- MCFewScans
    Accounts <- MCOneAccount
    WorkerAccount <- MCAccount
    None = None
    NaN = NaN
    PosInf = PosInf
    NegInf = NegInf
    DiscoveryMin = 65
    WatchMin = 74
    ArmedMin = 82
    APlusMin = 90
    GateRewardRisk = 2
    MinRewardRisk = 2
    MinPrice = 3
    NormalRiskPct = 1
    ExceptionalRiskPct = 2
    MaxHeatPct = 5
    DailyLossPct = 3
SPECIFICATION Spec
INVARIANT TradeReadyAlwaysExecutable
CHECK_DEADLOCK FALSE
