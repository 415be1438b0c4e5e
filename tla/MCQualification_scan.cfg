CONSTANTS
    A = A
    a = a
    B = B
    space = space
    none = none
    Spellings <- MCSpellings
    Blank = none
    Normal <- MCNormal
    Plans <- MCPlans
    Payloads <- MCPayloads
    Naive = Naive
    MaxAge = 1
    Skew = 1
    MaxTime = 3
SPECIFICATION Spec
INVARIANTS
    TypeOK
    FailsClosed
    EachOnce
CHECK_DEADLOCK FALSE
