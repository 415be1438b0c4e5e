CONSTANTS
    Records = {r1}
    Requests = {q1, q2, q3, q4}
    None = None
SPECIFICATION Spec
INVARIANTS
    TypeOK
    OutcomeIsWhole
    AnsweredIsRecorded
    ResolvedOnce
    AuditedIsResolved
PROPERTIES
    OutcomeIsFinal
    OutcomeNeverErased
SYMMETRY MCSymmetry
CHECK_DEADLOCK FALSE
