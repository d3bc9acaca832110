SPECIFICATION Spec
CONSTANTS
    Requests = {r1, r2}
    Workers = {w1, w2}
    Window = 1
    Ttl = 2
    MaxEntries = 2
    Skew = 1
    Delay = 0
    Bodies <- Sample
    CalibrationApproved = TRUE
    MaxNow = 6
    None = none
SYMMETRY Symmetric
CHECK_DEADLOCK FALSE
INVARIANTS
    WorkedOnOnce
    AnswersAreOwn
