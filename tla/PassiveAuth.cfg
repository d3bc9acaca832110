SPECIFICATION Spec
CONSTANTS
    Requests = {r1, r2, r3}
    MaxConcurrent = 1
    MaxWaiters = 2
    Signers = {ua, xx}
    Ukrainian = {ua}
    MaxAge = 0
    MaxNow = 1
    MaxReplacements = 1
    None = none
CHECK_DEADLOCK FALSE
INVARIANTS
    SteadyVerdict
    PermitsExact
PROPERTIES
    PassedOnTrueGrounds
    NoStaleSnapshot
    EveryoneAnswered
