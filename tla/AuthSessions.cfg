SPECIFICATION Spec
CONSTANTS
    Accounts = {a1}
    Requests = {r1, r2, r3, r4, r5}
    MaxTries = 1
    None = none
SYMMETRY Symmetric
CHECK_DEADLOCK FALSE
INVARIANTS
    SurvivorsWereUnderWay
    NoGhosts
PROPERTIES
    ReplacedOnGrounds
    SpentCodesStayDead
