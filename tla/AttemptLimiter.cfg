SPECIFICATION LimiterSpec
CONSTANTS
    Accounts = {a1, a2}
    Devices = {dev1}
    Testers = {a2}
    Requests = {r1, r2}
    First = 3
    Second = 2
    Third = 2
    NoKey = noKey
SYMMETRY Symmetric
INVARIANTS
    LimiterTypeOK
    AttemptsBounded
    RowsAccount
