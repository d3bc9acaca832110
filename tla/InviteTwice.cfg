SPECIFICATION Spec
CONSTANTS
    Accounts = {a1}
    Requests = {r1, r2, r3, r4}
    MaxTries = 1
    None = none
SYMMETRY Symmetric
CHECK_DEADLOCK FALSE
PROPERTY InviteNeverOverwrites
