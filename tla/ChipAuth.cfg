SPECIFICATION Spec
CONSTANTS
    Contributors = {a, b}
    Nobody = nobody
    Keys = {k1, k2}
    DevelopmentKeys = {k2}
    Challenges = {i1, i2, i3}
    DocumentChallenges = {d1, d2}
    Documents = {"good", "padded", "lone", "odd"}
    DG14Of <- Passports
    Sessions = {s1}
    Jobs = {j1, j2}
    NoPurpose = no_purpose
    NoKeyId = no_key_id
    None = none
SYMMETRY Symmetric
CHECK_DEADLOCK FALSE
INVARIANTS
    NoRequestTwice
    ReceiptsAreProofs
    StrongestUsed
PROPERTIES
    InOrder
    KeyKeepsAccount
    NoDevelopmentAccess
