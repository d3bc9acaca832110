SPECIFICATION Spec
CONSTANTS
    Contributors = {c1, c2}
    Purposes = {"attestation", "liveness"}
    Nobody = nobody
    NoPurpose = "none"
    MaxChallenges = 3
    MaxPerContributor = 2
    MaxIssued = 4
SYMMETRY Symmetric
INVARIANTS
    WithinLimits
PROPERTIES
    OnlyTheOwnerLosesIt
    ImplementsLedger
