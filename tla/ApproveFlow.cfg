SPECIFICATION Spec
CONSTANTS
    Documents = {d1}
    Contributors = {c1, c2}
    Nobody = nobody
    AttestKeys = {k1}
    Challenges = {ch1, ch2, ch3}
    MaxRotations = 1
    MaxRequestId = 1
    NoPurpose = "no purpose"
    Testers = {c1}
    Handlers = {h1, h2}
    Lockable = {c1}
SYMMETRY Symmetric
CHECK_DEADLOCK FALSE
INVARIANTS
    EvidenceUsedOnce
    VerifiedOnlyWithEvidence
    ReceiptsBoundToEvidence
