SPECIFICATION Spec
CONSTANTS
    Documents = {d1, d2}
    Contributors = {c1, c2}
    Nobody = nobody
    AttestKeys = {k1}
    Challenges = {ch1}
    MaxRotations = 1
    MaxRequestId = 2
SYMMETRY Symmetric
INVARIANTS
    TypeOK
    ClaimInv
    OneAccountPerDocument
    VerifiedIsBacked
    OneActivationPerCAReceipt
PROPERTIES
    ClaimEndsWithAccount
    BannedDocumentStaysOut
    ImplementsDocumentClaims
