SPECIFICATION FairSpec
CONSTANTS
    Accounts = {a1, a2}
    Files = {1, 2}
    Receipts = {1, 2}
    Stuck = {1}
    Batch = 3
    MaxFaults = 1
CHECK_DEADLOCK FALSE
INVARIANTS
    NothingLeftBehind
    CompletedMeansGone
    HonestReply
    GoneWithAnAccount
PROPERTIES
    QueueDrains
