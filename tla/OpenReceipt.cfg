SPECIFICATION Spec
CONSTANTS
    Accounts = {a1}
    Files = {1, 2}
    Receipts = {1}
    Stuck = {}
    Batch = 2
    MaxFaults = 1
CHECK_DEADLOCK FALSE
INVARIANTS
    OpenReceiptIsQueued
