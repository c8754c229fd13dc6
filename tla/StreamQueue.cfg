SPECIFICATION Spec
CONSTANTS
    i1 = i1
    i2 = i2
    Jobs = {j1}
    Instances = {i1, i2}
    Threads <- MCThreads
    Admins = {a1}
    MAX_DELIVERIES = 2
    Count = 2
    Listed = 2
    MaxLen = 2
    MaxEntries = 2
    MaxFaults = 1
INVARIANTS
    NothingIsLost
    LettersAreKept
    DeadAfterDeliveries
CHECK_DEADLOCK FALSE
