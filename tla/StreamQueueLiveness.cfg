SPECIFICATION FairSpec
CONSTANTS
    i1 = i1
    i2 = i2
    Jobs = {j1}
    Instances = {i1}
    Threads <- MCOneInstance
    Admins = {}
    MAX_DELIVERIES = 2
    Count = 2
    Listed = 2
    MaxLen = 2
    MaxEntries = 3
    MaxFaults = 1
PROPERTIES
    ImplementsAtLeastOnce
    EveryEntrySettles
CHECK_DEADLOCK FALSE
