SPECIFICATION FairSpec
CONSTANTS
    d1 = d1
    ann = ann
    noKey = noKey
    r1 = r1
    w1 = w1
    Docs = {d1}
    People = {ann}
    Keys = {}
    NoKey = noKey
    Requests = {r1}
    Workers = {w1}
    MAX_DELIVERIES = 2
    MaxMessages = 2
    MaxChunks = 1
    MaxCrashes = 1
PROPERTY EveryMessageSettles
