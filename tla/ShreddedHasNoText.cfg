SPECIFICATION Spec
CONSTANTS
    d1 = d1
    ann = ann
    noKey = noKey
    r1 = r1
    w1 = w1
    Docs = {d1}
    People = {ann}
    Keys = {}
    NoKey = noKey
    Requests = {r1}
    Workers = {w1}
    MAX_DELIVERIES = 2
    MaxMessages = 3
    MaxChunks = 2
    MaxCrashes = 0
INVARIANT ShreddedHasNoText
